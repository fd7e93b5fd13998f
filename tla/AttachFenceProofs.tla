------------------------- MODULE AttachFenceProofs -------------------------
(***************************************************************************)
(* Theorems about AttachFence, for any number of connections, attempts and *)
(* views.  A takeover is judged by a watermark that somebody may collect   *)
(* meanwhile, by an answer of the ledger that may be old: the invariant    *)
(* follows what each handler has been told (Asked), what its fence covers  *)
(* (Fenced) and what the watermark does (Held), over the ledger's order    *)
(* (Stamped, Minted) and the order of generations (Lineage).  Two that the *)
(* runs refute are proved at the end with the steps that break them left   *)
(* out: no id twice, and no death without a detach.                        *)
(***************************************************************************)
EXTENDS AttachFence, WellFoundedInduction, TLAPS

\* The connections: an id is stamped before it is used, a transport that is up
\* is in the ledger.
Stamped ==
    \A n \in Conns :
        /\ n \in stamping => n <= next_connection_id
        /\ n \in stamping \/ n > next_connection_id =>
               transport[n] = "none" /\ live[n] = "absent"
        /\ transport[n] = "up" => live[n] # "absent"

\* The attempts so far, each on a connection that has said it is this viewer's,
\* and that stays in the ledger while the attempt's handler runs.
Minted ==
    \A a \in Attempts :
        /\ a > minted => attempts[a] = Unminted
        /\ a <= minted =>
              /\ attempts[a] \in Attempt /\ attempts[a].stage # "none"
              /\ transport[attempts[a].conn] # "none"
              /\ live[attempts[a].conn] \in {Me, "absent"}
              /\ attempts[a].stage \in Holding => live[attempts[a].conn] = Me

\* Generations follow the order of minting, as long as no record is forgotten.
Lineage ==
    /\ \A v \in Views : generation[v] <= minted
    /\ forgets = 0 =>
          \A a \in 1..minted :
              /\ attempts[a].generation <= generation[attempts[a].view]
              /\ \A b \in 1..minted :
                    a < b /\ attempts[a].view = attempts[b].view =>
                        attempts[a].generation < attempts[b].generation

\* What a handler has been told by the ledger and has not yet collected by.
Asking == {"asking", "leaving"}
Asked ==
    \A h \in Attempts :
        attempts[h].stage \in Asking => attempts[h].bound < attempts[h].conn

\* A fence covers its own connection, those of the older attempts that can still
\* arrive, and whatever a handler is about to collect by.
Fenced ==
    \A w \in Attempts :
        At(w, "fenced") =>
            /\ attempts[w].bound >= attempts[w].conn
            /\ \A a \in Attempts : CanArrive(a) /\ a < w => attempts[a].conn <= attempts[w].bound
            /\ \A h \in Attempts :
                  attempts[h].stage \in Asking => attempts[h].bound < attempts[w].bound

\* So does the watermark it is stored in.
Held ==
    \A a \in Attempts :
        LET v == attempts[a].view IN
        CanArrive(a) /\ a < winner[v] =>
            /\ attach_watermarks[Me][v] # None
            /\ attempts[a].conn <= attach_watermarks[Me][v].fence_conn_id
            /\ \A h \in Attempts : attempts[h].stage \in Asking =>
                  attempts[h].bound < attach_watermarks[Me][v].fence_conn_id

\* The last attempt taken over made the watermark and the attachment.
Past == {"attached", "answered", "registered", "serving", "detached", "leaving", "gone"}
Won ==
    \A v \in Views :
        /\ winner[v] <= minted
        /\ winner[v] # 0 => /\ attempts[winner[v]].view = v
                            /\ attempts[winner[v]].stage \in Past
        /\ attach_watermarks[Me][v] # None =>
              /\ winner[v] # 0
              /\ attach_watermarks[Me][v].generation = attempts[winner[v]].generation
        /\ Auth!Attached(v) =>
              /\ winner[v] # 0
              /\ views[v].attachment_epoch = attempts[winner[v]].epoch

Epochs ==
    \A a \in Attempts :
        /\ attempts[a].epoch <= next_attachment_epoch
        /\ \A b \in Attempts :
              a # b /\ attempts[a].epoch = attempts[b].epoch => attempts[a].epoch = 0

IInv ==
    /\ TypeOK /\ Stamped /\ Minted /\ Lineage
    /\ Asked /\ Fenced /\ Held /\ Won /\ Epochs

-----------------------------------------------------------------------------
(***************************************************************************)
(* The connections a client may have, in order.                            *)
(***************************************************************************)

\* A set of natural numbers has a least one, by well-foundedness.
LEMMA Least ==
    ASSUME NEW S, S \subseteq Nat, S # {}
    PROVE  \E n \in S : \A m \in S : n <= m
<1> DEFINE R == OpToRel(<, Nat)
<1>1. IsWellFoundedOn(R, Nat)
  BY NatLessThanWellFounded
<1>2. \A x, y \in Nat : y < x => <<y, x>> \in R
  BY DEF OpToRel
<1> HIDE DEF R
<1>3. PICK x \in S : \A y \in S : ~(<<y, x>> \in R)
  BY <1>1, WFMin
<1>4. \A y \in S : ~(y < x)
  <2> SUFFICES ASSUME NEW y \in S, y < x PROVE FALSE
    OBVIOUS
  <2>1. x \in Nat /\ y \in Nat
    OBVIOUS
  <2>2. <<y, x>> \in R
    BY <1>2, <2>1
  <2> QED
    BY <1>3, <2>2
<1>5. \A y \in S : y \in Int /\ x \in Int
  OBVIOUS
<1> QED
  BY <1>4, <1>5

\* A set of connection ids has a greatest one: there are MaxConns at most.
LEMMA Greatest ==
    ASSUME NEW S, S \subseteq Conns, S # {}
    PROVE  \E n \in S : \A m \in S : n >= m
<1> DEFINE T == {MaxConns - n : n \in S}
<1>1. \A n \in S : n \in Int /\ n <= MaxConns
  BY BoundsOK DEF Conns
<1>2. T \subseteq Nat /\ T # {}
  BY <1>1, BoundsOK
<1>3. PICK t \in T : \A u \in T : t <= u
  BY <1>2, Least
<1>4. PICK n \in S : t = MaxConns - n
  OBVIOUS
<1>5. \A m \in S : MaxConns - n <= MaxConns - m
  BY <1>3, <1>4
<1>6. \A m \in S : n >= m
  BY <1>1, <1>5, BoundsOK
<1> QED
  BY <1>6

\* A connection that could be this viewer's is above what has terminated and not
\* above the fence.
LEMMA LedgerFacts ==
    ASSUME TypeOK
    PROVE  /\ TerminatedThrough(Me) \in 0..MaxConns /\ HighestFor(Me) \in 0..MaxConns
           /\ \A n \in Conns : live[n] = Me =>
                 TerminatedThrough(Me) < n /\ n <= HighestFor(Me)
<1> DEFINE S == Holders(Me)
<1>1. S \subseteq Conns /\ Conns \subseteq Nat
  BY DEF Holders, Conns
<1>2. \A n \in Conns : live[n] = Me => n \in S
  BY DEF Holders, CouldBelongTo
<1>3. CASE S = {}
  BY <1>2, <1>3 DEF TerminatedThrough, HighestFor, TypeOK
<1>4. CASE S # {}
  <2>1. MinOf(S) \in S /\ \A m \in S : MinOf(S) <= m
    BY <1>1, <1>4, Least DEF MinOf
  <2>2. MaxOf(S) \in S /\ \A m \in S : MaxOf(S) >= m
    BY <1>1, <1>4, Greatest DEF MaxOf
  <2>3. TerminatedThrough(Me) = MinOf(S) - 1 /\ HighestFor(Me) = MaxOf(S)
    BY <1>4 DEF TerminatedThrough, HighestFor
  <2>4. MinOf(S) \in 1..MaxConns /\ MaxOf(S) \in 1..MaxConns
    BY <2>1, <2>2, <1>1 DEF Conns
  <2> HIDE DEF S
  <2> QED
    BY <1>2, <2>1, <2>2, <2>3, <2>4, BoundsOK DEF Conns
<1> QED
  BY <1>3, <1>4

-----------------------------------------------------------------------------
(***************************************************************************)
(* What the authority's methods do to views and watermarks.                *)
(***************************************************************************)

\* Collecting changes no attachment, and frees only watermarks whose fence has
\* retired (gc_attach_watermarks).
LEMMA CollectFacts ==
    ASSUME Auth!TypeOK, NEW t \in 0..MaxConns, Auth!CollectWatermarks(Me, t)
    PROVE  /\ Auth!TypeOK' /\ UNCHANGED <<views, next_attachment_epoch>>
           /\ \A v \in Views :
                 \/ attach_watermarks'[Me][v] = attach_watermarks[Me][v]
                 \/ /\ attach_watermarks'[Me][v] = None
                    /\ attach_watermarks[Me][v].fence_conn_id <= t
<1> DEFINE kept == [v \in Views |->
                      IF \/ attach_watermarks[Me][v] = None
                         \/ Auth!Owns(v, Me)
                         \/ attach_watermarks[Me][v].fence_conn_id > t
                      THEN attach_watermarks[Me][v] ELSE None]
<1>1. /\ UNCHANGED <<views, controller, next_control_epoch, control_revision,
                     next_attachment_epoch, size, layout_epoch, streams, applied>>
      /\ attach_watermarks' = [attach_watermarks EXCEPT ![Me] = kept]
  BY DEF Auth!CollectWatermarks, Auth!seats, Auth!layout
<1>2. attach_watermarks \in [{Me, Other} -> [Views -> Auth!AttachWatermark \cup {None}]]
  BY DEF Auth!TypeOK
<1>3. kept \in [Views -> Auth!AttachWatermark \cup {None}]
  BY <1>2
<1>4. attach_watermarks'[Me] = kept
  BY <1>1, <1>2
<1>5. attach_watermarks' \in [{Me, Other} -> [Views -> Auth!AttachWatermark \cup {None}]]
  BY <1>1, <1>2, <1>3
<1>6. Auth!TypeOK'
  BY <1>1, <1>5 DEF Auth!TypeOK
<1>7. ASSUME NEW v \in Views
      PROVE  \/ kept[v] = attach_watermarks[Me][v]
             \/ kept[v] = None /\ attach_watermarks[Me][v].fence_conn_id <= t
  <2>1. attach_watermarks[Me][v] # None => attach_watermarks[Me][v].fence_conn_id \in 0..MaxConns
    BY <1>2 DEF Auth!AttachWatermark
  <2> QED
    BY <2>1, BoundsOK
<1> QED
  BY <1>1, <1>4, <1>6, <1>7

\* A takeover leaves the view attached under the next epoch and a watermark of
\* its generation, whose fence is not below its own.
LEMMA TakeOverFacts ==
    ASSUME Auth!TypeOK, NEW v \in Views, NEW g \in Attempts, NEW f \in 0..MaxConns,
           Auth!TakeOver(v, Me, "ReadWrite", g, f, TRUE)
    PROVE  /\ Auth!TypeOK'
           /\ next_attachment_epoch' = next_attachment_epoch + 1
           /\ next_attachment_epoch' \in 1..MaxAttempts
           /\ views'[v] # None /\ views'[v].attachment_epoch = next_attachment_epoch'
           /\ \A w \in Views \ {v} : /\ views'[w] = views[w]
                                     /\ attach_watermarks'[Me][w] = attach_watermarks[Me][w]
           /\ attach_watermarks'[Me][v] # None
           /\ attach_watermarks'[Me][v].generation = g
           /\ attach_watermarks'[Me][v].fence_conn_id >= f
<1> DEFINE n == next_attachment_epoch + 1
           new == Auth!NewView(Me, "ReadWrite", n)
           mark == Auth!RaisedWatermark(v, Me, g, f)
<1>1. n \in 1..MaxAttempts /\ next_attachment_epoch' = n
  BY BoundsOK DEF Auth!TakeOver, Auth!TypeOK
<1>2. /\ views' = [views EXCEPT ![v] = new]
      /\ attach_watermarks' = [attach_watermarks EXCEPT ![Me][v] = mark]
      /\ Auth!CancelStateStream(v) /\ Auth!ClearControllerForView(v)
      /\ UNCHANGED <<size, layout_epoch, applied>>
  BY <1>1 DEF Auth!TakeOver, Auth!layout
<1>3. /\ new \in Auth!AttachedView /\ new # None /\ new.attachment_epoch = n
  <2>1. new \in Auth!AttachedView /\ new.attachment_epoch = n
    BY <1>1 DEF Auth!NewView, Auth!AttachedView, Auth!Access
  <2> QED
    BY <2>1, NoneIsNoRecord
<1>4. /\ mark \in Auth!AttachWatermark /\ mark # None
      /\ mark.generation = g /\ mark.fence_conn_id >= f
  <2>1. attach_watermarks[Me][v] \in Auth!AttachWatermark \cup {None}
    BY DEF Auth!TypeOK
  <2>2. attach_watermarks[Me][v] # None =>
            attach_watermarks[Me][v].fence_conn_id \in 0..MaxConns
    BY <2>1 DEF Auth!AttachWatermark
  <2>3. mark.generation = g /\ mark.fence_conn_id \in 0..MaxConns /\ mark.fence_conn_id >= f
    BY <2>2, BoundsOK DEF Auth!RaisedWatermark
  <2>4. mark \in Auth!AttachWatermark
    BY <2>3 DEF Auth!AttachWatermark, Auth!RaisedWatermark
  <2> QED
    BY <2>3, <2>4, NoneIsNoRecord
<1> HIDE DEF new, mark, n
<1>5. views \in [Views -> Auth!AttachedView \cup {None}]
  BY DEF Auth!TypeOK
<1>6. /\ views' \in [Views -> Auth!AttachedView \cup {None}]
      /\ views'[v] = new /\ \A w \in Views \ {v} : views'[w] = views[w]
  BY <1>2, <1>3, <1>5
<1>7. attach_watermarks \in [{Me, Other} -> [Views -> Auth!AttachWatermark \cup {None}]]
  BY DEF Auth!TypeOK
<1>8. /\ attach_watermarks' \in [{Me, Other} -> [Views -> Auth!AttachWatermark \cup {None}]]
      /\ attach_watermarks'[Me][v] = mark
      /\ \A w \in Views \ {v} : attach_watermarks'[Me][w] = attach_watermarks[Me][w]
  BY <1>2, <1>4, <1>7
<1>9. streams' \in [1..MaxAttempts -> {"none", "open", "fired"}]
  BY <1>2, <1>5 DEF Auth!CancelStateStream, Auth!TypeOK
<1>10. /\ controller' \in Auth!ControllerState \cup {None}
       /\ control_revision' \in Nat \ {0} /\ next_control_epoch' = next_control_epoch
  BY <1>2 DEF Auth!ClearControllerForView, Auth!TypeOK
<1>11. Auth!TypeOK'
  BY <1>1, <1>2, <1>6, <1>8, <1>9, <1>10 DEF Auth!TypeOK
<1> QED
  BY <1>1, <1>3, <1>4, <1>6, <1>8, <1>11 DEF n

\* Registering a state stream changes no attachment.
LEMMA RegisterFacts ==
    ASSUME Auth!TypeOK, NEW v \in Views, NEW e \in 0..MaxAttempts,
           Auth!RegisterStateStream(v, e)
    PROVE  /\ Auth!TypeOK' /\ UNCHANGED <<attach_watermarks, next_attachment_epoch>>
           /\ \A w \in Views : /\ views'[w] = None <=> views[w] = None
                               /\ views[w] # None =>
                                     views'[w].attachment_epoch = views[w].attachment_epoch
<1>1. /\ views[v] # None /\ views[v].attachment_epoch = e
      /\ views' = [views EXCEPT ![v].state_stream = TRUE]
      /\ streams' = [streams EXCEPT ![e] = "open"]
      /\ UNCHANGED <<controller, next_control_epoch, control_revision, size, layout_epoch,
                     next_attachment_epoch, attach_watermarks, applied>>
  BY DEF Auth!RegisterStateStream, Auth!Attached, Auth!seats, Auth!layout
<1>2. views \in [Views -> Auth!AttachedView \cup {None}] /\ views[v] \in Auth!AttachedView
  BY <1>1 DEF Auth!TypeOK
<1> DEFINE r == [views[v] EXCEPT !.state_stream = TRUE]
<1>3. r \in Auth!AttachedView /\ r.attachment_epoch = views[v].attachment_epoch
  BY <1>2 DEF Auth!AttachedView
<1>4. r # None
  BY <1>3, NoneIsNoRecord
<1>5. views'[v] = r /\ \A w \in Views \ {v} : views'[w] = views[w]
  BY <1>1, <1>2
<1>6. views' \in [Views -> Auth!AttachedView \cup {None}]
  BY <1>1, <1>2, <1>3
<1>7. streams' \in [1..MaxAttempts -> {"none", "open", "fired"}]
  BY <1>1 DEF Auth!TypeOK
<1>8. Auth!TypeOK'
  BY <1>1, <1>6, <1>7 DEF Auth!TypeOK
<1> HIDE DEF r
<1> QED
  BY <1>1, <1>3, <1>4, <1>5, <1>8

\* A detach by epoch ends the attachment of that epoch and no other.
LEMMA DetachFacts ==
    ASSUME Auth!TypeOK, NEW v \in Views, NEW e, Auth!DetachViewIfEpoch(v, Me, e)
    PROVE  /\ Auth!TypeOK' /\ UNCHANGED <<attach_watermarks, next_attachment_epoch>>
           /\ views[v] # None /\ views[v].attachment_epoch = e
           /\ views'[v] = None /\ \A w \in Views \ {v} : views'[w] = views[w]
<1>1. /\ views[v] # None /\ views[v].attachment_epoch = e
      /\ views' = [views EXCEPT ![v] = None]
      /\ Auth!CancelStateStream(v) /\ Auth!ClearControllerForView(v)
      /\ UNCHANGED <<size, layout_epoch, next_attachment_epoch, attach_watermarks, applied>>
  BY DEF Auth!DetachViewIfEpoch, Auth!Remove, Auth!Owns, Auth!Attached, Auth!layout
<1>2. views \in [Views -> Auth!AttachedView \cup {None}]
  BY DEF Auth!TypeOK
<1>3. streams' \in [1..MaxAttempts -> {"none", "open", "fired"}]
  BY <1>1, <1>2 DEF Auth!CancelStateStream, Auth!TypeOK
<1>4. /\ controller' \in Auth!ControllerState \cup {None}
      /\ control_revision' \in Nat \ {0} /\ next_control_epoch' = next_control_epoch
  BY <1>1 DEF Auth!ClearControllerForView, Auth!TypeOK
<1>5. /\ views' \in [Views -> Auth!AttachedView \cup {None}]
      /\ views'[v] = None /\ \A w \in Views \ {v} : views'[w] = views[w]
  BY <1>1, <1>2
<1>6. Auth!TypeOK'
  BY <1>1, <1>3, <1>4, <1>5 DEF Auth!TypeOK
<1> QED
  BY <1>1, <1>5, <1>6

\* The authority's types, when it is not called.
LEMMA AuthorityStays == ASSUME Auth!TypeOK, UNCHANGED authority PROVE Auth!TypeOK'
  BY DEF authority, Auth!TypeOK

-----------------------------------------------------------------------------
(***************************************************************************)
(* One attempt goes on; the others stay as they are.                       *)
(***************************************************************************)

\* Attempt a turns to stage s; what was minted of it stays.
Turns(a, s) ==
    /\ attempts' \in [Attempts -> Attempt \cup {Unminted}]
    /\ \A b \in Attempts \ {a} : attempts'[b] = attempts[b]
    /\ attempts'[a] \in Attempt /\ attempts'[a].stage = s
    /\ attempts'[a].view = attempts[a].view /\ attempts'[a].conn = attempts[a].conn
    /\ attempts'[a].generation = attempts[a].generation

\* What is running or on the wire was minted, and its connection is this viewer's
\* and in the ledger.
LEMMA AttemptFacts ==
    ASSUME TypeOK, Stamped, Minted, NEW a \in Attempts, attempts[a].stage # "none"
    PROVE  /\ a <= minted /\ attempts[a] \in Attempt
           /\ attempts[a].view \in Views /\ attempts[a].conn \in Conns
           /\ attempts[a].generation \in Attempts
           /\ attempts[a].bound \in 0..MaxConns /\ attempts[a].epoch \in 0..MaxAttempts
           /\ CanArrive(a) \/ attempts[a].stage \in Holding => live[attempts[a].conn] = Me
<1>1. a <= minted
  BY BoundsOK DEF Minted, Unminted, Attempts, TypeOK
<1>2. attempts[a] \in Attempt
  BY <1>1 DEF Minted
<1>3. attempts[a].view \in Views /\ attempts[a].conn \in Conns /\ attempts[a].generation \in Attempts
      /\ attempts[a].bound \in 0..MaxConns /\ attempts[a].epoch \in 0..MaxAttempts
  BY <1>2 DEF Attempt
<1>4. CanArrive(a) \/ attempts[a].stage \in Holding => live[attempts[a].conn] = Me
  BY <1>1, <1>3 DEF Minted, Stamped, CanArrive, Holding
<1> QED
  BY <1>1, <1>2, <1>3, <1>4

\* A turn keeps the types, the ledger's order and the order of generations.
LEMMA TurnKeeps ==
    ASSUME IInv, NEW a \in Attempts, NEW s \in Stages \ {"none"}, Turns(a, s),
           attempts[a].stage # "none",
           s \in Holding => attempts[a].stage \in Holding \/ CanArrive(a),
           UNCHANGED <<ledger, viewer>>, Auth!TypeOK', winner' \in [Views -> 0..MaxAttempts]
    PROVE  TypeOK' /\ Stamped' /\ Minted' /\ Lineage'
<1>i. TypeOK /\ Stamped /\ Minted /\ Lineage
  BY DEF IInv
<1>u. UNCHANGED <<next_connection_id, stamping, live, highest_accepted, transport,
                  generation, minted, forgets>>
  BY DEF ledger, viewer
<1>1. TypeOK' /\ Stamped'
  BY <1>i, <1>u DEF TypeOK, Stamped, Turns
<1>2. Minted'
  <2> SUFFICES ASSUME NEW b \in Attempts
               PROVE  /\ b > minted => attempts'[b] = Unminted
                      /\ b <= minted =>
                            /\ attempts'[b] \in Attempt /\ attempts'[b].stage # "none"
                            /\ transport[attempts'[b].conn] # "none"
                            /\ live[attempts'[b].conn] \in {Me, "absent"}
                            /\ attempts'[b].stage \in Holding => live[attempts'[b].conn] = Me
    BY <1>u DEF Minted
  <2>1. CASE b = a
    <3>1. a <= minted /\ ~(a > minted)
      BY <1>i, AttemptFacts, BoundsOK DEF TypeOK, Attempts
    <3>2. s \in Holding => live[attempts[a].conn] = Me
      BY <1>i, AttemptFacts
    <3> QED
      BY <1>i, <2>1, <3>1, <3>2 DEF Turns, Minted
  <2>2. CASE b # a
    BY <1>i, <2>2 DEF Turns, Minted
  <2> QED
    BY <2>1, <2>2
<1>3. Lineage'
  <2>1. \A b \in Attempts : /\ attempts'[b].generation = attempts[b].generation
                            /\ attempts'[b].view = attempts[b].view
    BY DEF Turns
  <2>2. 1..minted \subseteq Attempts
    BY <1>i, BoundsOK DEF TypeOK, Attempts
  <2> QED
    BY <1>i, <1>u, <2>1, <2>2 DEF Lineage
<1> QED
  BY <1>1, <1>2, <1>3

\* The same of the invariant's other parts, when the ledger is not asked, no
\* watermark changes and no view is given a new attachment.
LEMMA SettledTurn ==
    ASSUME IInv, NEW a \in Attempts, NEW s \in Stages \ {"none"}, Turns(a, s),
           attempts[a].stage # "none",
           s \in Holding => attempts[a].stage \in Holding \/ CanArrive(a),
           CanArrive(a)' => CanArrive(a),
           attempts[a].stage \in Past => s \in Past,
           s \in Asking \cup {"fenced"} =>
               attempts[a].stage = s /\ attempts'[a].bound = attempts[a].bound,
           attempts'[a].epoch = attempts[a].epoch,
           UNCHANGED <<ledger, viewer, winner, attach_watermarks, next_attachment_epoch>>,
           Auth!TypeOK',
           \A v \in Views : views'[v] # None =>
               views[v] # None /\ views'[v].attachment_epoch = views[v].attachment_epoch
    PROVE  IInv'
<1>i. TypeOK /\ Stamped /\ Minted /\ Asked /\ Fenced /\ Held /\ Won /\ Epochs
  BY DEF IInv
<1>u. UNCHANGED <<transport, minted>>
  BY DEF ledger, viewer
<1>2. TypeOK' /\ Stamped' /\ Minted' /\ Lineage'
  BY <1>i, TurnKeeps DEF TypeOK
<1>3. \A b \in Attempts :
          /\ attempts'[b].conn = attempts[b].conn /\ attempts'[b].view = attempts[b].view
          /\ attempts'[b].generation = attempts[b].generation
          /\ attempts'[b].epoch = attempts[b].epoch
          /\ CanArrive(b)' => CanArrive(b)
          /\ attempts[b].stage \in Past => attempts'[b].stage \in Past
          /\ attempts'[b].stage \in Asking \cup {"fenced"} =>
                attempts[b].stage = attempts'[b].stage /\ attempts'[b].bound = attempts[b].bound
  BY <1>u DEF Turns, CanArrive
<1>4. Asked'
  BY <1>i, <1>3 DEF Asked
<1>5. Fenced'
  BY <1>i, <1>3 DEF Fenced, At
<1>6. Held'
  BY <1>i, <1>3 DEF Held
<1>7. Won'
  <2>1. \A v \in Views : winner[v] # 0 => winner[v] \in Attempts
    BY <1>i, BoundsOK DEF TypeOK, Attempts
  <2> QED
    BY <1>i, <1>u, <1>3, <2>1 DEF Won, Auth!Attached
<1>8. Epochs'
  BY <1>i, <1>3 DEF Epochs
<1> QED
  BY <1>2, <1>4, <1>5, <1>6, <1>7, <1>8 DEF IInv

\* In most turns the authority is not called at all.
LEMMA QuietTurn ==
    ASSUME IInv, NEW a \in Attempts, NEW s \in Stages \ {"none"}, Turns(a, s),
           attempts[a].stage # "none",
           s \in Holding => attempts[a].stage \in Holding \/ CanArrive(a),
           CanArrive(a)' => CanArrive(a),
           attempts[a].stage \in Past => s \in Past,
           s \in Asking \cup {"fenced"} =>
               attempts[a].stage = s /\ attempts'[a].bound = attempts[a].bound,
           attempts'[a].epoch = attempts[a].epoch,
           UNCHANGED <<ledger, viewer, authority, winner>>
    PROVE  IInv'
<1>1. Auth!TypeOK'
  BY AuthorityStays DEF IInv, TypeOK
<1>2. UNCHANGED <<views, attach_watermarks, next_attachment_epoch>>
  BY DEF authority
<1> QED
  BY <1>1, <1>2, SettledTurn

\* The turns that call neither the ledger nor the authority: the viewer's and
\* the handler's writes, refusals and early returns.
LEMMA WriteIInv == ASSUME IInv, NEW a \in Attempts, Write(a) PROVE IInv'
<1>i. TypeOK /\ Stamped /\ Minted
  BY DEF IInv
<1>1. attempts[a].stage # "none" /\ UNCHANGED <<ledger, viewer, authority, winner>>
  BY DEF Write, At
<1>2. attempts[a] \in Attempt
  BY <1>i, <1>1, AttemptFacts
<1>3. Turns(a, "sent") /\ attempts'[a].epoch = attempts[a].epoch
  BY <1>i, <1>2 DEF Write, Turns, To, TypeOK, Attempt, Stages
<1>4. /\ "sent" \in Holding => attempts[a].stage \in Holding \/ CanArrive(a)
      /\ CanArrive(a)' => CanArrive(a)
      /\ attempts[a].stage \in Past => "sent" \in Past
  BY <1>1, <1>3 DEF Write, At, Turns, CanArrive, Holding, Past, ledger
<1> QED
  BY <1>1, <1>3, <1>4, QuietTurn DEF Stages, Asking

\* Open starts the handler.
LEMMA OpenIInv == ASSUME IInv, NEW a \in Attempts, Open(a) PROVE IInv'
<1>i. TypeOK /\ Stamped /\ Minted
  BY DEF IInv
<1>1. attempts[a].stage # "none" /\ UNCHANGED <<ledger, viewer, authority, winner>>
  BY DEF Open, At
<1>2. attempts[a] \in Attempt
  BY <1>i, <1>1, AttemptFacts
<1>3. Turns(a, "opened") /\ attempts'[a].epoch = attempts[a].epoch
  BY <1>i, <1>2 DEF Open, Turns, To, TypeOK, Attempt, Stages
<1>4. /\ "opened" \in Holding => attempts[a].stage \in Holding \/ CanArrive(a)
      /\ CanArrive(a)' => CanArrive(a)
      /\ attempts[a].stage \in Past => "opened" \in Past
  BY <1>1, <1>3 DEF Open, At, Turns, CanArrive, Holding, Past, ledger
<1> QED
  BY <1>1, <1>3, <1>4, QuietTurn DEF Stages, Asking

\* Reject ends it.
LEMMA RejectIInv == ASSUME IInv, NEW a \in Attempts, Reject(a) PROVE IInv'
<1>i. TypeOK /\ Stamped /\ Minted
  BY DEF IInv
<1>1. attempts[a].stage # "none" /\ UNCHANGED <<ledger, viewer, authority, winner>>
  BY DEF Reject, At
<1>2. attempts[a] \in Attempt
  BY <1>i, <1>1, AttemptFacts
<1>3. Turns(a, "gone") /\ attempts'[a].epoch = attempts[a].epoch
  BY <1>i, <1>2 DEF Reject, Turns, To, TypeOK, Attempt, Stages
<1>4. /\ "gone" \in Holding => attempts[a].stage \in Holding \/ CanArrive(a)
      /\ CanArrive(a)' => CanArrive(a)
      /\ attempts[a].stage \in Past => "gone" \in Past
  BY <1>1, <1>3 DEF Reject, At, Turns, CanArrive, Holding, Past, ledger
<1> QED
  BY <1>1, <1>3, <1>4, QuietTurn DEF Stages, Asking

\* Answer lets the viewer go on.
LEMMA AnswerIInv == ASSUME IInv, NEW a \in Attempts, Answer(a) PROVE IInv'
<1>i. TypeOK /\ Stamped /\ Minted
  BY DEF IInv
<1>1. attempts[a].stage # "none" /\ UNCHANGED <<ledger, viewer, authority, winner>>
  BY DEF Answer, At
<1>2. attempts[a] \in Attempt
  BY <1>i, <1>1, AttemptFacts
<1>3. Turns(a, "answered") /\ attempts'[a].epoch = attempts[a].epoch
  BY <1>i, <1>2 DEF Answer, Turns, To, TypeOK, Attempt, Stages
<1>4. /\ "answered" \in Holding => attempts[a].stage \in Holding \/ CanArrive(a)
      /\ CanArrive(a)' => CanArrive(a)
      /\ attempts[a].stage \in Past => "answered" \in Past
  BY <1>1, <1>3 DEF Answer, At, Turns, CanArrive, Holding, Past, ledger
<1> QED
  BY <1>1, <1>3, <1>4, QuietTurn DEF Stages, Asking

\* A secondary has no state stream.
LEMMA DeclineIInv == ASSUME IInv, NEW a \in Attempts, Decline(a) PROVE IInv'
<1>i. TypeOK /\ Stamped /\ Minted
  BY DEF IInv
<1>1. attempts[a].stage # "none" /\ UNCHANGED <<ledger, viewer, authority, winner>>
  BY DEF Decline, At
<1>2. attempts[a] \in Attempt
  BY <1>i, <1>1, AttemptFacts
<1>3. Turns(a, "serving") /\ attempts'[a].epoch = attempts[a].epoch
  BY <1>i, <1>2 DEF Decline, Turns, To, TypeOK, Attempt, Stages
<1>4. /\ "serving" \in Holding => attempts[a].stage \in Holding \/ CanArrive(a)
      /\ CanArrive(a)' => CanArrive(a)
      /\ attempts[a].stage \in Past => "serving" \in Past
  BY <1>1, <1>3 DEF Decline, At, Turns, CanArrive, Holding, Past, ledger
<1> QED
  BY <1>1, <1>3, <1>4, QuietTurn DEF Stages, Asking

\* A feed has one.
LEMMA SpawnStreamIInv == ASSUME IInv, NEW a \in Attempts, SpawnStream(a) PROVE IInv'
<1>i. TypeOK /\ Stamped /\ Minted
  BY DEF IInv
<1>1. attempts[a].stage # "none" /\ UNCHANGED <<ledger, viewer, authority, winner>>
  BY DEF SpawnStream, At
<1>2. attempts[a] \in Attempt
  BY <1>i, <1>1, AttemptFacts
<1>3. Turns(a, "serving") /\ attempts'[a].epoch = attempts[a].epoch
  BY <1>i, <1>2 DEF SpawnStream, Turns, To, TypeOK, Attempt, Stages
<1>4. /\ "serving" \in Holding => attempts[a].stage \in Holding \/ CanArrive(a)
      /\ CanArrive(a)' => CanArrive(a)
      /\ attempts[a].stage \in Past => "serving" \in Past
  BY <1>1, <1>3 DEF SpawnStream, At, Turns, CanArrive, Holding, Past, ledger
<1> QED
  BY <1>1, <1>3, <1>4, QuietTurn DEF Stages, Asking

\* An early return leaves the attachment behind.
LEMMA FailIInv == ASSUME IInv, NEW a \in Attempts, Fail(a) PROVE IInv'
<1>i. TypeOK /\ Stamped /\ Minted
  BY DEF IInv
<1>1. attempts[a].stage # "none" /\ UNCHANGED <<ledger, viewer, authority, winner>>
  BY DEF Fail, At
<1>2. attempts[a] \in Attempt
  BY <1>i, <1>1, AttemptFacts
<1>3. Turns(a, "gone") /\ attempts'[a].epoch = attempts[a].epoch
  BY <1>i, <1>2 DEF Fail, Turns, To, TypeOK, Attempt, Stages
<1>4. /\ "gone" \in Holding => attempts[a].stage \in Holding \/ CanArrive(a)
      /\ CanArrive(a)' => CanArrive(a)
      /\ attempts[a].stage \in Past => "gone" \in Past
  BY <1>1, <1>3 DEF Fail, At, Turns, CanArrive, Holding, Past, ledger
<1> QED
  BY <1>1, <1>3, <1>4, QuietTurn DEF Stages, Asking

\* What the viewer gives up unwritten is gone; what it has written stays.
LEMMA GiveUpIInv == ASSUME IInv, NEW a \in Attempts, GiveUp(a) PROVE IInv'
<1>i. TypeOK /\ Stamped /\ Minted
  BY DEF IInv
<1> DEFINE s == attempts'[a].stage
<1>1. attempts[a].stage # "none" /\ UNCHANGED <<ledger, viewer, authority, winner>>
  <2>1. attempts[a] # Unminted
    BY DEF GiveUp, Unminted
  <2> QED
    BY <1>i, <2>1 DEF GiveUp, Minted, TypeOK, Attempts
<1>2. attempts[a] \in Attempt
  BY <1>i, <1>1, AttemptFacts
<1>3. /\ Turns(a, s) /\ attempts'[a].epoch = attempts[a].epoch
      /\ attempts'[a].bound = attempts[a].bound
      /\ s \in Stages \ {"none"}
      /\ s = attempts[a].stage \/ (s = "gone" /\ attempts[a].stage = "minted")
  BY <1>i, <1>1, <1>2 DEF GiveUp, Turns, TypeOK, Attempt, Stages
<1>4. /\ s \in Holding => attempts[a].stage \in Holding \/ CanArrive(a)
      /\ CanArrive(a)' => CanArrive(a)
      /\ attempts[a].stage \in Past => s \in Past
  BY <1>1, <1>3 DEF Turns, CanArrive, Holding, Past, ledger
<1> HIDE DEF s
<1> QED
  BY <1>1, <1>3, <1>4, QuietTurn DEF Stages, Asking

\* Registration keeps every attachment.
LEMMA RegisterIInv == ASSUME IInv, NEW a \in Attempts, Register(a) PROVE IInv'
<1>i. TypeOK /\ Stamped /\ Minted
  BY DEF IInv
<1>1. attempts[a].stage = "answered" /\ UNCHANGED <<ledger, viewer, winner>>
  BY DEF Register, At
<1>2. attempts[a] \in Attempt /\ attempts[a].view \in Views /\ attempts[a].epoch \in 0..MaxAttempts
  BY <1>i, <1>1, AttemptFacts
<1>3. Turns(a, "registered") /\ attempts'[a].epoch = attempts[a].epoch
  BY <1>i, <1>2 DEF Register, Turns, To, TypeOK, Attempt, Stages
<1>4. /\ "registered" \in Holding => attempts[a].stage \in Holding \/ CanArrive(a)
      /\ CanArrive(a)' => CanArrive(a)
      /\ attempts[a].stage \in Past => "registered" \in Past
  BY <1>1, <1>3 DEF Turns, CanArrive, Holding, Past
<1>5. /\ Auth!TypeOK' /\ UNCHANGED <<attach_watermarks, next_attachment_epoch>>
      /\ \A w \in Views : /\ views'[w] = None <=> views[w] = None
                          /\ views[w] # None =>
                                views'[w].attachment_epoch = views[w].attachment_epoch
  BY <1>i, <1>2, RegisterFacts DEF Register, TypeOK
<1> QED
  BY <1>1, <1>3, <1>4, <1>5, SettledTurn DEF Stages, Asking

\* Leaving ends at most one attachment and adds none.
LEMMA LeaveIInv == ASSUME IInv, NEW a \in Attempts, Leave(a) PROVE IInv'
<1>i. TypeOK /\ Stamped /\ Minted
  BY DEF IInv
<1>1. attempts[a].stage = "serving" /\ UNCHANGED <<ledger, viewer, winner>>
  BY DEF Leave, At
<1>2. attempts[a] \in Attempt /\ attempts[a].view \in Views
  BY <1>i, <1>1, AttemptFacts
<1>3. Turns(a, "detached") /\ attempts'[a].epoch = attempts[a].epoch
  BY <1>i, <1>2 DEF Leave, Turns, To, TypeOK, Attempt, Stages
<1>4. /\ "detached" \in Holding => attempts[a].stage \in Holding \/ CanArrive(a)
      /\ CanArrive(a)' => CanArrive(a)
      /\ attempts[a].stage \in Past => "detached" \in Past
  BY <1>1, <1>3 DEF Turns, CanArrive, Holding, Past
<1>5. /\ Auth!TypeOK' /\ UNCHANGED <<attach_watermarks, next_attachment_epoch>>
      /\ \A w \in Views : views'[w] # None => views'[w] = views[w]
  <2>1. CASE Auth!DetachViewIfEpoch(attempts[a].view, Me, attempts[a].epoch)
    BY <1>i, <1>2, <2>1, DetachFacts DEF TypeOK
  <2>2. CASE UNCHANGED authority
    BY <1>i, <2>2, AuthorityStays DEF TypeOK, authority
  <2> QED
    BY <2>1, <2>2 DEF Leave
<1> QED
  BY <1>1, <1>3, <1>4, <1>5, SettledTurn DEF Stages, Asking

\* What a handler is told by the ledger is below every connection an attempt can
\* still arrive on, and below every fence.
LEMMA AskIInv ==
    ASSUME IInv, NEW a \in Attempts, NEW s \in Asking, Turns(a, s),
           attempts[a].stage \in Holding,
           CanArrive(a)' => CanArrive(a), attempts[a].stage \in Past => s \in Past,
           attempts'[a].bound = TerminatedThrough(Me),
           attempts'[a].epoch = attempts[a].epoch,
           UNCHANGED <<ledger, viewer, authority, winner>>
    PROVE  IInv'
<1>i. TypeOK /\ Stamped /\ Minted /\ Asked /\ Fenced /\ Held /\ Won /\ Epochs
  BY DEF IInv
<1>u. UNCHANGED <<views, attach_watermarks, next_attachment_epoch, transport, minted>>
  BY DEF ledger, viewer, authority
<1>s. s \in Stages \ {"none"} /\ s # "fenced" /\ attempts[a].stage # "none"
  BY DEF Asking, Stages, Holding
<1> DEFINE t == TerminatedThrough(Me)
<1>1. t \in 0..MaxConns /\ \A n \in Conns : live[n] = Me => t < n
  BY <1>i, LedgerFacts
<1>2. \A b \in Attempts : CanArrive(b) \/ attempts[b].stage \in Holding =>
          /\ attempts[b].conn \in Int /\ t < attempts[b].conn
          /\ attempts[b].bound \in Int
  <2> SUFFICES ASSUME NEW b \in Attempts, CanArrive(b) \/ attempts[b].stage \in Holding
               PROVE  /\ attempts[b].conn \in Int /\ t < attempts[b].conn
                      /\ attempts[b].bound \in Int
    OBVIOUS
  <2>1. attempts[b].stage # "none"
    BY DEF CanArrive, Holding
  <2>2. /\ attempts[b].conn \in Conns /\ attempts[b].bound \in 0..MaxConns
        /\ live[attempts[b].conn] = Me
    BY <1>i, <2>1, AttemptFacts
  <2> QED
    BY <1>1, <2>2 DEF Conns
<1> HIDE DEF t
<1>3. TypeOK' /\ Stamped' /\ Minted' /\ Lineage'
  <2>1. Auth!TypeOK' /\ winner' \in [Views -> 0..MaxAttempts]
    BY <1>i, AuthorityStays DEF TypeOK
  <2> QED
    BY <1>s, <2>1, TurnKeeps
<1>4. attempts'[a].stage = s /\ attempts'[a].bound = t
  BY DEF Turns, t
<1>5. \A b \in Attempts :
          /\ attempts'[b].conn = attempts[b].conn /\ attempts'[b].view = attempts[b].view
          /\ attempts'[b].generation = attempts[b].generation
          /\ attempts'[b].epoch = attempts[b].epoch
          /\ CanArrive(b)' => CanArrive(b)
          /\ attempts[b].stage \in Past => attempts'[b].stage \in Past
          /\ b # a => attempts'[b] = attempts[b]
  BY <1>u DEF Turns, CanArrive
<1>6. Asked'
  <2>1. t < attempts[a].conn
    BY <1>2
  <2> QED
    BY <1>i, <1>4, <1>5, <2>1 DEF Asked
<1>7. Fenced'
  <2> SUFFICES ASSUME NEW w \in Attempts, At(w, "fenced")'
               PROVE  /\ attempts'[w].bound >= attempts'[w].conn
                      /\ \A b \in Attempts : CanArrive(b)' /\ b < w =>
                            attempts'[b].conn <= attempts'[w].bound
                      /\ \A h \in Attempts : attempts'[h].stage \in Asking =>
                            attempts'[h].bound < attempts'[w].bound
    BY DEF Fenced
  <2>1. w # a /\ attempts'[w] = attempts[w] /\ At(w, "fenced")
    BY <1>s, <1>4, <1>5 DEF At
  <2>2. t < attempts[w].bound
    <3>1. /\ attempts[w].conn \in Int /\ t < attempts[w].conn
          /\ attempts[w].bound \in Int
      BY <1>2, <2>1 DEF At, Holding
    <3>2. attempts[w].bound >= attempts[w].conn
      BY <1>i, <2>1 DEF Fenced
    <3> QED
      BY <1>1, <3>1, <3>2 DEF t
  <2> QED
    BY <1>i, <1>4, <1>5, <2>1, <2>2 DEF Fenced
<1>8. Held'
  <2> SUFFICES ASSUME NEW b \in Attempts, CanArrive(b)', b < winner[attempts[b].view]
               PROVE  LET k == attach_watermarks[Me][attempts[b].view]
                      IN  /\ k # None /\ attempts[b].conn <= k.fence_conn_id
                          /\ \A h \in Attempts : attempts'[h].stage \in Asking =>
                                attempts'[h].bound < k.fence_conn_id
    BY <1>u, <1>5 DEF Held
  <2> DEFINE k == attach_watermarks[Me][attempts[b].view]
  <2>1. CanArrive(b)
    BY <1>5
  <2>2. /\ k # None /\ attempts[b].conn <= k.fence_conn_id
        /\ \A h \in Attempts : attempts[h].stage \in Asking => attempts[h].bound < k.fence_conn_id
    BY <1>i, <2>1 DEF Held
  <2>3. k.fence_conn_id \in Int
    <3>1. attempts[b].view \in Views
      BY <1>i, <2>1, AttemptFacts DEF CanArrive
    <3>2. k \in Auth!AttachWatermark
      BY <1>i, <2>2, <3>1 DEF TypeOK, Auth!TypeOK
    <3> QED
      BY <3>2 DEF Auth!AttachWatermark
  <2>4. t < k.fence_conn_id
    <3>1. attempts[b].conn \in Int /\ t < attempts[b].conn
      BY <1>2, <2>1
    <3> HIDE DEF k
    <3> QED
      BY <1>1, <2>2, <2>3, <3>1 DEF t
  <2> QED
    BY <1>4, <1>5, <2>2, <2>4
<1>9. Won'
  <2>1. \A v \in Views : winner[v] # 0 => winner[v] \in Attempts
    BY <1>i, BoundsOK DEF TypeOK, Attempts
  <2> QED
    BY <1>i, <1>u, <1>5, <2>1 DEF Won, Auth!Attached
<1>10. Epochs'
  BY <1>i, <1>u, <1>5 DEF Epochs
<1> QED
  BY <1>3, <1>6, <1>7, <1>8, <1>9, <1>10 DEF IInv

\* The handler asks before it attaches ...
LEMMA AskTerminatedIInv == ASSUME IInv, NEW a \in Attempts, AskTerminated(a) PROVE IInv'
<1>i. TypeOK /\ Stamped /\ Minted
  BY DEF IInv
<1>1. attempts[a].stage = "opened" /\ UNCHANGED <<ledger, viewer, authority, winner>>
  BY DEF AskTerminated, At
<1>2. attempts[a] \in Attempt /\ TerminatedThrough(Me) \in 0..MaxConns
  BY <1>i, <1>1, AttemptFacts, LedgerFacts
<1>3. /\ Turns(a, "asking") /\ attempts'[a].epoch = attempts[a].epoch
      /\ attempts'[a].bound = TerminatedThrough(Me)
  BY <1>i, <1>2 DEF AskTerminated, Turns, TypeOK, Attempt, Stages
<1> QED
  BY <1>1, <1>3, AskIInv DEF CanArrive, Holding, Past, Asking

\* ... and on its way out.
LEMMA AskOnExitIInv == ASSUME IInv, NEW a \in Attempts, AskOnExit(a) PROVE IInv'
<1>i. TypeOK /\ Stamped /\ Minted
  BY DEF IInv
<1>1. attempts[a].stage = "detached" /\ UNCHANGED <<ledger, viewer, authority, winner>>
  BY DEF AskOnExit, At
<1>2. attempts[a] \in Attempt /\ TerminatedThrough(Me) \in 0..MaxConns
  BY <1>i, <1>1, AttemptFacts, LedgerFacts
<1>3. /\ Turns(a, "leaving") /\ attempts'[a].epoch = attempts[a].epoch
      /\ attempts'[a].bound = TerminatedThrough(Me)
  BY <1>i, <1>2 DEF AskOnExit, Turns, TypeOK, Attempt, Stages
<1>4. ~CanArrive(a)'
  BY <1>3 DEF Turns, CanArrive
<1> QED
  BY <1>1, <1>3, <1>4, AskIInv DEF Holding, Past, Asking

\* The fence is not below any connection an attempt can still arrive on, nor
\* below what any handler is about to collect by.
LEMMA AskFenceIInv == ASSUME IInv, NEW a \in Attempts, AskFence(a) PROVE IInv'
<1>i. TypeOK /\ Stamped /\ Minted /\ Asked /\ Fenced /\ Held /\ Won /\ Epochs
  BY DEF IInv
<1>u. /\ attempts[a].stage = "collected" /\ UNCHANGED <<ledger, viewer, authority, winner>>
      /\ UNCHANGED <<views, attach_watermarks, next_attachment_epoch, transport, minted>>
  BY DEF AskFence, At, ledger, viewer, authority
<1> DEFINE f == HighestFor(Me)
<1>1. attempts[a] \in Attempt /\ f \in 0..MaxConns
  BY <1>i, <1>u, AttemptFacts, LedgerFacts
<1>2. /\ Turns(a, "fenced") /\ attempts'[a].epoch = attempts[a].epoch
      /\ attempts'[a].bound = f
  BY <1>i, <1>1 DEF AskFence, Turns, TypeOK, Attempt, Stages
<1>3. \A b \in Attempts : CanArrive(b) \/ attempts[b].stage \in Holding =>
          /\ attempts[b].conn \in Int /\ attempts[b].conn <= f
          /\ attempts[b].bound \in Int
  <2> SUFFICES ASSUME NEW b \in Attempts, CanArrive(b) \/ attempts[b].stage \in Holding
               PROVE  /\ attempts[b].conn \in Int /\ attempts[b].conn <= f
                      /\ attempts[b].bound \in Int
    OBVIOUS
  <2>1. attempts[b].stage # "none"
    BY DEF CanArrive, Holding
  <2>2. /\ attempts[b].conn \in Conns /\ attempts[b].bound \in 0..MaxConns
        /\ live[attempts[b].conn] = Me
    BY <1>i, <2>1, AttemptFacts
  <2> QED
    BY <1>i, <2>2, LedgerFacts DEF Conns
<1> HIDE DEF f
<1>4. TypeOK' /\ Stamped' /\ Minted' /\ Lineage'
  <2>1. Auth!TypeOK' /\ winner' \in [Views -> 0..MaxAttempts]
    BY <1>i, <1>u, AuthorityStays DEF TypeOK
  <2> QED
    BY <1>u, <1>2, <2>1, TurnKeeps DEF Stages, Holding
<1>5. \A b \in Attempts :
          /\ attempts'[b].conn = attempts[b].conn /\ attempts'[b].view = attempts[b].view
          /\ attempts'[b].generation = attempts[b].generation
          /\ attempts'[b].epoch = attempts[b].epoch
          /\ CanArrive(b)' => CanArrive(b)
          /\ attempts[b].stage \in Past => attempts'[b].stage \in Past
          /\ b # a => attempts'[b] = attempts[b]
          /\ attempts'[b].stage \in Asking =>
                attempts[b].stage \in Asking /\ attempts'[b].bound = attempts[b].bound
  BY <1>u, <1>2 DEF Turns, CanArrive, Past, Asking
<1>6. Asked'
  BY <1>i, <1>5 DEF Asked
<1>7. Fenced'
  <2> SUFFICES ASSUME NEW w \in Attempts, At(w, "fenced")'
               PROVE  /\ attempts'[w].bound >= attempts'[w].conn
                      /\ \A b \in Attempts : CanArrive(b)' /\ b < w =>
                            attempts'[b].conn <= attempts'[w].bound
                      /\ \A h \in Attempts : attempts'[h].stage \in Asking =>
                            attempts'[h].bound < attempts'[w].bound
    BY DEF Fenced
  <2>1. CASE w # a
    BY <1>i, <1>5, <2>1 DEF Fenced, At
  <2>2. CASE w = a
    <3>1. attempts[a].conn \in Int /\ attempts[a].conn <= f
      BY <1>3, <1>u DEF CanArrive
    <3>2. ASSUME NEW h \in Attempts, attempts'[h].stage \in Asking
          PROVE  attempts'[h].bound < f
      <4>1. attempts[h].stage \in Asking /\ attempts'[h].bound = attempts[h].bound
        BY <1>5, <3>2
      <4>2. /\ attempts[h].conn \in Int /\ attempts[h].conn <= f
            /\ attempts[h].bound \in Int
        BY <1>3, <4>1 DEF Asking, Holding
      <4>3. attempts[h].bound < attempts[h].conn
        BY <1>i, <4>1 DEF Asked
      <4> QED
        BY <1>1, <4>1, <4>2, <4>3
    <3> QED
      BY <1>1, <1>2, <1>3, <1>5, <2>2, <3>1, <3>2
  <2> QED
    BY <2>1, <2>2
<1>8. Held'
  BY <1>i, <1>u, <1>5 DEF Held
<1>9. Won'
  <2>1. \A v \in Views : winner[v] # 0 => winner[v] \in Attempts
    BY <1>i, BoundsOK DEF TypeOK, Attempts
  <2> QED
    BY <1>i, <1>u, <1>5, <2>1 DEF Won, Auth!Attached
<1>10. Epochs'
  BY <1>i, <1>u, <1>5 DEF Epochs
<1> QED
  BY <1>4, <1>6, <1>7, <1>8, <1>9, <1>10 DEF IInv

\* Collecting frees no watermark that an attempt still to arrive is refused by.
LEMMA CollectTurn ==
    ASSUME IInv, NEW a \in Attempts, NEW s \in Stages \ {"none", "fenced"}, Turns(a, s),
           attempts[a].stage \in Asking, s \notin Asking,
           s \in Holding => attempts[a].stage \in Holding,
           CanArrive(a)' => CanArrive(a), attempts[a].stage \in Past => s \in Past,
           attempts'[a].epoch = attempts[a].epoch,
           Auth!CollectWatermarks(Me, attempts[a].bound),
           UNCHANGED <<ledger, viewer, winner>>
    PROVE  IInv'
<1>i. TypeOK /\ Stamped /\ Minted /\ Asked /\ Fenced /\ Held /\ Won /\ Epochs
  BY DEF IInv
<1>u. UNCHANGED <<transport, minted>>
  BY DEF ledger, viewer
<1> DEFINE t == attempts[a].bound
<1>1. attempts[a].stage # "none" /\ t \in 0..MaxConns
  <2>1. attempts[a].stage # "none"
    BY DEF Asking
  <2> QED
    BY <1>i, <2>1, AttemptFacts
<1>2. /\ Auth!TypeOK' /\ UNCHANGED <<views, next_attachment_epoch>>
      /\ \A v \in Views :
            \/ attach_watermarks'[Me][v] = attach_watermarks[Me][v]
            \/ /\ attach_watermarks'[Me][v] = None
               /\ attach_watermarks[Me][v].fence_conn_id <= t
  BY <1>i, <1>1, CollectFacts DEF TypeOK
<1>3. TypeOK' /\ Stamped' /\ Minted' /\ Lineage'
  BY <1>i, <1>1, <1>2, TurnKeeps DEF TypeOK
<1>4. \A b \in Attempts :
          /\ attempts'[b].conn = attempts[b].conn /\ attempts'[b].view = attempts[b].view
          /\ attempts'[b].generation = attempts[b].generation
          /\ attempts'[b].epoch = attempts[b].epoch
          /\ CanArrive(b)' => CanArrive(b)
          /\ attempts[b].stage \in Past => attempts'[b].stage \in Past
          /\ attempts'[b].stage \in Asking \cup {"fenced"} =>
                attempts[b].stage = attempts'[b].stage /\ attempts'[b].bound = attempts[b].bound
  BY <1>u DEF Turns, CanArrive
<1>5. Asked'
  BY <1>i, <1>4 DEF Asked
<1>6. Fenced'
  BY <1>i, <1>4 DEF Fenced, At
<1>7. Held'
  <2> SUFFICES ASSUME NEW b \in Attempts, CanArrive(b)', b < winner[attempts[b].view]
               PROVE  LET k == attach_watermarks'[Me][attempts[b].view]
                      IN  /\ k # None /\ attempts[b].conn <= k.fence_conn_id
                          /\ \A h \in Attempts : attempts'[h].stage \in Asking =>
                                attempts'[h].bound < k.fence_conn_id
    BY <1>4 DEF Held
  <2> DEFINE v == attempts[b].view
             k == attach_watermarks[Me][v]
  <2>1. CanArrive(b)
    BY <1>4
  <2>2. v \in Views
    BY <1>i, <2>1, AttemptFacts DEF CanArrive
  <2>3. /\ k # None /\ attempts[b].conn <= k.fence_conn_id
        /\ \A h \in Attempts : attempts[h].stage \in Asking => attempts[h].bound < k.fence_conn_id
    BY <1>i, <2>1 DEF Held
  <2>4. k.fence_conn_id \in Int
    <3>1. k \in Auth!AttachWatermark
      BY <1>i, <2>2, <2>3 DEF TypeOK, Auth!TypeOK
    <3> QED
      BY <3>1 DEF Auth!AttachWatermark
  <2>5. attach_watermarks'[Me][v] = k
    <3>1. t < k.fence_conn_id
      BY <2>3
    <3>2. ~(k.fence_conn_id <= t)
      BY <1>1, <2>4, <3>1
    <3> QED
      BY <1>2, <2>2, <3>2
  <2> QED
    BY <1>4, <2>3, <2>5
<1>8. Won'
  <2>1. \A v \in Views : winner[v] # 0 => winner[v] \in Attempts
    BY <1>i, BoundsOK DEF TypeOK, Attempts
  <2> QED
    BY <1>i, <1>u, <1>2, <1>4, <2>1 DEF Won, Auth!Attached
<1>9. Epochs'
  BY <1>i, <1>2, <1>4 DEF Epochs
<1> QED
  BY <1>3, <1>5, <1>6, <1>7, <1>8, <1>9 DEF IInv

\* It collects before it attaches ...
LEMMA CollectIInv == ASSUME IInv, NEW a \in Attempts, Collect(a) PROVE IInv'
<1>i. TypeOK /\ Stamped /\ Minted
  BY DEF IInv
<1>1. attempts[a].stage = "asking" /\ UNCHANGED <<ledger, viewer, winner>>
  BY DEF Collect, At
<1>2. attempts[a] \in Attempt
  BY <1>i, <1>1, AttemptFacts
<1>3. Turns(a, "collected") /\ attempts'[a].epoch = attempts[a].epoch
  BY <1>i, <1>2 DEF Collect, Turns, To, TypeOK, Attempt, Stages
<1>4. Auth!CollectWatermarks(Me, attempts[a].bound)
  BY DEF Collect
<1> QED
  BY <1>1, <1>3, <1>4, CollectTurn DEF CanArrive, Holding, Past, Asking, Stages

\* ... and on its way out.
LEMMA CollectOnExitIInv == ASSUME IInv, NEW a \in Attempts, CollectOnExit(a) PROVE IInv'
<1>i. TypeOK /\ Stamped /\ Minted
  BY DEF IInv
<1>1. attempts[a].stage = "leaving" /\ UNCHANGED <<ledger, viewer, winner>>
  BY DEF CollectOnExit, At
<1>2. attempts[a] \in Attempt
  BY <1>i, <1>1, AttemptFacts
<1>3. Turns(a, "gone") /\ attempts'[a].epoch = attempts[a].epoch
  BY <1>i, <1>2 DEF CollectOnExit, Turns, To, TypeOK, Attempt, Stages
<1>4. ~CanArrive(a)'
  BY <1>3 DEF Turns, CanArrive
<1>5. Auth!CollectWatermarks(Me, attempts[a].bound)
  BY DEF CollectOnExit
<1> QED
  BY <1>1, <1>3, <1>4, <1>5, CollectTurn DEF Holding, Past, Asking, Stages

\* The watermark a takeover leaves covers the older attempts its own fence did.
LEMMA TakeOverIInv == ASSUME IInv, NEW a \in Attempts, TakeOver(a) PROVE IInv'
<1>i. TypeOK /\ Stamped /\ Minted /\ Asked /\ Fenced /\ Held /\ Won /\ Epochs
  BY DEF IInv
<1> DEFINE v == attempts[a].view
           g == attempts[a].generation
           f == attempts[a].bound
           e == next_attachment_epoch'
           k == attach_watermarks'[Me][v]
<1>u. /\ attempts[a].stage = "fenced" /\ UNCHANGED <<ledger, viewer>>
      /\ UNCHANGED <<transport, minted>>
  BY DEF TakeOver, At, ledger, viewer
<1>1. /\ attempts[a] \in Attempt /\ a <= minted
      /\ v \in Views /\ g \in Attempts /\ f \in 0..MaxConns
  BY <1>i, <1>u, AttemptFacts
<1>2. /\ Auth!TypeOK'
      /\ e = next_attachment_epoch + 1 /\ e \in 1..MaxAttempts
      /\ views'[v] # None /\ views'[v].attachment_epoch = e
      /\ \A w \in Views \ {v} : /\ views'[w] = views[w]
                                /\ attach_watermarks'[Me][w] = attach_watermarks[Me][w]
      /\ k # None /\ k.generation = g /\ k.fence_conn_id >= f
  BY <1>i, <1>1, TakeOverFacts DEF TakeOver, TypeOK
<1>3. /\ attempts' = [attempts EXCEPT ![a].stage = "attached", ![a].epoch = e]
      /\ winner' = [winner EXCEPT ![v] = a]
  BY DEF TakeOver
<1>4. Turns(a, "attached") /\ attempts'[a].epoch = e
  <2>1. e \in 0..MaxAttempts
    BY <1>2, BoundsOK
  <2>2. attempts' = [attempts EXCEPT ![a] = [attempts[a] EXCEPT !.stage = "attached", !.epoch = e]]
    BY <1>i, <1>3 DEF TypeOK
  <2> HIDE DEF e
  <2>3. [attempts[a] EXCEPT !.stage = "attached", !.epoch = e] \in Attempt
    BY <1>1, <2>1 DEF Attempt, Stages
  <2> QED
    BY <1>i, <1>1, <2>2, <2>3 DEF Turns, TypeOK, Attempt
<1>5. /\ winner' \in [Views -> 0..MaxAttempts] /\ winner'[v] = a
      /\ \A w \in Views \ {v} : winner'[w] = winner[w]
  BY <1>i, <1>1, <1>3 DEF TypeOK, Attempts
<1>w. k.fence_conn_id \in Int
  <2>1. k \in Auth!AttachWatermark
    BY <1>1, <1>2 DEF Auth!TypeOK
  <2> QED
    BY <2>1 DEF Auth!AttachWatermark
<1> HIDE DEF v, g, f, e, k
<1>6. TypeOK' /\ Stamped' /\ Minted' /\ Lineage'
  BY <1>u, <1>2, <1>4, <1>5, TurnKeeps DEF Stages, Holding
<1>7. /\ ~CanArrive(a)'
      /\ \A b \in Attempts :
          /\ attempts'[b].conn = attempts[b].conn /\ attempts'[b].view = attempts[b].view
          /\ attempts'[b].generation = attempts[b].generation
          /\ CanArrive(b)' => CanArrive(b)
          /\ attempts[b].stage \in Past => attempts'[b].stage \in Past
          /\ b # a => attempts'[b].epoch = attempts[b].epoch
          /\ attempts'[b].stage \in Asking \cup {"fenced"} =>
                attempts[b].stage = attempts'[b].stage /\ attempts'[b].bound = attempts[b].bound
  BY <1>u, <1>4 DEF Turns, CanArrive, Asking, Past
<1>8. Asked'
  BY <1>i, <1>7 DEF Asked
<1>9. Fenced'
  BY <1>i, <1>7 DEF Fenced, At
<1>10. Held'
  <2> SUFFICES ASSUME NEW b \in Attempts, CanArrive(b)', b < winner'[attempts[b].view]
               PROVE  LET m == attach_watermarks'[Me][attempts[b].view]
                      IN  /\ m # None /\ attempts[b].conn <= m.fence_conn_id
                          /\ \A h \in Attempts : attempts'[h].stage \in Asking =>
                                attempts'[h].bound < m.fence_conn_id
    BY <1>7 DEF Held
  <2>1. CanArrive(b) /\ attempts[b].view \in Views /\ attempts[b].conn \in Int
    <3>1. CanArrive(b) /\ attempts[b].stage # "none"
      BY <1>7 DEF CanArrive
    <3> QED
      BY <1>i, <3>1, AttemptFacts DEF Conns
  <2>2. CASE attempts[b].view = v
    <3>1. At(a, "fenced") /\ b < a
      BY <1>u, <1>5, <2>2 DEF At
    <3>2. /\ attempts[b].conn <= f
          /\ \A h \in Attempts : attempts[h].stage \in Asking => attempts[h].bound < f
      BY <1>i, <2>1, <3>1 DEF Fenced, f
    <3>3. \A h \in Attempts : attempts[h].stage \in Asking => attempts[h].bound \in Int
      <4> SUFFICES ASSUME NEW h \in Attempts, attempts[h].stage \in Asking
                   PROVE  attempts[h].bound \in Int
        OBVIOUS
      <4>1. attempts[h].stage # "none"
        BY DEF Asking
      <4> QED
        BY <1>i, <4>1, AttemptFacts
    <3>4. /\ attempts[b].conn <= k.fence_conn_id
          /\ \A h \in Attempts : attempts[h].stage \in Asking => attempts[h].bound < k.fence_conn_id
      BY <1>1, <1>2, <1>w, <2>1, <3>2, <3>3
    <3> QED
      BY <1>2, <1>7, <2>2, <3>4 DEF k
  <2>3. CASE attempts[b].view # v
    BY <1>i, <1>2, <1>5, <1>7, <2>1, <2>3 DEF Held
  <2> QED
    BY <2>2, <2>3
<1>11. Won'
  <2> SUFFICES ASSUME NEW w \in Views
               PROVE  /\ winner'[w] <= minted
                      /\ winner'[w] # 0 => /\ attempts'[winner'[w]].view = w
                                           /\ attempts'[winner'[w]].stage \in Past
                      /\ attach_watermarks'[Me][w] # None =>
                            /\ winner'[w] # 0
                            /\ attach_watermarks'[Me][w].generation =
                                   attempts'[winner'[w]].generation
                      /\ Auth!Attached(w)' =>
                            /\ winner'[w] # 0
                            /\ views'[w].attachment_epoch = attempts'[winner'[w]].epoch
    BY <1>u DEF Won
  <2>1. a # 0
    BY BoundsOK DEF Attempts
  <2>2. CASE w = v
    BY <1>1, <1>2, <1>4, <1>5, <1>7, <2>1, <2>2 DEF v, g, k, Turns, Past
  <2>3. CASE w # v
    <3>1. winner'[w] = winner[w] /\ (winner[w] # 0 => winner[w] \in Attempts /\ winner[w] # a)
      <4>1. winner[w] # 0 => winner[w] \in Attempts
        BY <1>i, BoundsOK DEF TypeOK, Attempts
      <4>2. winner[w] # 0 => attempts[winner[w]].view = w
        BY <1>i DEF Won
      <4> QED
        BY <1>5, <2>3, <4>1, <4>2 DEF v
    <3> QED
      BY <1>i, <1>2, <1>7, <2>3, <3>1 DEF Won, Auth!Attached
  <2> QED
    BY <2>2, <2>3
<1>12. Epochs'
  <2> SUFFICES ASSUME NEW b \in Attempts
               PROVE  /\ attempts'[b].epoch <= e
                      /\ \A c \in Attempts :
                            b # c /\ attempts'[b].epoch = attempts'[c].epoch =>
                                attempts'[b].epoch = 0
    BY DEF Epochs, e
  <2>1. next_attachment_epoch \in Int /\ e \in Int
    BY <1>i, <1>2 DEF TypeOK, Auth!TypeOK
  <2>2. \A c \in Attempts : attempts[c].epoch \in Int /\ attempts[c].epoch < e
    <3>1. \A c \in Attempts : attempts[c].epoch \in Int
      BY <1>i DEF TypeOK, Attempt, Unminted
    <3> QED
      BY <1>i, <1>2, <2>1, <3>1 DEF Epochs
  <2> QED
    BY <1>i, <1>4, <1>7, <2>1, <2>2 DEF Epochs
<1> QED
  BY <1>6, <1>8, <1>9, <1>10, <1>11, <1>12 DEF IInv

-----------------------------------------------------------------------------
(***************************************************************************)
(* The connections, and the viewer.                                        *)
(***************************************************************************)

\* No step of the ledger lets an attempt arrive that could not before.
LEMMA LedgerStep ==
    ASSUME IInv, TypeOK', Stamped', Minted',
           UNCHANGED <<authority, viewer, attempts, winner>>,
           \A b \in Attempts : CanArrive(b)' => CanArrive(b)
    PROVE  IInv'
<1>i. Lineage /\ Asked /\ Fenced /\ Held /\ Won /\ Epochs
  BY DEF IInv
<1>u. UNCHANGED <<views, attach_watermarks, next_attachment_epoch, generation, minted, forgets>>
  BY DEF authority, viewer
<1>1. Lineage' /\ Asked' /\ Won' /\ Epochs'
  BY <1>i, <1>u DEF Lineage, Asked, Won, Epochs, Auth!Attached
<1>2. Fenced'
  BY <1>i DEF Fenced, At
<1>3. Held'
  BY <1>i, <1>u DEF Held
<1> QED
  BY <1>1, <1>2, <1>3 DEF IInv

\* An id just fetched is above all others and in no use.
LEMMA FetchIdIInv == ASSUME IInv, FetchId PROVE IInv'
<1>i. TypeOK /\ Stamped /\ Minted
  BY DEF IInv
<1>u. /\ UNCHANGED <<authority, viewer, attempts, winner>>
      /\ UNCHANGED <<live, highest_accepted, transport, generation, minted, forgets>>
  BY DEF FetchId, viewer
<1>1. /\ next_connection_id' = next_connection_id + 1
      /\ next_connection_id' \in Conns
      /\ stamping' = stamping \cup {next_connection_id'}
  BY <1>i, BoundsOK DEF FetchId, TypeOK, Conns
<1>2. Auth!TypeOK'
  BY <1>i, <1>u, AuthorityStays DEF TypeOK
<1>3. TypeOK'
  BY <1>i, <1>u, <1>1, <1>2 DEF TypeOK, Conns
<1>4. Stamped'
  BY <1>i, <1>u, <1>1 DEF Stamped, TypeOK, Conns
<1>5. Minted'
  BY <1>i, <1>u DEF Minted
<1>6. \A b \in Attempts : CanArrive(b)' => CanArrive(b)
  BY <1>u DEF CanArrive
<1> QED
  BY <1>u, <1>3, <1>4, <1>5, <1>6, LedgerStep

\* No attempt is on a connection that is only now accepted.
LEMMA AcceptIInv == ASSUME IInv, NEW n \in Conns, Accept(n) PROVE IInv'
<1>i. TypeOK /\ Stamped /\ Minted
  BY DEF IInv
<1>u. /\ UNCHANGED <<authority, viewer, attempts, winner>>
      /\ UNCHANGED <<next_connection_id, generation, minted, forgets>>
  BY DEF Accept, viewer
<1>1. /\ n \in stamping /\ n <= next_connection_id /\ transport[n] = "none"
      /\ stamping' = stamping \ {n}
      /\ live' = [live EXCEPT ![n] = "unknown"]
      /\ highest_accepted' = IF highest_accepted > n THEN highest_accepted ELSE n
      /\ transport' = [transport EXCEPT ![n] = "up"]
  BY <1>i DEF Accept, Stamped
<1>2. Auth!TypeOK'
  BY <1>i, <1>u, AuthorityStays DEF TypeOK
<1>3. TypeOK'
  <2>1. highest_accepted' \in 0..MaxConns
    BY <1>i, <1>1, BoundsOK DEF TypeOK, Conns
  <2> QED
    BY <1>i, <1>u, <1>1, <1>2, <2>1 DEF TypeOK
<1>4. Stamped'
  BY <1>i, <1>u, <1>1 DEF Stamped, TypeOK, Conns
<1>5. \A b \in Attempts : attempts[b].stage # "none" =>
          attempts[b].conn \in Conns /\ attempts[b].conn # n
  BY <1>i, <1>1, AttemptFacts DEF Minted
<1>6. Minted'
  BY <1>i, <1>u, <1>1, <1>5 DEF Minted, TypeOK
<1>7. \A b \in Attempts : CanArrive(b)' => CanArrive(b)
  BY <1>i, <1>u, <1>1, <1>5 DEF CanArrive, TypeOK
<1> QED
  BY <1>u, <1>3, <1>4, <1>6, <1>7, LedgerStep

\* Nor on one that identifies itself only now.
LEMMA IdentifyIInv ==
    ASSUME IInv, NEW n \in Conns, NEW client \in {Me, Other}, Identify(n, client)
    PROVE  IInv'
<1>i. TypeOK /\ Stamped /\ Minted
  BY DEF IInv
<1>u. /\ UNCHANGED <<authority, viewer, attempts, winner>>
      /\ UNCHANGED <<next_connection_id, stamping, highest_accepted, transport,
                     generation, minted, forgets>>
  BY DEF Identify, viewer
<1>1. live[n] = "unknown" /\ live' = [live EXCEPT ![n] = client] /\ client # "absent"
  BY BoundsOK DEF Identify
<1>2. Auth!TypeOK'
  BY <1>i, <1>u, AuthorityStays DEF TypeOK
<1>3. TypeOK'
  BY <1>i, <1>u, <1>1, <1>2 DEF TypeOK
<1>4. Stamped'
  BY <1>i, <1>u, <1>1 DEF Stamped, TypeOK
<1>5. \A b \in Attempts : b <= minted => live[attempts[b].conn] # "unknown"
  BY <1>i, BoundsOK DEF Minted
<1>6. Minted'
  BY <1>i, <1>u, <1>1, <1>5 DEF Minted, TypeOK
<1>7. \A b \in Attempts : CanArrive(b)' => CanArrive(b)
  BY <1>u DEF CanArrive
<1> QED
  BY <1>u, <1>3, <1>4, <1>6, <1>7, LedgerStep

\* A connection that closes stays in the ledger.
LEMMA CloseIInv == ASSUME IInv, NEW n \in Conns, Close(n) PROVE IInv'
<1>i. TypeOK /\ Stamped /\ Minted
  BY DEF IInv
<1>u. /\ UNCHANGED <<authority, viewer, attempts, winner>>
      /\ UNCHANGED <<next_connection_id, stamping, live, highest_accepted,
                     generation, minted, forgets>>
  BY DEF Close, viewer
<1>1. transport[n] = "up" /\ transport' = [transport EXCEPT ![n] = "closed"]
  BY DEF Close
<1>2. Auth!TypeOK'
  BY <1>i, <1>u, AuthorityStays DEF TypeOK
<1>3. TypeOK'
  BY <1>i, <1>u, <1>1, <1>2 DEF TypeOK
<1>4. Stamped'
  BY <1>i, <1>u, <1>1 DEF Stamped, TypeOK
<1>5. \A m \in Conns : /\ transport'[m] = "up" => transport[m] = "up"
                       /\ transport[m] # "none" => transport'[m] # "none"
  BY <1>i, <1>1 DEF TypeOK
<1>6. Minted'
  BY <1>i, <1>u, <1>5 DEF Minted, Attempt
<1>7. \A b \in Attempts : CanArrive(b)' => CanArrive(b)
  BY <1>i, <1>u, <1>5, AttemptFacts DEF CanArrive
<1> QED
  BY <1>u, <1>3, <1>4, <1>6, <1>7, LedgerStep

\* A connection leaves the ledger with its last handler.
LEMMA FinishIInv == ASSUME IInv, NEW n \in Conns, Finish(n) PROVE IInv'
<1>i. TypeOK /\ Stamped /\ Minted
  BY DEF IInv
<1>u. /\ UNCHANGED <<authority, viewer, attempts, winner>>
      /\ UNCHANGED <<next_connection_id, stamping, highest_accepted, transport,
                     generation, minted, forgets>>
  BY DEF Finish, viewer
<1>1. /\ transport[n] = "closed" /\ live' = [live EXCEPT ![n] = "absent"]
      /\ \A a \in Attempts : attempts[a].stage \in Holding => attempts[a].conn # n
  BY DEF Finish, Holds
<1>2. Auth!TypeOK'
  BY <1>i, <1>u, AuthorityStays DEF TypeOK
<1>3. TypeOK'
  BY <1>i, <1>u, <1>1, <1>2 DEF TypeOK
<1>4. Stamped'
  BY <1>i, <1>u, <1>1 DEF Stamped, TypeOK
<1>5. Minted'
  BY <1>i, <1>u, <1>1 DEF Minted, TypeOK
<1>6. \A b \in Attempts : CanArrive(b)' => CanArrive(b)
  BY <1>u DEF CanArrive
<1> QED
  BY <1>u, <1>3, <1>4, <1>5, <1>6, LedgerStep

\* A new attempt is newer than all others, in number and in generation.
LEMMA MintIInv == ASSUME IInv, NEW v \in Views, NEW n \in Conns, Mint(v, n) PROVE IInv'
<1>i. TypeOK /\ Stamped /\ Minted /\ Lineage /\ Asked /\ Fenced /\ Held /\ Won /\ Epochs
  BY DEF IInv
<1> DEFINE m == minted + 1
           g == generation[v] + 1
<1>u. /\ UNCHANGED <<authority, ledger, forgets, winner>>
      /\ UNCHANGED <<views, attach_watermarks, next_attachment_epoch>>
      /\ UNCHANGED <<next_connection_id, stamping, live, highest_accepted, transport>>
  BY DEF Mint, authority, ledger
<1>1. /\ m \in Attempts /\ minted' = m /\ minted \in Nat
      /\ transport[n] = "up" /\ live[n] = Me
  BY <1>i, BoundsOK DEF Mint, TypeOK, Attempts
<1>2. g \in Attempts /\ g <= m
  BY <1>i, <1>1, BoundsOK DEF Lineage, TypeOK, Attempts
<1>3. /\ generation' = [generation EXCEPT ![v] = g]
      /\ generation'[v] = g /\ \A w \in Views \ {v} : generation'[w] = generation[w]
  BY <1>i DEF Mint, TypeOK
<1> DEFINE new == [stage |-> "minted", view |-> v, conn |-> n, generation |-> g,
                   waiting |-> TRUE, bound |-> 0, epoch |-> 0]
<1>4. /\ attempts' = [attempts EXCEPT ![m] = new]
      /\ attempts'[m] = new /\ \A b \in Attempts \ {m} : attempts'[b] = attempts[b]
  BY <1>i, <1>1, <1>3 DEF Mint, TypeOK
<1>5. /\ new \in Attempt /\ new.stage = "minted" /\ new.view = v /\ new.conn = n
      /\ new.generation = g /\ new.epoch = 0
  BY <1>2, BoundsOK DEF Attempt, Stages, Attempts
<1> HIDE DEF new
<1>6. attempts[m] = Unminted
  BY <1>i, <1>1 DEF Minted
<1>7. Auth!TypeOK'
  BY <1>i, <1>u, AuthorityStays DEF TypeOK
<1>8. TypeOK'
  <2>1. attempts' \in [Attempts -> Attempt \cup {Unminted}]
    BY <1>i, <1>4, <1>5 DEF TypeOK
  <2>2. generation' \in [Views -> 0..MaxAttempts] /\ minted' \in 0..MaxAttempts
    BY <1>i, <1>1, <1>2, <1>3 DEF TypeOK, Attempts
  <2> QED
    BY <1>i, <1>u, <1>7, <2>1, <2>2 DEF TypeOK
<1>9. Stamped'
  BY <1>i, <1>u DEF Stamped
<1>10. Minted'
  <2> SUFFICES ASSUME NEW b \in Attempts
               PROVE  /\ b > m => attempts'[b] = Unminted
                      /\ b <= m =>
                            /\ attempts'[b] \in Attempt /\ attempts'[b].stage # "none"
                            /\ transport[attempts'[b].conn] # "none"
                            /\ live[attempts'[b].conn] \in {Me, "absent"}
                            /\ attempts'[b].stage \in Holding => live[attempts'[b].conn] = Me
    BY <1>u, <1>1 DEF Minted
  <2>1. CASE b = m
    BY <1>1, <1>4, <1>5, <2>1
  <2>2. CASE b # m
    <3>1. (b > m => b > minted) /\ (b <= m => b <= minted)
      BY <1>1, <2>2 DEF Attempts
    <3> QED
      BY <1>i, <1>4, <2>2, <3>1 DEF Minted
  <2> QED
    BY <2>1, <2>2
<1>11. Lineage'
  <2>1. 1..minted \subseteq Attempts /\ 1..m = 1..minted \cup {m} /\ m \notin 1..minted
    BY <1>i, <1>1, BoundsOK DEF TypeOK, Attempts
  <2>2. generation \in [Views -> Int]
    BY <1>i DEF TypeOK
  <2>3. \A w \in Views : generation'[w] <= m /\ generation[w] <= generation'[w]
    BY <1>i, <1>1, <1>2, <1>3, <2>2 DEF Lineage
  <2>4. ASSUME forgets = 0, NEW a \in 1..m
        PROVE  /\ attempts'[a].generation <= generation'[attempts'[a].view]
               /\ \A b \in 1..m :
                     a < b /\ attempts'[a].view = attempts'[b].view =>
                         attempts'[a].generation < attempts'[b].generation
    <3>1. CASE a = m
      <4>1. \A b \in 1..m : ~(a < b)
        BY <1>1, <3>1
      <4> QED
        BY <1>2, <1>3, <1>4, <1>5, <2>1, <3>1, <4>1 DEF Attempts
    <3>2. CASE a \in 1..minted
      <4>1. attempts[a].view \in Views /\ attempts[a].generation \in Int
        BY <1>i, <2>1, <3>2, AttemptFacts DEF Minted, Attempts
      <4>2. attempts'[a] = attempts[a] /\ attempts[a].generation <= generation[attempts[a].view]
        BY <1>i, <1>4, <2>1, <2>4, <3>2 DEF Lineage
      <4>3. attempts[a].generation <= generation'[attempts[a].view]
        BY <1>3, <2>2, <2>3, <4>1, <4>2
      <4>4. ASSUME NEW b \in 1..m, a < b, attempts'[a].view = attempts'[b].view
            PROVE  attempts'[a].generation < attempts'[b].generation
        <5>1. CASE b = m
          <6>1. attempts[a].view = v
            BY <1>4, <1>5, <4>2, <4>4, <5>1
          <6> QED
            BY <1>4, <1>5, <2>2, <4>1, <4>2, <5>1, <6>1
        <5>2. CASE b \in 1..minted
          <6>1. attempts'[b] = attempts[b]
            BY <1>4, <2>1, <5>2
          <6> QED
            BY <1>i, <2>4, <3>2, <4>2, <4>4, <5>2, <6>1 DEF Lineage
        <5> QED
          BY <2>1, <5>1, <5>2
      <4> QED
        BY <4>2, <4>3, <4>4
    <3> QED
      BY <2>1, <3>1, <3>2
  <2> QED
    BY <1>u, <1>1, <2>3, <2>4 DEF Lineage
<1>12. \A b \in Attempts :
          /\ CanArrive(b)' => b = m \/ CanArrive(b)
          /\ attempts'[b].stage \in Asking \cup {"fenced"} => b # m
          /\ b # m => attempts'[b] = attempts[b]
  BY <1>u, <1>4, <1>5 DEF CanArrive, Asking
<1>13. Asked'
  BY <1>i, <1>12 DEF Asked
<1>14. \A w \in Attempts : attempts'[w].stage # "none" => w <= m
  <2>1. \A w \in Attempts : w > m => attempts'[w] = Unminted
    BY <1>1, <1>10 DEF Minted
  <2> QED
    BY <1>1, <2>1 DEF Unminted, Attempts
<1>15. Fenced'
  <2>1. \A w \in Attempts : At(w, "fenced")' => ~(m < w)
    BY <1>1, <1>14 DEF At, Attempts
  <2> QED
    BY <1>i, <1>12, <2>1 DEF Fenced, At
<1>16. Held'
  <2>1. \A w \in Views : ~(m < winner[w])
    BY <1>i, <1>1 DEF Won, TypeOK
  <2> QED
    BY <1>i, <1>u, <1>4, <1>5, <1>12, <2>1 DEF Held
<1>17. Won'
  <2>1. \A w \in Views : /\ winner[w] <= m /\ winner[w] # m
                         /\ winner[w] # 0 => winner[w] \in Attempts
    BY <1>i, <1>1, BoundsOK DEF Won, TypeOK, Attempts
  <2> QED
    BY <1>i, <1>u, <1>1, <1>12, <2>1 DEF Won, Auth!Attached
<1>18. Epochs'
  <2>1. next_attachment_epoch \in Nat /\ Unminted.epoch = 0
    BY <1>i DEF TypeOK, Auth!TypeOK, Unminted
  <2>2. \A b \in Attempts : attempts'[b].epoch = attempts[b].epoch
    BY <1>4, <1>5, <1>6, <2>1
  <2> QED
    BY <1>i, <1>u, <2>2 DEF Epochs
<1> QED
  BY <1>8, <1>9, <1>10, <1>11, <1>13, <1>15, <1>16, <1>17, <1>18 DEF IInv

\* A forgotten lineage has no order of generations to keep.
LEMMA ForgetViewIInv == ASSUME IInv, NEW v \in Views, ForgetView(v) PROVE IInv'
<1>i. TypeOK /\ Stamped /\ Minted /\ Lineage /\ Asked /\ Fenced /\ Held /\ Won /\ Epochs
  BY DEF IInv
<1>u. /\ UNCHANGED <<authority, ledger, minted, attempts, winner>>
      /\ UNCHANGED <<views, attach_watermarks, next_attachment_epoch>>
      /\ UNCHANGED <<next_connection_id, stamping, live, highest_accepted, transport>>
  BY DEF ForgetView, authority, ledger
<1>1. /\ forgets' \in 0..MaxForgets /\ forgets' # 0
      /\ generation' = [generation EXCEPT ![v] = 0]
  BY <1>i, BoundsOK DEF ForgetView, TypeOK
<1>2. Auth!TypeOK'
  BY <1>i, <1>u, AuthorityStays DEF TypeOK
<1>3. TypeOK'
  BY <1>i, <1>u, <1>1, <1>2, BoundsOK DEF TypeOK
<1>4. Lineage'
  <2>1. minted \in Nat
    BY <1>i DEF TypeOK
  <2> QED
    BY <1>i, <1>u, <1>1, <2>1 DEF Lineage, TypeOK
<1>5. Stamped' /\ Minted' /\ Asked' /\ Epochs'
  BY <1>i, <1>u DEF Stamped, Minted, Asked, Epochs
<1>6. Fenced' /\ Held'
  BY <1>i, <1>u DEF Fenced, Held, CanArrive, At
<1>7. Won'
  BY <1>i, <1>u DEF Won, Auth!Attached
<1> QED
  BY <1>3, <1>4, <1>5, <1>6, <1>7 DEF IInv

-----------------------------------------------------------------------------
\* Nothing is connected, minted or attached to begin with.
LEMMA InitIInv == Init => IInv
<1> SUFFICES ASSUME Init PROVE IInv
  OBVIOUS
<1>1. /\ attempts = [a \in Attempts |-> Unminted] /\ winner = [v \in Views |-> 0]
      /\ generation = [v \in Views |-> 0] /\ minted = 0 /\ forgets = 0
      /\ next_connection_id = 0 /\ stamping = {} /\ highest_accepted = 0
      /\ live = [n \in Conns |-> "absent"] /\ transport = [n \in Conns |-> "none"]
  BY DEF Init
<1>2. /\ views = [v \in Views |-> None] /\ next_attachment_epoch = 0
      /\ attach_watermarks = [c \in {Me, Other} |-> [v \in Views |-> None]]
  BY DEF Init, Auth!Init
<1>3. Auth!TypeOK
  BY BoundsOK DEF Init, Auth!Init, Auth!TypeOK
<1>4. TypeOK
  BY <1>1, <1>3, BoundsOK DEF TypeOK
<1>5. \A a \in Attempts : a > 0 /\ ~(a <= 0) /\ attempts[a] = Unminted
  BY <1>1 DEF Attempts
<1>6. Unminted.stage = "none" /\ Unminted.epoch = 0
  BY DEF Unminted
<1>7. Stamped /\ Minted
  BY <1>1, <1>5 DEF Stamped, Minted, Conns
<1>8. Lineage
  BY <1>1 DEF Lineage
<1>9. Asked /\ Fenced /\ Held
  BY <1>5, <1>6 DEF Asked, Fenced, Held, At, CanArrive, Asking
<1>10. Won /\ Epochs
  BY <1>1, <1>2, <1>5, <1>6 DEF Won, Epochs, Auth!Attached
<1> QED
  BY <1>4, <1>7, <1>8, <1>9, <1>10 DEF IInv

\* Every step of a handler keeps the invariant,
LEMMA HandlerIInv == ASSUME IInv, NEW a \in Attempts, Handler(a) PROVE IInv'
<1> QED
  BY OpenIInv, AskTerminatedIInv, CollectIInv, AskFenceIInv, TakeOverIInv, RejectIInv,
     AnswerIInv, DeclineIInv, RegisterIInv, SpawnStreamIInv, FailIInv, LeaveIInv,
     AskOnExitIInv, CollectOnExitIInv DEF Handler

\* a step that changes nothing does,
LEMMA StutterIInv == ASSUME IInv, UNCHANGED vars PROVE IInv'
<1>i. TypeOK /\ Stamped /\ Minted
  BY DEF IInv
<1>u. UNCHANGED <<authority, ledger, viewer, attempts, winner>>
  BY DEF vars
<1>v. UNCHANGED <<next_connection_id, stamping, live, highest_accepted, transport,
                  generation, minted, forgets>>
  BY <1>u DEF ledger, viewer
<1>1. Auth!TypeOK'
  BY <1>i, <1>u, AuthorityStays DEF TypeOK
<1>2. TypeOK' /\ Stamped' /\ Minted'
  BY <1>i, <1>u, <1>v, <1>1 DEF TypeOK, Stamped, Minted
<1>3. \A b \in Attempts : CanArrive(b)' => CanArrive(b)
  BY <1>u, <1>v DEF CanArrive
<1> QED
  BY <1>u, <1>2, <1>3, LedgerStep

\* and so does every step.
LEMMA StepIInv == IInv /\ [Next]_vars => IInv'
<1> SUFFICES ASSUME IInv, [Next]_vars PROVE IInv'
  OBVIOUS
<1>1. CASE FetchId
  BY <1>1, FetchIdIInv
<1>2. ASSUME NEW n \in Conns,
             \/ Accept(n) \/ Close(n) \/ Finish(n)
             \/ \E client \in {Me, Other} : Identify(n, client)
             \/ \E v \in Views : Mint(v, n)
      PROVE  IInv'
  BY <1>2, AcceptIInv, CloseIInv, FinishIInv, IdentifyIInv, MintIInv
<1>3. CASE \E v \in Views : ForgetView(v)
  BY <1>3, ForgetViewIInv
<1>4. ASSUME NEW a \in Attempts, Write(a) \/ GiveUp(a) \/ Handler(a)
      PROVE  IInv'
  BY <1>4, WriteIInv, GiveUpIInv, HandlerIInv
<1>5. CASE UNCHANGED vars
  BY <1>5, StutterIInv
<1> QED
  BY <1>1, <1>2, <1>3, <1>4, <1>5 DEF Next

-----------------------------------------------------------------------------
(***************************************************************************)
(* The theorems.                                                           *)
(***************************************************************************)

\* The invariant holds in every reachable state, whatever connections open,
\* identify themselves and close, and whatever attempts are delayed on them.
THEOREM Inductive == Spec => []IInv
<1> QED
  BY InitIInv, StepIInv, PTL DEF Spec

\* The authority, the ledger, the viewer and every attempt keep their types.
THEOREM TypeCorrect == Spec => []TypeOK
<1>1. IInv => TypeOK
  BY DEF IInv
<1> QED
  BY <1>1, Inductive, PTL

\* While the viewer forgets no lineage, an attempt older than the last one taken
\* over is refused by the watermark, for as long as it can still arrive.
LEMMA OlderIsRefused ==
    ASSUME IInv, forgets = 0, NEW a \in Attempts, attempts[a].stage # "none",
           a < winner[attempts[a].view]
    PROVE  attach_watermarks[Me][attempts[a].view] # None =>
               attempts[a].generation < attach_watermarks[Me][attempts[a].view].generation
<1>i. TypeOK /\ Stamped /\ Minted /\ Lineage /\ Won
  BY DEF IInv
<1> DEFINE v == attempts[a].view
           w == winner[v]
<1>1. a <= minted /\ v \in Views
  BY <1>i, AttemptFacts
<1>2. a \in 1..minted /\ w \in 1..minted
  BY <1>i, <1>1, BoundsOK DEF Won, TypeOK, Attempts
<1>3. attach_watermarks[Me][v] # None =>
          attempts[w].view = v /\ attach_watermarks[Me][v].generation = attempts[w].generation
  BY <1>i, <1>1, <1>2 DEF Won
<1>4. attempts[w].view = v => attempts[a].generation < attempts[w].generation
  BY <1>i, <1>2 DEF Lineage
<1> QED
  BY <1>3, <1>4

\* While the viewer forgets nothing, its count of forgotten lineages is zero.
LEMMA NothingForgotten == MaxForgets = 0 /\ TypeOK => forgets = 0
  BY DEF TypeOK

\* WatermarkOutlivesDelayed is the invariant's Held, and the order of generations.
LEMMA HeldAndRefused == IInv /\ forgets = 0 => WatermarkOutlivesDelayed
<1> SUFFICES ASSUME IInv, forgets = 0, NEW a \in Attempts,
                    CanArrive(a), a < winner[attempts[a].view]
             PROVE  LET k == attach_watermarks[Me][attempts[a].view]
                    IN  /\ k # None /\ k.generation >= attempts[a].generation
                        /\ k.fence_conn_id >= attempts[a].conn
  BY DEF WatermarkOutlivesDelayed
<1> DEFINE k == attach_watermarks[Me][attempts[a].view]
<1>i. TypeOK /\ Stamped /\ Minted /\ Held
  BY DEF IInv
<1>1. attempts[a].stage # "none"
  BY DEF CanArrive
<1>2. /\ attempts[a].view \in Views /\ attempts[a].conn \in Int
      /\ attempts[a].generation \in Int
  BY <1>i, <1>1, AttemptFacts DEF Conns, Attempts
<1>3. k # None /\ attempts[a].conn <= k.fence_conn_id
  BY <1>i DEF Held
<1>4. k.generation \in Int /\ k.fence_conn_id \in Int
  <2>1. k \in Auth!AttachWatermark
    BY <1>i, <1>2, <1>3 DEF TypeOK, Auth!TypeOK
  <2> QED
    BY <2>1 DEF Auth!AttachWatermark, Attempts
<1>5. attempts[a].generation < k.generation
  BY <1>1, <1>3, OlderIsRefused
<1> QED
  BY <1>2, <1>3, <1>4, <1>5

\* The watermark that refuses a delayed attempt is held for as long as the
\* attempt can arrive, whatever the ledger told whom and whenever it is used.
THEOREM WatermarkAlwaysOutlives == MaxForgets = 0 => (Spec => []WatermarkOutlivesDelayed)
<1> SUFFICES ASSUME MaxForgets = 0 PROVE Spec => []WatermarkOutlivesDelayed
  OBVIOUS
<1>1. IInv => WatermarkOutlivesDelayed
  BY NothingForgotten, HeldAndRefused DEF IInv
<1> QED
  BY <1>1, Inductive, PTL

\* The viewer's latest attempt never meets a watermark as new as itself.
THEOREM LatestIsNeverRefused == MaxForgets = 0 => (Spec => []LatestIsNeverStale)
<1> SUFFICES ASSUME MaxForgets = 0 PROVE Spec => []LatestIsNeverStale
  OBVIOUS
<1>1. IInv => LatestIsNeverStale
  <2> SUFFICES ASSUME IInv, NEW a \in Attempts, a = minted, At(a, "fenced"),
                      Auth!StaleResume(attempts[a].view, Me, attempts[a].generation)
               PROVE  FALSE
    BY DEF LatestIsNeverStale
  <2> DEFINE v == attempts[a].view
             k == attach_watermarks[Me][v]
             w == winner[v]
  <2>i. TypeOK /\ Stamped /\ Minted /\ Lineage /\ Won /\ forgets = 0
    BY NothingForgotten DEF IInv
  <2>1. v \in Views /\ attempts[a].generation \in Int
    BY <2>i, AttemptFacts DEF At, Attempts
  <2>2. k # None /\ attempts[a].generation <= k.generation
    BY DEF Auth!StaleResume
  <2>3. /\ w # 0 /\ w <= minted /\ k.generation = attempts[w].generation
        /\ attempts[w].view = v /\ attempts[w].stage \in Past
    BY <2>i, <2>1, <2>2 DEF Won
  <2>4. w \in 1..minted /\ a \in 1..minted /\ w < a
    <3>1. w # a
      BY <2>3 DEF At, Past
    <3> QED
      BY <2>i, <2>1, <2>3, <3>1 DEF TypeOK, Attempts
  <2>5. attempts[w].generation < attempts[a].generation
    BY <2>i, <2>3, <2>4 DEF Lineage
  <2>6. attempts[w].generation \in Int
    <3>1. w \in Attempts
      BY <2>i, <2>4, BoundsOK DEF TypeOK, Attempts
    <3>2. attempts[w].stage # "none"
      BY <2>3 DEF Past
    <3> QED
      BY <2>i, <3>1, <3>2, AttemptFacts DEF Attempts
  <2> QED
    BY <2>1, <2>2, <2>3, <2>5, <2>6
<1> QED
  BY <1>1, Inductive, PTL

\* Only a takeover makes a winner.
LEMMA WinnerStep ==
    ASSUME TypeOK, [Next]_vars, NEW v \in Views, winner'[v] # winner[v]
    PROVE  \E a \in Attempts : TakeOver(a) /\ attempts[a].view = v /\ winner'[v] = a
<1>1. PICK a \in Attempts : TakeOver(a)
  BY DEF Next, vars, FetchId, Accept, Close, Finish, Identify, Mint, ForgetView, Write, GiveUp,
         Handler, Open, AskTerminated, Collect, AskFence, Reject, Answer, Decline, Register,
         SpawnStream, Fail, Leave, AskOnExit, CollectOnExit
<1>2. winner \in [Views -> 0..MaxAttempts] /\ winner' = [winner EXCEPT ![attempts[a].view] = a]
  BY <1>1 DEF TakeOver, TypeOK
<1>3. attempts[a].view = v /\ winner'[v] = a
  BY <1>2
<1> QED
  BY <1>1, <1>3

\* No attempt ever replaces one minted after it.
THEOREM NoneIsReplacedByOlder == MaxForgets = 0 => (Spec => NoStaleTakeover)
<1> SUFFICES ASSUME MaxForgets = 0 PROVE Spec => NoStaleTakeover
  OBVIOUS
<1>1. IInv /\ [Next]_vars =>
          [\A v \in Views : winner'[v] # winner[v] => winner'[v] > winner[v]]_vars
  <2> SUFFICES ASSUME IInv, [Next]_vars, NEW v \in Views, winner'[v] # winner[v]
               PROVE  winner'[v] > winner[v]
    OBVIOUS
  <2>i. TypeOK /\ Won /\ Held /\ forgets = 0
    BY NothingForgotten DEF IInv
  <2>1. PICK a \in Attempts : TakeOver(a) /\ attempts[a].view = v /\ winner'[v] = a
    BY <2>i, WinnerStep
  <2>2. /\ attempts[a].stage = "fenced"
        /\ ~Auth!StaleResume(v, Me, attempts[a].generation)
    BY <2>1 DEF TakeOver, At, Auth!TakeOver
  <2>3. winner[v] \in Int /\ a \in Int
    BY <2>i DEF TypeOK, Attempts
  <2>4. ~(a < winner[v])
    <3> SUFFICES ASSUME a < winner[v] PROVE FALSE
      OBVIOUS
    <3>1. CanArrive(a)
      BY <2>2 DEF CanArrive
    <3>2. WatermarkOutlivesDelayed
      BY <2>i, HeldAndRefused
    <3>3. /\ attach_watermarks[Me][v] # None
          /\ attach_watermarks[Me][v].generation >= attempts[a].generation
      BY <2>1, <3>1, <3>2 DEF WatermarkOutlivesDelayed
    <3>4. attach_watermarks[Me][v].generation \in Int /\ attempts[a].generation \in Int
      <4>1. attach_watermarks[Me][v] \in Auth!AttachWatermark
        BY <2>i, <3>3 DEF TypeOK, Auth!TypeOK
      <4>2. attempts[a].generation \in Attempts
        BY <2>2, AttemptFacts DEF IInv
      <4> QED
        BY <4>1, <4>2 DEF Auth!AttachWatermark, Attempts
    <3> QED
      BY <2>2, <3>3, <3>4 DEF Auth!StaleResume
  <2>5. winner[v] # a
    <3>1. a # 0
      BY BoundsOK DEF Attempts
    <3>2. winner[v] = a => attempts[a].stage \in Past
      BY <2>i, <3>1 DEF Won
    <3> QED
      BY <2>2, <3>2 DEF Past
  <2> QED
    BY <2>1, <2>3, <2>4, <2>5
<1> QED
  BY <1>1, Inductive, PTL DEF Spec, NoStaleTakeover

\* Only a handler that leaves detaches a view.
LEMMA DetachStep ==
    ASSUME IInv, [Next]_vars, NEW v \in Views, Auth!Attached(v), ~Auth!Attached(v)'
    PROVE  \E a \in Attempts : Leave(a) /\ Auth!DetachViewIfEpoch(v, Me, attempts[a].epoch)
<1>i. TypeOK /\ Stamped /\ Minted
  BY DEF IInv
<1>0. Auth!TypeOK /\ views[v] # None /\ views'[v] = None
  BY <1>i DEF Auth!Attached, TypeOK
<1>1. PICK a \in Attempts : Handler(a) /\ views' # views
  BY <1>0 DEF Next, vars, authority, FetchId, Accept, Close, Finish, Identify, Mint, ForgetView,
              Write, GiveUp
<1>2. attempts[a].stage # "none"
  BY <1>1 DEF Handler, Open, AskTerminated, Collect, AskFence, TakeOver, Reject, Answer, Decline,
              Register, SpawnStream, Fail, Leave, AskOnExit, CollectOnExit, At
<1>3. /\ attempts[a].view \in Views /\ attempts[a].bound \in 0..MaxConns
      /\ attempts[a].epoch \in 0..MaxAttempts /\ attempts[a].generation \in Attempts
  BY <1>i, <1>2, AttemptFacts
<1>4. ~Collect(a) /\ ~CollectOnExit(a)
  BY <1>1 DEF Collect, CollectOnExit, Auth!CollectWatermarks
<1>5. ~TakeOver(a)
  BY <1>0, <1>3, TakeOverFacts DEF TakeOver
<1>6. ~Register(a)
  BY <1>0, <1>3, RegisterFacts DEF Register
<1>7. Leave(a)
  BY <1>1, <1>4, <1>5, <1>6 DEF Handler, Open, AskTerminated, AskFence, Reject, Answer, Decline,
              SpawnStream, Fail, AskOnExit, authority
<1>8. Auth!DetachViewIfEpoch(attempts[a].view, Me, attempts[a].epoch)
  BY <1>1, <1>7 DEF Leave, authority
<1>9. attempts[a].view = v
  BY <1>0, <1>3, <1>8, DetachFacts
<1> QED
  BY <1>7, <1>8, <1>9

\* A view is detached only by the handler of the attempt that last took it over:
\* cleanup that comes late finds another epoch and leaves the successor alone.
THEOREM CleanupAlwaysSpares == Spec => CleanupSparesSuccessor
<1>1. IInv /\ [Next]_vars =>
          [\A v \in Views : Auth!Attached(v) /\ ~Auth!Attached(v)' =>
               At(winner[v], "serving") /\ ~At(winner[v], "serving")']_vars
  <2> SUFFICES ASSUME IInv, [Next]_vars, NEW v \in Views, Auth!Attached(v), ~Auth!Attached(v)'
               PROVE  At(winner[v], "serving") /\ ~At(winner[v], "serving")'
    OBVIOUS
  <2>i. TypeOK /\ Won /\ Epochs
    BY DEF IInv
  <2>1. PICK a \in Attempts : Leave(a) /\ Auth!DetachViewIfEpoch(v, Me, attempts[a].epoch)
    BY DetachStep
  <2>2. /\ views[v] # None /\ views[v].attachment_epoch = attempts[a].epoch
        /\ views[v].attachment_epoch # 0
    <3>1. views[v] # None /\ views[v].attachment_epoch = attempts[a].epoch
      BY <2>i, <2>1, DetachFacts DEF TypeOK
    <3>2. views[v] \in Auth!AttachedView
      BY <2>i, <3>1 DEF TypeOK, Auth!TypeOK
    <3> QED
      BY <3>1, <3>2, BoundsOK DEF Auth!AttachedView
  <2>3. winner[v] \in Attempts /\ attempts[winner[v]].epoch = attempts[a].epoch
    BY <2>i, <2>2, BoundsOK DEF Won, TypeOK, Auth!Attached, Attempts
  <2>4. winner[v] = a
    BY <2>i, <2>2, <2>3 DEF Epochs
  <2>5. attempts[a].stage = "serving" /\ attempts'[a].stage = "detached"
    BY <2>i, <2>1, <2>3 DEF Leave, At, To, TypeOK, Attempt, Unminted
  <2>6. winner' = winner
    BY <2>1 DEF Leave
  <2> QED
    BY <2>4, <2>5, <2>6 DEF At
<1> QED
  BY <1>1, Inductive, PTL DEF Spec, CleanupSparesSuccessor

\* The handlers, interleaved with the ledger and the viewer as they are, use the
\* authority only by its methods and within what it is specified for: every
\* behaviour of this module is one of ViewAuthority's, so all that is proved of
\* the authority holds of the host.
THEOREM UsesTheAuthority == Spec => Auth!Spec
<1>1. Init => Auth!Init
  BY DEF Init
<1>2. IInv /\ [Next]_vars => [Auth!Next]_(Auth!vars)
  <2> SUFFICES ASSUME IInv, [Next]_vars, ~UNCHANGED authority PROVE Auth!Next
    BY DEF authority, Auth!vars, Auth!seats, Auth!layout
  <2>i. TypeOK /\ Stamped /\ Minted
    BY DEF IInv
  <2>1. PICK a \in Attempts :
            Collect(a) \/ CollectOnExit(a) \/ TakeOver(a) \/ Register(a) \/ Leave(a)
    BY DEF Next, vars, FetchId, Accept, Close, Finish, Identify, Mint, ForgetView, Write, GiveUp,
           Handler, Open, AskTerminated, AskFence, Reject, Answer, Decline, SpawnStream, Fail,
           AskOnExit
  <2>2. attempts[a].stage # "none"
    BY <2>1 DEF Collect, CollectOnExit, TakeOver, Register, Leave, At
  <2>3. /\ attempts[a].view \in Views /\ attempts[a].bound \in 0..MaxConns
        /\ attempts[a].generation \in Attempts
    BY <2>i, <2>2, AttemptFacts
  <2> DEFINE v == attempts[a].view
  <2> SUFFICES Auth!Call(v, Me)
    BY <2>3 DEF Auth!Next
  <2>4. CASE Collect(a) \/ CollectOnExit(a)
    BY <2>3, <2>4 DEF Collect, CollectOnExit, Auth!Call
  <2>5. CASE TakeOver(a)
    BY <2>3, <2>5 DEF TakeOver, Auth!Call, Auth!Access
  <2>6. CASE Register(a)
    <3>1. Auth!RegisterStateStream(v, attempts[a].epoch)
      BY <2>6 DEF Register
    <3>2. attempts[a].epoch \in Auth!Epochs
      <4>1. views[v] # None /\ views[v].attachment_epoch = attempts[a].epoch
        BY <3>1 DEF Auth!RegisterStateStream, Auth!Attached
      <4>2. views[v] \in Auth!AttachedView
        BY <2>i, <2>3, <4>1 DEF TypeOK, Auth!TypeOK
      <4> QED
        BY <4>1, <4>2 DEF Auth!AttachedView, Auth!Epochs
    <3> QED
      BY <3>1, <3>2 DEF Auth!Call
  <2>7. CASE Leave(a)
    <3>1. Auth!DetachViewIfEpoch(v, Me, attempts[a].epoch)
      BY <2>7 DEF Leave
    <3>2. Auth!Detach(v, Me)
      BY <3>1 DEF Auth!DetachViewIfEpoch, Auth!Detach
    <3> QED
      BY <3>2 DEF Auth!Call
  <2> QED
    BY <2>1, <2>4, <2>5, <2>6, <2>7
<1> QED
  BY <1>1, <1>2, Inductive, PTL DEF Spec, Auth!Spec

-----------------------------------------------------------------------------
(***************************************************************************)
(* What the code's comments say, where nothing is done that breaks it.     *)
(***************************************************************************)

\* An attempt between the viewer's record and the end of its handler.
OnTheWay(a) == attempts[a].stage \in Holding \cup {"minted", "sent"}

\* detach_view forgets the record of a view with an attempt still on the way.
Abandons ==
    \E v \in Views : ForgetView(v) /\ \E a \in Attempts : attempts[a].view = v /\ OnTheWay(a)

\* Attempts on the way have generations of their own, none above the record's.
Distinct ==
    \A a \in Attempts : OnTheWay(a) =>
        /\ attempts[a].generation <= generation[attempts[a].view]
        /\ \A b \in Attempts :
              OnTheWay(b) /\ a # b /\ attempts[a].view = attempts[b].view =>
                  attempts[a].generation # attempts[b].generation

\* A handler of the host that returns by a `?` with its view attached.
Deserts == \E a \in Attempts : Fail(a) /\ Current(a)

\* An attached view has a handler that will detach it.
Serving == {"attached", "answered", "registered", "serving"}
Served ==
    \A v \in Views : views[v] # None =>
        views[v].client_id = Me /\ attempts[winner[v]].stage \in Serving

\* What is minted of an attempt stays, and nothing is on the way again.
LEMMA GoesOn ==
    ASSUME IInv, NEW a \in Attempts, Write(a) \/ GiveUp(a) \/ Handler(a)
    PROVE  /\ attempts[a].stage # "none" /\ UNCHANGED generation
           /\ \A b \in Attempts : /\ attempts'[b].view = attempts[b].view
                                  /\ attempts'[b].generation = attempts[b].generation
                                  /\ OnTheWay(b)' => OnTheWay(b)
                                  /\ b # a => attempts'[b] = attempts[b]
<1>i. TypeOK /\ Stamped /\ Minted
  BY DEF IInv
<1>1. attempts[a].stage # "none"
  <2>1. CASE GiveUp(a)
    <3>1. attempts[a] # Unminted
      BY <2>1 DEF GiveUp, Unminted
    <3> QED
      BY <1>i, <3>1 DEF Minted, TypeOK, Attempts
  <2>2. CASE Write(a) \/ Handler(a)
    BY <2>2 DEF Write, Handler, Open, AskTerminated, Collect, AskFence, TakeOver, Reject,
                Answer, Decline, Register, SpawnStream, Fail, Leave, AskOnExit,
                CollectOnExit, At
  <2> QED
    BY <2>1, <2>2
<1>2. attempts[a] \in Attempt /\ attempts \in [Attempts -> Attempt \cup {Unminted}]
  BY <1>i, <1>1, AttemptFacts DEF TypeOK
<1>3. UNCHANGED generation
  BY DEF Write, GiveUp, Handler, Open, AskTerminated, Collect, AskFence, TakeOver, Reject,
         Answer, Decline, Register, SpawnStream, Fail, Leave, AskOnExit, CollectOnExit, viewer
<1>4. /\ \A b \in Attempts \ {a} : attempts'[b] = attempts[b]
      /\ attempts'[a].view = attempts[a].view
      /\ attempts'[a].generation = attempts[a].generation
      /\ attempts'[a].stage \in Holding \cup {"minted", "sent"} => OnTheWay(a)
  <2>1. CASE GiveUp(a)
    <3> DEFINE s == attempts'[a].stage
    <3>1. Turns(a, s) /\ s \in {attempts[a].stage, "gone"}
      BY <1>i, <1>1, <1>2, <2>1 DEF GiveUp, Turns, TypeOK, Attempt, Stages
    <3> QED
      BY <3>1 DEF Turns, OnTheWay, Holding
  <2>2. CASE Write(a) \/ Open(a) \/ Collect(a) \/ Decline(a) \/ Register(a)
             \/ SpawnStream(a) \/ Fail(a) \/ Leave(a) \/ CollectOnExit(a)
    BY <1>2, <2>2 DEF Write, Open, Collect, Decline, Register, SpawnStream, Fail, Leave,
                      CollectOnExit, To, At, Attempt, OnTheWay, Holding
  <2>3. CASE AskTerminated(a) \/ AskFence(a) \/ AskOnExit(a)
    <3>1. PICK s \in {"asking", "fenced", "leaving"}, t \in {TerminatedThrough(Me), HighestFor(Me)} :
              attempts' = [attempts EXCEPT ![a].stage = s, ![a].bound = t]
      BY <2>3 DEF AskTerminated, AskFence, AskOnExit
    <3>2. attempts[a].stage \in Holding
      BY <2>3 DEF AskTerminated, AskFence, AskOnExit, At, Holding
    <3> QED
      BY <1>2, <3>1, <3>2 DEF Attempt, OnTheWay
  <2>4. CASE TakeOver(a)
    <3>1. attempts' = [attempts EXCEPT ![a].stage = "attached", ![a].epoch = next_attachment_epoch']
      BY <2>4 DEF TakeOver
    <3> QED
      BY <1>2, <2>4, <3>1 DEF TakeOver, At, Attempt, OnTheWay, Holding
  <2>5. CASE Reject(a) \/ Answer(a)
    <3>1. PICK s \in {"gone", "answered"} :
              attempts' = [attempts EXCEPT ![a].stage = s, ![a].waiting = FALSE]
      BY <2>5 DEF Reject, Answer
    <3>2. attempts[a].stage \in Holding
      BY <2>5 DEF Reject, Answer, At, Holding
    <3> QED
      BY <1>2, <3>1, <3>2 DEF Attempt, OnTheWay
  <2> QED
    BY <2>1, <2>2, <2>3, <2>4, <2>5 DEF Handler
<1> QED
  BY <1>1, <1>3, <1>4 DEF OnTheWay

LEMMA DistinctStep ==
    ASSUME IInv, Distinct, [Next]_vars, [~Abandons]_vars PROVE Distinct'
<1>i. TypeOK /\ Stamped /\ Minted
  BY DEF IInv
<1>1. CASE UNCHANGED <<attempts, generation>>
  BY <1>1 DEF Distinct, OnTheWay
<1>2. ASSUME NEW a \in Attempts, Write(a) \/ GiveUp(a) \/ Handler(a) PROVE Distinct'
  BY <1>2, GoesOn DEF Distinct
<1>3. ASSUME NEW v \in Views, NEW n \in Conns, Mint(v, n) PROVE Distinct'
  <2> DEFINE m == minted + 1
             new == [stage |-> "minted", view |-> v, conn |-> n,
                     generation |-> generation[v] + 1,
                     waiting |-> TRUE, bound |-> 0, epoch |-> 0]
  <2>1. m \in Attempts /\ minted \in Nat /\ generation \in [Views -> 0..MaxAttempts]
        /\ attempts \in [Attempts -> Attempt \cup {Unminted}]
    BY <1>i, <1>3, BoundsOK DEF Mint, TypeOK, Attempts
  <2>2. /\ generation'[v] = generation[v] + 1
        /\ \A w \in Views \ {v} : generation'[w] = generation[w]
        /\ generation[v] \in Nat
    BY <1>3, <2>1, BoundsOK DEF Mint
  <2>3. attempts' = [attempts EXCEPT ![m] = new]
    BY <1>3, <2>2 DEF Mint
  <2>4. new.view = v /\ new.generation = generation[v] + 1
    OBVIOUS
  <2> HIDE DEF new
  <2>5. attempts'[m] = new /\ \A b \in Attempts \ {m} : attempts'[b] = attempts[b]
    BY <2>1, <2>3
  <2>6. ASSUME NEW b \in Attempts \ {m}, OnTheWay(b)'
        PROVE  /\ attempts'[b] = attempts[b] /\ OnTheWay(b)
               /\ attempts[b].view \in Views /\ attempts[b].generation \in Nat
               /\ attempts[b].generation <= generation[attempts[b].view]
               /\ generation[attempts[b].view] <= generation'[attempts[b].view]
    <3>1. attempts'[b] = attempts[b] /\ OnTheWay(b)
      BY <2>5, <2>6 DEF OnTheWay
    <3>2. attempts[b].view \in Views /\ attempts[b].generation \in Attempts
      BY <1>i, <3>1, AttemptFacts DEF OnTheWay, Holding
    <3>3. generation[attempts[b].view] <= generation'[attempts[b].view]
      BY <2>1, <2>2, <3>2, BoundsOK
    <3> QED
      BY <3>1, <3>2, <3>3 DEF Distinct, Attempts
  <2>7. ASSUME NEW b \in Attempts \ {m}, OnTheWay(b)', attempts[b].view = v
        PROVE  attempts[b].generation < generation[v] + 1
    BY <2>2, <2>6, <2>7
  <2>8. \A a \in Attempts : OnTheWay(a)' =>
            attempts'[a].generation <= generation'[attempts'[a].view]
    <3> SUFFICES ASSUME NEW a \in Attempts, OnTheWay(a)'
                 PROVE  attempts'[a].generation <= generation'[attempts'[a].view]
      OBVIOUS
    <3>1. CASE a = m
      BY <2>2, <2>4, <2>5, <3>1
    <3>2. CASE a # m
      <4>1. generation'[attempts[a].view] \in Int /\ generation[attempts[a].view] \in Int
        BY <2>1, <2>2, <2>6, <3>2, BoundsOK
      <4> QED
        BY <2>6, <3>2, <4>1
    <3> QED
      BY <3>1, <3>2
  <2>9. \A a, b \in Attempts :
            (OnTheWay(a)' /\ OnTheWay(b)' /\ a # b /\ attempts'[a].view = attempts'[b].view)
            => attempts'[a].generation # attempts'[b].generation
    <3> SUFFICES ASSUME NEW a \in Attempts, NEW b \in Attempts, OnTheWay(a)', OnTheWay(b)',
                        a # b, attempts'[a].view = attempts'[b].view
                 PROVE  attempts'[a].generation # attempts'[b].generation
      OBVIOUS
    <3>1. CASE a # m /\ b # m
      BY <2>6, <3>1 DEF Distinct
    <3>2. CASE a = m
      BY <2>2, <2>4, <2>5, <2>6, <2>7, <3>2
    <3>3. CASE b = m
      BY <2>2, <2>4, <2>5, <2>6, <2>7, <3>3
    <3> QED
      BY <3>1, <3>2, <3>3
  <2> QED
    BY <2>8, <2>9 DEF Distinct
<1>4. ASSUME NEW v \in Views, ForgetView(v), ~Abandons PROVE Distinct'
  <2>1. /\ attempts' = attempts /\ generation' = [generation EXCEPT ![v] = 0]
        /\ generation \in [Views -> 0..MaxAttempts]
    BY <1>i, <1>4 DEF ForgetView, TypeOK
  <2>2. \A a \in Attempts : OnTheWay(a) => attempts[a].view # v
    BY <1>4 DEF Abandons
  <2>3. \A a \in Attempts : OnTheWay(a) => attempts[a].view \in Views
    BY <1>i, AttemptFacts DEF OnTheWay, Holding
  <2>4. \A a \in Attempts : OnTheWay(a) =>
            generation'[attempts[a].view] = generation[attempts[a].view]
    BY <2>1, <2>2, <2>3
  <2>5. \A a \in Attempts : OnTheWay(a)' <=> OnTheWay(a)
    BY <2>1 DEF OnTheWay
  <2> QED
    BY <2>1, <2>4, <2>5 DEF Distinct
<1> SUFFICES ASSUME Next, ~Abandons, ~UNCHANGED <<attempts, generation>> PROVE Distinct'
  BY <1>1 DEF vars, viewer
<1>5. \/ \E v \in Views, n \in Conns : Mint(v, n)
      \/ \E v \in Views : ForgetView(v)
      \/ \E a \in Attempts : Write(a) \/ GiveUp(a) \/ Handler(a)
  BY DEF Next, FetchId, Accept, Close, Finish, Identify, viewer
<1> QED
  BY <1>2, <1>3, <1>4, <1>5

\* Two attempts that overlap carry the same identity only after detach_view has
\* forgotten the record of a view with an attempt on the way: begin_view_attempt
\* and the handshake's own retries never see to it.
THEOREM IdentitiesDistinct == Spec /\ [][~Abandons]_vars => []IdentityNeverReused
<1>1. Init => Distinct
  BY DEF Init, Distinct, OnTheWay, Unminted, Holding
<1>2. Distinct => IdentityNeverReused
  BY DEF Distinct, IdentityNeverReused, OnTheWay
<1> QED
  BY <1>1, <1>2, Inductive, DistinctStep, PTL DEF Spec

\* Nobody is served by accident: an attached view is this viewer's and the
\* handler of the attempt that last took it over is still to leave it.
LEMMA ServedStep ==
    ASSUME IInv, Served, [Next]_vars, [~Deserts]_vars PROVE Served'
<1>i. TypeOK /\ Auth!TypeOK /\ Stamped /\ Minted /\ Won
  BY DEF IInv, TypeOK
<1>t. /\ views \in [Views -> Auth!AttachedView \cup {None}]
      /\ winner \in [Views -> 0..MaxAttempts]
      /\ attempts \in [Attempts -> Attempt \cup {Unminted}]
  BY <1>i DEF TypeOK, Auth!TypeOK
\* Whom an attached view is held by.
<1>w. ASSUME NEW v \in Views, views[v] # None
      PROVE  /\ winner[v] \in Attempts /\ attempts[winner[v]].view = v
             /\ views[v].client_id = Me /\ attempts[winner[v]].stage \in Serving
             /\ views[v].attachment_epoch = attempts[winner[v]].epoch
  BY <1>i, <1>t, <1>w, BoundsOK DEF Won, Served, Auth!Attached, Attempts
<1> SUFFICES ASSUME ~UNCHANGED <<views, winner, attempts>> PROVE Served'
  <2>1. UNCHANGED <<views, winner, attempts>> => Served'
    BY DEF Served
  <2> QED
    BY <2>1
<1>0. Next /\ ~Deserts
  BY DEF vars, authority
<1>1. \/ \E v \in Views, n \in Conns : Mint(v, n)
      \/ \E a \in Attempts : Write(a) \/ GiveUp(a) \/ Handler(a)
  BY <1>0 DEF Next, FetchId, Accept, Close, Finish, Identify, ForgetView, authority
<1>2. ASSUME NEW v \in Views, NEW n \in Conns, Mint(v, n) PROVE Served'
  <2>1. /\ minted + 1 \in Attempts /\ UNCHANGED <<views, winner>>
        /\ \A b \in Attempts \ {minted + 1} : attempts'[b] = attempts[b]
    BY <1>i, <1>t, <1>2, BoundsOK DEF Mint, TypeOK, Attempts, authority
  <2>2. \A w \in Views : views[w] # None => winner[w] # minted + 1
    BY <1>i, BoundsOK DEF Won, TypeOK
  <2> QED
    BY <1>w, <2>1, <2>2 DEF Served
\* The handler whose turn keeps the views, and its own place if it has one.
<1>3. ASSUME NEW a \in Attempts, UNCHANGED <<views, winner>>,
             \A b \in Attempts \ {a} : attempts'[b] = attempts[b],
             \A v \in Views : views[v] # None /\ winner[v] = a => attempts'[a].stage \in Serving
      PROVE  Served'
  BY <1>3, <1>w DEF Served
<1>4. ASSUME NEW a \in Attempts, Write(a) \/ GiveUp(a) \/ Handler(a) PROVE Served'
  <2>g. attempts[a].stage # "none" /\ \A b \in Attempts \ {a} : attempts'[b] = attempts[b]
    BY <1>4, GoesOn
  <2>a. /\ attempts[a] \in Attempt /\ attempts[a].view \in Views
        /\ attempts[a].generation \in Attempts /\ attempts[a].bound \in 0..MaxConns
        /\ attempts[a].epoch \in 0..MaxAttempts
    BY <1>i, <2>g, AttemptFacts
  <2>1. CASE Write(a) \/ Open(a) \/ AskTerminated(a) \/ AskFence(a) \/ Reject(a) \/ AskOnExit(a)
             \/ Collect(a) \/ CollectOnExit(a)
    <3>1. UNCHANGED <<views, winner>> /\ attempts[a].stage \notin Serving
      BY <2>1 DEF Write, Open, AskTerminated, AskFence, Reject, AskOnExit, Collect,
                  CollectOnExit, At, Serving, authority, Auth!CollectWatermarks
    <3> QED
      BY <1>3, <1>w, <2>g, <3>1
  <2>2. CASE GiveUp(a)
    <3>1. attempts[a].stage # "minted" => attempts'[a].stage = attempts[a].stage
      BY <1>t, <2>2, <2>a DEF GiveUp, Attempt
    <3>2. UNCHANGED <<views, winner>>
      BY <2>2 DEF GiveUp, authority
    <3>3. ASSUME NEW v \in Views, views[v] # None, winner[v] = a PROVE attempts'[a].stage \in Serving
      <4>1. attempts[a].stage \in Serving
        BY <1>w, <3>3
      <4> QED
        BY <3>1, <4>1 DEF Serving
    <3> QED
      BY <1>3, <2>g, <3>2, <3>3
  <2>3. CASE Answer(a) \/ Decline(a) \/ SpawnStream(a)
    <3>1. attempts'[a].stage \in Serving
      BY <1>t, <2>3, <2>a DEF Answer, Decline, SpawnStream, To, Attempt, Serving
    <3> QED
      BY <1>3, <2>3, <2>g, <3>1 DEF Answer, Decline, SpawnStream, authority
  <2>4. CASE Fail(a)
    <3>1. UNCHANGED <<views, winner>> /\ ~Current(a)
      BY <1>0, <2>4 DEF Fail, Deserts, authority
    <3>2. \A v \in Views : views[v] # None => winner[v] # a
      BY <1>w, <3>1 DEF Current, Auth!Owns, Auth!Attached, Auth!EpochOf
    <3> QED
      BY <1>3, <2>g, <3>1, <3>2
  <2>5. CASE Register(a)
    <3>1. Auth!RegisterStateStream(attempts[a].view, attempts[a].epoch) /\ winner' = winner
      BY <2>5 DEF Register
    <3>2. attempts'[a].stage \in Serving
      BY <1>t, <2>5, <2>a DEF Register, To, Attempt, Serving
    <3>3. ASSUME NEW v \in Views, views'[v] # None
          PROVE  views[v] # None /\ views'[v].client_id = views[v].client_id
      BY <1>t, <2>a, <3>1, <3>3 DEF Auth!RegisterStateStream, Auth!Attached, Auth!AttachedView
    <3> QED
      BY <1>w, <2>g, <3>1, <3>2, <3>3 DEF Served
  <2>6. CASE Leave(a)
    <3>0. winner' = winner /\ attempts[a].stage \in Serving
      BY <2>6 DEF Leave, At, Serving
    <3>1. CASE Auth!DetachViewIfEpoch(attempts[a].view, Me, attempts[a].epoch)
      <4>1. /\ views'[attempts[a].view] = None
            /\ \A w \in Views \ {attempts[a].view} : views'[w] = views[w]
        BY <1>i, <2>a, <3>1, DetachFacts
      <4>2. \A v \in Views : views'[v] # None => views[v] # None /\ winner[v] # a /\ views'[v] = views[v]
        BY <1>w, <4>1
      <4> QED
        BY <1>w, <2>g, <3>0, <4>2 DEF Served
    <3>2. CASE ~Current(a) /\ UNCHANGED authority
      <4>1. \A v \in Views : views[v] # None => winner[v] # a
        BY <1>w, <3>2 DEF Current, Auth!Owns, Auth!Attached, Auth!EpochOf
      <4> QED
        BY <1>3, <2>g, <3>0, <3>2, <4>1 DEF authority
    <3> QED
      BY <2>6, <3>1, <3>2 DEF Leave
  <2>7. CASE TakeOver(a)
    <3> DEFINE v == attempts[a].view
    <3>1. /\ Auth!TakeOver(v, Me, "ReadWrite", attempts[a].generation, attempts[a].bound, TRUE)
          /\ winner' = [winner EXCEPT ![v] = a] /\ attempts[a].stage \notin Serving
      BY <2>7 DEF TakeOver, At, Serving
    <3>2. attempts'[a].stage \in Serving
      BY <1>t, <2>7, <2>a DEF TakeOver, Attempt, Serving
    <3>3. \A w \in Views \ {v} : views'[w] = views[w] /\ winner'[w] = winner[w]
      BY <1>i, <1>t, <2>a, <3>1, TakeOverFacts
    <3>4. views'[v].client_id = Me /\ winner'[v] = a
      BY <1>t, <2>a, <3>1 DEF Auth!TakeOver, Auth!NewView
    <3> HIDE DEF v
    <3>5. ASSUME NEW w \in Views, views'[w] # None
          PROVE  views'[w].client_id = Me /\ attempts'[winner'[w]].stage \in Serving
      <4>1. CASE w = v
        BY <3>2, <3>4, <4>1
      <4>2. CASE w # v
        BY <1>w, <2>g, <3>1, <3>3, <3>5, <4>2
      <4> QED
        BY <4>1, <4>2
    <3> QED
      BY <3>5 DEF Served
  <2> QED
    BY <1>4, <2>1, <2>2, <2>3, <2>4, <2>5, <2>6, <2>7 DEF Handler
<1> QED
  BY <1>1, <1>2, <1>4

\* The host detaches the views of a dead client, as its documentation says, in
\* every behaviour in which no handler returns by a `?` with its view attached:
\* whatever else is delayed, forgotten or closed under it.
THEOREM DeathAlwaysDetaches == Spec /\ [][~Deserts]_vars => []DeathDetaches
<1>1. Init => Served
  BY DEF Init, Auth!Init, Served
<1>2. IInv /\ Served => DeathDetaches
  <2> SUFFICES ASSUME IInv, Served, Holders(Me) = {}, NEW v \in Views, views[v] # None
               PROVE  FALSE
    BY DEF DeathDetaches, AllGone, Auth!Attached
  <2>i. TypeOK /\ Stamped /\ Minted /\ Won
    BY DEF IInv
  <2>1. winner[v] \in Attempts /\ attempts[winner[v]].stage \in Serving
    BY <2>i, BoundsOK DEF Won, TypeOK, Served, Auth!Attached, Attempts
  <2>2. attempts[winner[v]].stage \in Holding /\ attempts[winner[v]].stage # "none"
    BY <2>1 DEF Serving, Holding
  <2>3. live[attempts[winner[v]].conn] = Me /\ attempts[winner[v]].conn \in Conns
    BY <2>i, <2>1, <2>2, AttemptFacts
  <2> QED
    BY <2>3 DEF Holders, CouldBelongTo
<1> QED
  BY <1>1, <1>2, Inductive, ServedStep, PTL DEF Spec

=============================================================================
