-------------------------- MODULE StateStreamProofs --------------------------
(***************************************************************************)
(* StateStream's invariants hold for every terminal, ring, number of       *)
(* streams and budget.  The inductive invariant follows a feed from what   *)
(* the host last sent, through what is on the wire, to the replica.        *)
(***************************************************************************)
EXTENDS StateStream, TLAPS

\* What the host reads and sends is the past, and it counts from nought.
PastOnly ==
    /\ rendering => Latest > 0
    /\ \A k \in 1..Len(announced) : announced[k] <= Latest
    /\ \A i \in Ids : /\ host[i].position <= Len(announced) /\ host[i].previous <= Latest
                      /\ host[i].pc \in {"opening", "subscribed"} => host[i].sequence = 0
    /\ replica.revision <= Latest

\* A patch can say all that changed between its two revisions.
Sound(m) ==
    /\ m.revision <= Latest
    /\ m.kind = "snapshot" => m.sequence = 0
    /\ m.kind = "patch" => /\ m.base \in 1..Latest /\ m.base < m.revision
                           /\ history[m.base].shape = history[m.revision].shape

MessagesSound == \A i \in Ids : \A k \in 1..Len(wire[i]) : Sound(wire[i][k])

\* The current stream is nobody's past, and the ones to come are blank.
CurrentStands ==
    /\ ~host[current].cancelled /\ host[current].pc \in {"opening", "subscribed", "open"}
    /\ ~viewer[current].cancelled /\ viewer[current].generation = generation
    /\ viewer[current].pc # "left"
    /\ \A i \in Ids : i > current => wire[i] = <<>> /\ host[i].pc = "idle"

\* A stream that is not open has sent nothing.
Silent == host[current].pc # "open" => wire[current] = <<>> /\ ~viewer[current].synchronized

\* Each patch continues the message before it; the last is what the host sent
\* last.
Linked ==
    LET q == wire[current] IN
    /\ \A k \in 2..Len(q) : q[k].kind = "patch" =>
          q[k].base = q[k-1].revision /\ q[k].sequence = q[k-1].sequence + 1
    /\ q # <<>> => /\ q[Len(q)].revision = host[current].previous
                   /\ q[Len(q)].sequence = host[current].sequence

\* The first continues what the replica shows, as far as nothing else has
\* touched it.
Continues ==
    LET q == wire[current] IN
    viewer[current].pc = "reading" /\ q # <<>> /\ q[1].kind = "patch" =>
        /\ viewer[current].synchronized
        /\ "late" \notin foreign => q[1].base = replica.revision
        /\ foreign = {} => q[1].sequence = replica.sequence + 1

\* With nothing on the wire the replica shows what the host sent last.
Settled ==
    viewer[current].pc = "reading" /\ wire[current] = <<>> /\ host[current].pc = "open" =>
        /\ ~viewer[current].synchronized => host[current].previous = 0
        /\ viewer[current].synchronized =>
              /\ "late" \notin foreign => replica.revision = host[current].previous
              /\ foreign = {} => replica.sequence = host[current].sequence

\* A stream that has read its ring to the end has sent the end, or later.
UpToDate ==
    host[current].pc = "open" /\ host[current].position = Len(announced)
        /\ announced # <<>> => host[current].previous >= announced[Len(announced)]

IInv ==
    /\ TypeOK /\ PastOnly /\ MessagesSound /\ CurrentStands /\ Silent
    /\ Linked /\ Continues /\ Settled /\ UpToDate /\ ReplicaIsHostState

-----------------------------------------------------------------------------
(* Sequences. *)

LEMMA AppendFacts ==
    ASSUME NEW S, NEW s \in Seq(S), NEW e \in S
    PROVE  /\ Append(s, e) \in Seq(S) /\ Append(s, e) # <<>>
           /\ Len(Append(s, e)) = Len(s) + 1
           /\ \A k \in 1..Len(s) : Append(s, e)[k] = s[k]
           /\ Append(s, e)[Len(s) + 1] = e
  OBVIOUS

LEMMA TailFacts ==
    ASSUME NEW S, NEW s \in Seq(S), s # <<>>
    PROVE  /\ Tail(s) \in Seq(S) /\ Len(Tail(s)) = Len(s) - 1 /\ Len(s) \in Nat \ {0}
           /\ \A k \in 1..(Len(s) - 1) : Tail(s)[k] = s[k+1]
           /\ Head(s) = s[1] /\ s[1] \in S
  OBVIOUS

-----------------------------------------------------------------------------

LEMMA TypeFacts ==
    ASSUME TypeOK
    PROVE  /\ history \in Seq(Contents) /\ Latest \in Nat /\ Latest <= MaxRevision
           /\ \A r \in 1..Latest : history[r] \in Contents
           /\ announced \in Seq(1..MaxRevision) /\ Len(announced) \in Nat
           /\ \A k \in 1..Len(announced) : announced[k] \in 1..MaxRevision
           /\ \A i \in Ids : /\ host[i] \in Streams /\ viewer[i] \in Readers
                             /\ wire[i] \in Seq(Messages) /\ Len(wire[i]) \in Nat
                             /\ \A k \in 1..Len(wire[i]) : wire[i][k] \in Messages
           /\ current \in Ids /\ generation \in Nat
           /\ replica \in Replicas
  BY StreamsOK DEF TypeOK, Latest

LEMMA LastAnnounced ==
    ASSUME TypeOK, PastOnly, announced # <<>>
    PROVE  announced[Len(announced)] \in 1..Latest
  BY TypeFacts, StreamsOK DEF PastOnly

LEMMA InitIInv == Init => IInv
<1> SUFFICES ASSUME Init PROVE IInv
  OBVIOUS
<1> USE StreamsOK DEF Init
<1>1. TypeOK
  <2>1. Task("idle") \in Streams /\ Task("opening") \in Streams /\ Reader(1) \in Readers
    BY DEF Task, Streams, Reader, Readers
  <2>2. replica \in Replicas /\ replica.revision = 0
    BY DEF Replicas
  <2>3. /\ history \in Seq(Contents) /\ Len(history) <= MaxRevision
        /\ announced \in Seq(1..MaxRevision) /\ wire \in [Ids -> Seq(Messages)]
    OBVIOUS
  <2>4. 1 \in Ids
    BY DEF Ids
  <2>5. host \in [Ids -> Streams] /\ viewer \in [Ids -> Readers]
    BY <2>1
  <2> QED
    <3>1. rendering \in BOOLEAN /\ live \in BOOLEAN /\ refreshing \in BOOLEAN
      OBVIOUS
    <3>2. /\ generation \in Nat /\ current \in Ids /\ foreign \subseteq {"late", "refresh"}
          /\ faults \in 0..MaxFaults /\ ops \in 0..MaxOps
      BY <2>4
    <3> QED
      BY <2>2, <2>3, <2>5, <3>1, <3>2 DEF TypeOK
<1>2. PastOnly /\ MessagesSound /\ UpToDate /\ ReplicaIsHostState
  BY DEF PastOnly, MessagesSound, UpToDate, ReplicaIsHostState, Ids, Task, Latest
<1>3. CurrentStands /\ Silent /\ Linked /\ Continues /\ Settled
  BY DEF CurrentStands, Silent, Linked, Continues, Settled, Ids, Task, Reader
<1> QED
  BY <1>1, <1>2, <1>3 DEF IInv

LEMMA RenderIInv == ASSUME IInv, NEW c \in Contents, Render(c) PROVE IInv'
<1>u. UNCHANGED <<announced, host, wire, viewer, current, generation, live, refreshing,
                  replica, foreign, faults, ops>>
  BY DEF Render, streams, shown
<1>t. TypeOK /\ PastOnly /\ MessagesSound
  BY DEF IInv
<1>h. /\ history' \in Seq(Contents) /\ Latest' = Latest + 1 /\ Latest' <= MaxRevision
      /\ \A r \in 1..Latest : history'[r] = history[r]
      /\ rendering' = TRUE
  BY <1>t, TypeFacts, StreamsOK DEF Render, Latest
<1>1. TypeOK'
  BY <1>t, <1>h, <1>u DEF TypeOK, Latest
<1>2. PastOnly'
  <2>1. /\ \A k \in 1..Len(announced) : announced[k] \in Nat /\ announced[k] <= Latest
        /\ \A i \in Ids : /\ host[i].position <= Len(announced)
                          /\ host[i].previous \in Nat /\ host[i].previous <= Latest
        /\ replica.revision \in Nat /\ replica.revision <= Latest /\ Latest \in Nat
    BY <1>t, TypeFacts, StreamsOK DEF PastOnly, Streams, Replicas
  <2>2. \A i \in Ids : /\ host[i].position <= Len(announced) /\ host[i].previous <= Latest'
                      /\ host[i].pc \in {"opening", "subscribed"} => host[i].sequence = 0
    BY <1>t, <1>h, <2>1 DEF PastOnly
  <2> QED
    BY <1>h, <1>u, <2>1, <2>2 DEF PastOnly
<1>3. MessagesSound'
  <2> SUFFICES ASSUME NEW i \in Ids, NEW k \in 1..Len(wire[i])
               PROVE  Sound(wire[i][k])'
    BY <1>u DEF MessagesSound
  <2>1. wire[i][k] \in Messages /\ Sound(wire[i][k])
    BY <1>t, TypeFacts DEF MessagesSound
  <2>2. wire[i][k].revision \in 1..Latest /\ Latest \in Nat
    <3>1. Latest \in Nat
      BY <1>t, TypeFacts
    <3>2. wire[i][k].revision \in Nat /\ wire[i][k].revision >= 1
      BY <2>1, StreamsOK DEF Messages
    <3>3. wire[i][k].revision <= Latest
      BY <2>1 DEF Sound
    <3> QED
      BY <3>1, <3>2, <3>3
  <2> DEFINE m == wire[i][k]
  <2>3. wire'[i][k] = m /\ history'[m.revision] = history[m.revision]
    BY <1>h, <1>u, <2>2
  <2>4. CASE m.kind = "patch"
    <3>1. /\ m.base \in 1..Latest /\ m.base < m.revision
          /\ history[m.base].shape = history[m.revision].shape
      BY <2>1, <2>4 DEF Sound
    <3>2. history'[m.base] = history[m.base] /\ m.base \in 1..Latest'
      BY <1>h, <2>2, <3>1
    <3>3. m.revision <= Latest'
      BY <1>h, <2>2
    <3> HIDE DEF m
    <3> QED
      BY <2>3, <2>4, <3>1, <3>2, <3>3 DEF Sound
  <2>5. CASE m.kind # "patch"
    <3>1. m.revision <= Latest' /\ (m.kind = "snapshot" => m.sequence = 0)
      BY <1>h, <2>1, <2>2 DEF Sound
    <3> HIDE DEF m
    <3> QED
      BY <2>3, <2>5, <3>1 DEF Sound
  <2> QED
    BY <2>4, <2>5
<1>4. CurrentStands' /\ Silent' /\ Linked' /\ Continues' /\ Settled' /\ UpToDate'
  BY <1>u DEF IInv, CurrentStands, Silent, Linked, Continues, Settled, UpToDate
<1>5. ReplicaIsHostState'
  <2>1. replica.revision # 0 => replica.revision \in 1..Latest
    BY <1>t, TypeFacts, StreamsOK DEF PastOnly, Replicas
  <2> QED
    BY <1>h, <1>u, <2>1 DEF IInv, ReplicaIsHostState
<1> QED
  BY <1>1, <1>2, <1>3, <1>4, <1>5 DEF IInv

LEMMA AnnounceIInv == ASSUME IInv, Announce PROVE IInv'
<1>u. UNCHANGED <<history, host, wire, viewer, current, generation, live, refreshing,
                  replica, foreign, ops>>
  BY DEF Announce, streams, shown
<1>t. TypeOK /\ PastOnly
  BY DEF IInv
<1>f. faults' \in 0..MaxFaults /\ rendering' = FALSE
  BY <1>t, StreamsOK DEF TypeOK, Announce, Fault
<1>1. \/ announced' = announced
      \/ /\ announced' \in Seq(1..MaxRevision) /\ Len(announced') = Len(announced) + 1
         /\ \A k \in 1..Len(announced) : announced'[k] = announced[k]
         /\ announced'[Len(announced) + 1] = Latest
  <2>1. Latest \in 1..MaxRevision /\ announced \in Seq(1..MaxRevision)
    BY <1>t, TypeFacts, StreamsOK DEF PastOnly, Announce
  <2>2. announced' = announced \/ announced' = Append(announced, Latest)
    BY DEF Announce
  <2>3. CASE announced' = Append(announced, Latest)
    BY <2>1, <2>3, AppendFacts
  <2> QED
    BY <2>2, <2>3
<1>2. TypeOK'
  BY <1>t, <1>f, <1>1, <1>u DEF TypeOK
<1>3. PastOnly'
  <2>1. \A i \in Ids : host[i].position \in Nat
    BY <1>t, TypeFacts DEF Streams
  <2> QED
    BY <1>t, <1>f, <1>u, <1>1, <2>1, TypeFacts DEF PastOnly, Latest
<1>4. UpToDate'
  <2>1. host[current].position \in Nat /\ host[current].position <= Len(announced)
    BY <1>t, TypeFacts DEF PastOnly, Streams
  <2> QED
    BY <1>t, <1>1, <1>u, <2>1, TypeFacts DEF IInv, UpToDate
<1>5. MessagesSound' /\ CurrentStands' /\ Silent' /\ Linked' /\ Continues' /\ Settled'
  BY <1>u DEF IInv, CurrentStands, Silent, Linked, Continues, Settled, MessagesSound, Sound,
         Latest
<1>6. ReplicaIsHostState'
  BY <1>u DEF IInv, ReplicaIsHostState
<1> QED
  BY <1>2, <1>3, <1>4, <1>5, <1>6 DEF IInv

-----------------------------------------------------------------------------
(* The host's tasks.  A task either sends nothing and stays where it is, or *)
(* sends what follows what it sent last.                                    *)

\* All but the task of one stream, and its messages, is left alone.
OnlyTask(i) ==
    /\ UNCHANGED <<history, rendering, announced, viewer, current, generation, live,
                   refreshing, replica, foreign, faults>>
    /\ ops' \in 0..MaxOps
    /\ host' \in [Ids -> Streams] /\ \A j \in Ids : j # i => host'[j] = host[j]
    /\ host[i].pc # "idle" /\ host'[i].pc # "idle"
    /\ host'[i].cancelled = host[i].cancelled
    /\ host'[i].pc = "stopped" => host[i].cancelled
    /\ host'[i].position <= Len(announced) /\ host'[i].previous <= Latest
    /\ host'[i].pc \in {"opening", "subscribed"} => host'[i].sequence = 0
    /\ host'[i].pc = "open" /\ host'[i].position = Len(announced) /\ announced # <<>>
          => host'[i].previous >= announced[Len(announced)]

LEMMA OnlyTaskFacts ==
    ASSUME IInv, NEW i \in Ids, OnlyTask(i),
           wire' \in [Ids -> Seq(Messages)], \A j \in Ids : j # i => wire'[j] = wire[j]
    PROVE  TypeOK' /\ PastOnly' /\ CurrentStands' /\ UpToDate' /\ ReplicaIsHostState'
<1>t. TypeOK /\ PastOnly /\ CurrentStands /\ UpToDate /\ ReplicaIsHostState
  BY DEF IInv
<1>1. TypeOK'
  BY <1>t DEF TypeOK, OnlyTask
<1>2. PastOnly'
  BY <1>t DEF PastOnly, OnlyTask, Latest
<1>3. CurrentStands'
  <2>1. /\ host'[current].cancelled = host[current].cancelled
        /\ host'[current].pc \in {"opening", "subscribed", "open"}
    <3>1. current \in Ids /\ host' \in [Ids -> Streams]
      BY <1>t, TypeFacts DEF OnlyTask
    <3>2. host'[current].pc \in {"idle", "opening", "subscribed", "open", "stopped"}
      BY <3>1 DEF Streams
    <3> QED
      BY <1>t, <3>1, <3>2 DEF CurrentStands, OnlyTask
  <2>2. ASSUME NEW j \in Ids, j > current
        PROVE  wire'[j] = <<>> /\ host'[j].pc = "idle"
    <3>1. wire[j] = <<>> /\ host[j].pc = "idle"
      BY <1>t, <2>2 DEF CurrentStands
    <3>2. j # i
      BY <3>1 DEF OnlyTask
    <3> QED
      BY <3>1, <3>2 DEF OnlyTask
  <2> QED
    BY <1>t, <2>1, <2>2 DEF CurrentStands, OnlyTask
<1>4. UpToDate' /\ ReplicaIsHostState'
  BY <1>t, TypeFacts DEF UpToDate, OnlyTask, ReplicaIsHostState
<1> QED
  BY <1>1, <1>2, <1>3, <1>4

LEMMA QuietTask ==
    ASSUME IInv, NEW i \in Ids, OnlyTask(i), wire' = wire,
           \/ /\ (host'[i].pc = "open") <=> (host[i].pc = "open")
              /\ host'[i].previous = host[i].previous /\ host'[i].sequence = host[i].sequence
           \/ host[i].pc # "open" /\ host'[i].previous = 0
           \/ i # current
    PROVE  IInv'
<1>t. TypeOK /\ MessagesSound /\ Silent /\ Linked /\ Continues /\ Settled
  BY DEF IInv
<1>1. TypeOK' /\ PastOnly' /\ CurrentStands' /\ UpToDate' /\ ReplicaIsHostState'
  BY <1>t, OnlyTaskFacts DEF TypeOK
<1>2. MessagesSound' /\ Continues'
  BY <1>t DEF OnlyTask, MessagesSound, Sound, Latest, Continues
<1>3. /\ UNCHANGED <<viewer, current, replica, foreign>>
      /\ \/ /\ (host'[current].pc = "open") <=> (host[current].pc = "open")
            /\ host'[current].previous = host[current].previous
            /\ host'[current].sequence = host[current].sequence
         \/ host[current].pc # "open" /\ host'[current].previous = 0
  <2>1. CASE i = current
    BY <2>1 DEF OnlyTask
  <2>2. CASE i # current
    BY <2>2, <1>t, TypeFacts DEF OnlyTask
  <2> QED
    BY <2>1, <2>2
<1>4. Silent' /\ Linked'
  <2>1. CASE host[current].pc # "open"
    BY <2>1, <1>3, <1>t DEF Linked, Silent
  <2>2. CASE host[current].pc = "open"
    BY <2>2, <1>3, <1>t DEF Linked, Silent
  <2> QED
    BY <2>1, <2>2
<1>5. Settled'
  <2>1. CASE host[current].pc # "open" /\ (host[current].pc)' = "open"
    <3>1. (host[current].previous)' = 0
      BY <2>1, <1>3
    <3>2. ~(viewer[current].synchronized)'
      BY <2>1, <1>3, <1>t DEF Silent
    <3> QED
      BY <3>1, <3>2 DEF Settled
  <2>2. CASE host[current].pc = "open"
    BY <2>2, <1>3, <1>t DEF Settled
  <2>3. CASE (host[current].pc)' # "open"
    BY <2>3 DEF Settled
  <2> QED
    BY <2>1, <2>2, <2>3
<1> QED
  BY <1>1, <1>2, <1>4, <1>5 DEF IInv

LEMMA SendingTask ==
    ASSUME IInv, NEW i \in Ids, OnlyTask(i), NEW m \in Messages, Sound(m),
           wire' = [wire EXCEPT ![i] = Append(@, m)], host'[i].pc = "open",
           host'[i].previous = m.revision, host'[i].sequence = m.sequence,
           m.kind = "patch" => /\ host[i].pc = "open" /\ host[i].previous # 0
                               /\ m.base = host[i].previous
                               /\ m.sequence = host[i].sequence + 1
    PROVE  IInv'
<1>t. TypeOK /\ MessagesSound /\ CurrentStands /\ Silent /\ Linked /\ Continues /\ Settled
  BY DEF IInv
<1>w. /\ wire[i] \in Seq(Messages) /\ Len(wire[i]) \in Nat
      /\ wire'[i] \in Seq(Messages) /\ Len(wire'[i]) = Len(wire[i]) + 1
      /\ \A k \in 1..Len(wire[i]) : wire'[i][k] = wire[i][k]
      /\ wire'[i][Len(wire[i]) + 1] = m /\ wire'[i] # <<>>
  <2>1. wire'[i] = Append(wire[i], m) /\ wire[i] \in Seq(Messages) /\ Len(wire[i]) \in Nat
    BY <1>t, TypeFacts DEF TypeOK
  <2> QED
    BY <2>1, AppendFacts
<1>v. wire' \in [Ids -> Seq(Messages)] /\ \A j \in Ids : j # i => wire'[j] = wire[j]
  BY <1>t, <1>w DEF TypeOK
<1>1. TypeOK' /\ PastOnly' /\ CurrentStands' /\ UpToDate' /\ ReplicaIsHostState'
  BY <1>v, OnlyTaskFacts
<1>2. MessagesSound'
  <2> SUFFICES ASSUME NEW j \in Ids, NEW k \in 1..Len(wire'[j])
               PROVE  Sound(wire'[j][k])
    BY DEF MessagesSound, Sound, OnlyTask, Latest
  <2>1. CASE j # i
    BY <2>1, <1>t, <1>v DEF MessagesSound
  <2>2. CASE j = i /\ k <= Len(wire[i])
    BY <2>2, <1>t, <1>w DEF MessagesSound
  <2>3. CASE j = i /\ k = Len(wire[i]) + 1
    BY <2>3, <1>w
  <2> QED
    BY <2>1, <2>2, <2>3, <1>w
<1>3. CASE i # current
  BY <1>3, <1>t, <1>v, <1>1, <1>2, TypeFacts
     DEF OnlyTask, IInv, Silent, Linked, Continues, Settled
<1>4. CASE i = current
  <2>1. Silent' /\ Settled'
    BY <1>4, <1>w DEF Silent, Settled, OnlyTask
  <2>2. Linked'
    <3>1. wire'[i][Len(wire'[i])].revision = host'[i].previous
          /\ wire'[i][Len(wire'[i])].sequence = host'[i].sequence
      BY <1>w
    <3>2. ASSUME NEW k \in 2..Len(wire'[i]), wire'[i][k].kind = "patch"
          PROVE  /\ wire'[i][k].base = wire'[i][k-1].revision
                 /\ wire'[i][k].sequence = wire'[i][k-1].sequence + 1
      <4>1. CASE k <= Len(wire[i])
        BY <4>1, <3>2, <1>t, <1>w, <1>4 DEF Linked
      <4>2. CASE k = Len(wire[i]) + 1
        <5>1. wire[i] # <<>> /\ k - 1 = Len(wire[i]) /\ k - 1 \in 1..Len(wire[i])
          BY <4>2, <1>w
        <5>2. /\ wire[i][Len(wire[i])].revision = host[i].previous
              /\ wire[i][Len(wire[i])].sequence = host[i].sequence
          BY <5>1, <1>t, <1>4 DEF Linked
        <5> QED
          BY <5>1, <5>2, <4>2, <3>2, <1>w
      <4> QED
        BY <4>1, <4>2, <1>w
    <3> QED
      BY <3>1, <3>2, <1>4 DEF Linked, OnlyTask
  <2>3. Continues'
    <3>1. CASE wire[i] = <<>>
      <4>1. wire'[i][1] = m
        BY <3>1, <1>w
      <4> QED
        BY <4>1, <3>1, <1>4, <1>t DEF Continues, Settled, OnlyTask
    <3>2. CASE wire[i] # <<>>
      <4>1. wire'[i][1] = wire[i][1]
        BY <3>2, <1>w
      <4> QED
        BY <4>1, <3>2, <1>4, <1>t DEF Continues, OnlyTask
    <3> QED
      BY <3>1, <3>2
  <2> QED
    BY <1>1, <1>2, <2>1, <2>2, <2>3 DEF IInv
<1> QED
  BY <1>3, <1>4

LEMMA SubscribeIInv == ASSUME IInv, NEW i \in Ids, Subscribe(i) PROVE IInv'
<1>t. TypeOK /\ PastOnly
  BY DEF IInv
<1>h. host[i] \in Streams /\ Len(announced) \in Nat /\ host \in [Ids -> Streams]
  BY <1>t, TypeFacts DEF TypeOK
<1>1. host'[i] = [host[i] EXCEPT !.pc = "subscribed", !.position = Len(announced)]
  BY <1>h DEF Subscribe
<1>2. /\ host'[i] \in Streams /\ host'[i].pc = "subscribed" /\ ~(host'[i].pc = "open")
      /\ host'[i].position = Len(announced) /\ host'[i].cancelled = host[i].cancelled
      /\ host'[i].previous = host[i].previous /\ host'[i].sequence = host[i].sequence
  BY <1>h, <1>1 DEF Streams
<1>3. host' \in [Ids -> Streams] /\ \A j \in Ids : j # i => host'[j] = host[j]
  BY <1>h, <1>2 DEF Subscribe
<1>4. OnlyTask(i)
  BY <1>t, <1>h, <1>2, <1>3 DEF OnlyTask, Subscribe, PastOnly, TypeOK, terminal, shown, Latest
<1> QED
  BY <1>2, <1>4, QuietTask DEF Subscribe

LEMMA OpenIInv == ASSUME IInv, NEW i \in Ids, Open(i) PROVE IInv'
<1>t. TypeOK /\ PastOnly
  BY DEF IInv
<1>h. /\ host[i] \in Streams /\ host \in [Ids -> Streams] /\ Latest \in 0..MaxRevision
      /\ host[i].sequence = 0 /\ host[i].position <= Len(announced)
      /\ announced # <<>> => Latest >= announced[Len(announced)]
  <2>1. host[i] \in Streams /\ host \in [Ids -> Streams] /\ Latest \in 0..MaxRevision
    BY <1>t, TypeFacts DEF TypeOK
  <2>2. host[i].sequence = 0 /\ host[i].position <= Len(announced)
    BY <1>t DEF PastOnly, Open
  <2>3. announced # <<>> => Latest >= announced[Len(announced)]
    BY <1>t, <2>1, LastAnnounced
  <2> QED
    BY <2>1, <2>2, <2>3
<1>1. host'[i] = [host[i] EXCEPT !.pc = "open", !.previous = Latest]
  BY <1>h DEF Open
<1>2. /\ host'[i] \in Streams /\ host'[i].pc = "open" /\ host'[i].cancelled = host[i].cancelled
      /\ host'[i].position = host[i].position
      /\ host'[i].previous = Latest /\ host'[i].sequence = 0
  BY <1>h, <1>1 DEF Streams
<1>3. host' \in [Ids -> Streams] /\ \A j \in Ids : j # i => host'[j] = host[j]
  BY <1>h, <1>2 DEF Open
<1>4. OnlyTask(i)
  BY <1>t, <1>h, <1>2, <1>3 DEF OnlyTask, Open, TypeOK, terminal, shown
<1>5. CASE Latest = 0
  BY <1>2, <1>4, <1>5, QuietTask DEF Open
<1>6. CASE Latest # 0
  <2>1. Snapshot(Latest) \in Messages /\ Sound(Snapshot(Latest))
    BY <1>6, <1>h, StreamsOK DEF Snapshot, Messages, Sound
  <2>2. wire' = [wire EXCEPT ![i] = Append(@, Snapshot(Latest))]
    BY <1>6 DEF Open, Send
  <2> QED
    BY <1>2, <1>4, <2>1, <2>2, SendingTask DEF Snapshot
<1> QED
  BY <1>5, <1>6

LEMMA ReconfigureIInv == ASSUME IInv, NEW i \in Ids, Reconfigure(i) PROVE IInv'
<1>t. TypeOK /\ PastOnly /\ CurrentStands /\ UpToDate
  BY DEF IInv
<1>h. /\ host[i] \in Streams /\ host \in [Ids -> Streams] /\ Latest \in 0..MaxRevision
      /\ host[i].position <= Len(announced) /\ host[i].previous <= Latest
      /\ announced # <<>> => Latest >= announced[Len(announced)] /\ Latest # 0
      /\ ops' \in 0..MaxOps
  <2>1. host[i] \in Streams /\ host \in [Ids -> Streams] /\ Latest \in 0..MaxRevision
    BY <1>t, TypeFacts DEF TypeOK
  <2>2. host[i].position <= Len(announced) /\ host[i].previous <= Latest
    BY <1>t DEF PastOnly
  <2>3. announced # <<>> => Latest >= announced[Len(announced)] /\ Latest # 0
    BY <1>t, <2>1, LastAnnounced
  <2>4. ops' \in 0..MaxOps
    BY <1>t, StreamsOK DEF TypeOK, Reconfigure, Op
  <2> QED
    BY <2>1, <2>2, <2>3, <2>4
<1>1. CASE Latest = 0
  <2>1. host' = host /\ wire' = wire
    BY <1>1 DEF Reconfigure
  <2>2. OnlyTask(i)
    BY <1>t, <1>h, <1>1, <2>1 DEF OnlyTask, Reconfigure, terminal, shown
  <2> QED
    BY <2>1, <2>2, QuietTask
<1>2. CASE Latest # 0
  <2>1. host'[i] = [host[i] EXCEPT !.previous = Latest, !.sequence = 0]
    BY <1>2, <1>h DEF Reconfigure
  <2>2. /\ host'[i] \in Streams /\ host'[i].pc = "open"
        /\ host'[i].cancelled = host[i].cancelled
        /\ host'[i].position = host[i].position
        /\ host'[i].previous = Latest /\ host'[i].sequence = 0
    <3>1. host[i].pc = "open"
      BY DEF Reconfigure
    <3>2. /\ host'[i].pc = host[i].pc /\ host'[i].cancelled = host[i].cancelled
          /\ host'[i].position = host[i].position
          /\ host'[i].previous = Latest /\ host'[i].sequence = 0
      BY <1>h, <2>1 DEF Streams
    <3>3. host'[i] = [pc |-> host[i].pc, cancelled |-> host[i].cancelled,
                      position |-> host[i].position, previous |-> Latest, sequence |-> 0]
      BY <1>h, <2>1 DEF Streams
    <3>4. host[i].cancelled \in BOOLEAN /\ host[i].position \in Nat
      BY <1>h DEF Streams
    <3>5. host'[i] \in Streams
      BY <1>h, <3>1, <3>3, <3>4 DEF Streams
    <3> QED
      BY <3>1, <3>2, <3>5
  <2>3. host' \in [Ids -> Streams] /\ \A j \in Ids : j # i => host'[j] = host[j]
    BY <1>2, <1>h, <2>2 DEF Reconfigure
  <2>4. OnlyTask(i)
    BY <1>t, <1>h, <2>2, <2>3 DEF OnlyTask, Reconfigure, terminal, shown
  <2>5. Snapshot(Latest) \in Messages /\ Sound(Snapshot(Latest))
    BY <1>2, <1>h, StreamsOK DEF Snapshot, Messages, Sound
  <2>6. wire' = [wire EXCEPT ![i] = Append(@, Snapshot(Latest))]
    BY <1>2 DEF Reconfigure, Send
  <2> QED
    BY <2>2, <2>4, <2>5, <2>6, SendingTask DEF Snapshot
<1> QED
  BY <1>1, <1>2

LEMMA ForwardIInv == ASSUME IInv, NEW i \in Ids, Forward(i) PROVE IInv'
<1>t. TypeOK /\ PastOnly
  BY DEF IInv
<1> DEFINE r == announced[host[i].position + 1]
           p == host[i].previous
           n == IF Patchable(p, r) THEN host[i].sequence + 1 ELSE 0
           m == IF Patchable(p, r) THEN Patch(p, r, n) ELSE Snapshot(r)
<1>h. /\ host[i] \in Streams /\ host \in [Ids -> Streams] /\ Latest \in 0..MaxRevision
      /\ host[i].position \in Nat /\ host[i].position < Len(announced)
      /\ Len(announced) \in Nat
  <2>1. host[i] \in Streams /\ Latest \in 0..MaxRevision /\ Len(announced) \in Nat
    BY <1>t, TypeFacts, StreamsOK
  <2>2. host \in [Ids -> Streams]
    BY <1>t DEF TypeOK
  <2>3. host[i].position \in Nat
    BY <2>1 DEF Streams
  <2>4. host[i].position < Len(announced)
    BY DEF Forward
  <2> QED
    BY <2>1, <2>2, <2>3, <2>4
<1>r. r \in 1..MaxRevision /\ r \in 1..Latest /\ p \in 0..Latest /\ n \in Nat
      /\ p \in 0..MaxRevision
  <2>1. host[i].position + 1 \in 1..Len(announced)
    BY <1>h
  <2>2. r \in 1..MaxRevision /\ r <= Latest
    BY <1>t, <2>1, TypeFacts DEF PastOnly
  <2>3. p \in 0..MaxRevision /\ p <= Latest /\ host[i].sequence \in Nat
    BY <1>t, <1>h DEF PastOnly, Streams
  <2> QED
    BY <1>h, <2>2, <2>3, StreamsOK
<1>1. host'[i] = [host[i] EXCEPT !.position = @ + 1, !.previous = r, !.sequence = n]
  BY <1>h DEF Forward
<1>2. /\ host'[i] \in Streams /\ host'[i].pc = "open" /\ host[i].pc = "open"
      /\ host'[i].cancelled = host[i].cancelled
      /\ host'[i].position = host[i].position + 1
      /\ host'[i].previous = r /\ host'[i].sequence = n
  <2>1. host[i].pc = "open"
    BY DEF Forward
  <2> DEFINE q == host[i].position + 1
  <2>2. host'[i] = [host[i] EXCEPT !.position = q, !.previous = r, !.sequence = n]
    BY <1>1
  <2>3. q \in Nat /\ r \in 0..MaxRevision /\ n \in Nat /\ host[i] \in Streams
    BY <1>h, <1>r, StreamsOK
  <2> HIDE DEF r, n, q
  <2>4. /\ host'[i] \in Streams /\ host'[i].pc = host[i].pc
        /\ host'[i].cancelled = host[i].cancelled
        /\ host'[i].position = q /\ host'[i].previous = r /\ host'[i].sequence = n
    BY <2>2, <2>3 DEF Streams
  <2> QED
    BY <2>1, <2>4 DEF q
<1>3. host' \in [Ids -> Streams] /\ \A j \in Ids : j # i => host'[j] = host[j]
  BY <1>h, <1>2 DEF Forward
<1>4. OnlyTask(i)
  <2>1. host'[i].position = Len(announced) => host'[i].previous = announced[Len(announced)]
    BY <1>h, <1>2
  <2>2. announced # <<>> => announced[Len(announced)] \in Nat
    BY <1>t, TypeFacts, StreamsOK
  <2> HIDE DEF r, n
  <2>3. ops' \in 0..MaxOps
    BY <1>t DEF TypeOK, Forward
  <2> QED
    BY <1>h, <1>r, <1>2, <1>3, <2>1, <2>2, <2>3 DEF OnlyTask, Forward, terminal, shown
<1>5. /\ m \in Messages /\ Sound(m) /\ m.revision = r /\ m.sequence = n
      /\ m.kind = "patch" => p # 0 /\ m.base = p /\ n = host[i].sequence + 1
  <2> HIDE DEF r, p
  <2>1. CASE Patchable(p, r)
    <3>1. m = Patch(p, r, n)
      BY <2>1
    <3> HIDE DEF m, n
    <3> QED
      BY <2>1, <3>1, <1>r, <1>h, StreamsOK DEF Patchable, Patch, Messages, Sound, n
  <2>2. CASE ~Patchable(p, r)
    <3>1. m = Snapshot(r) /\ n = 0
      BY <2>2
    <3> HIDE DEF m, n
    <3> QED
      BY <3>1, <1>r, <1>h, StreamsOK DEF Snapshot, Messages, Sound
  <2> QED
    BY <2>1, <2>2
<1>6. wire' = [wire EXCEPT ![i] = Append(@, m)]
  BY DEF Forward, Send
<1> HIDE DEF m, n, r
<1> QED
  BY <1>2, <1>4, <1>5, <1>6, SendingTask

LEMMA LaggedIInv == ASSUME IInv, NEW i \in Ids, Lagged(i) PROVE IInv'
<1>t. TypeOK /\ PastOnly
  BY DEF IInv
<1>h. host[i] \in Streams /\ Len(announced) \in Nat /\ host \in [Ids -> Streams]
      /\ host[i].position \in Nat /\ host[i].position < Len(announced) - Capacity
      /\ Capacity \in Nat \ {0}
  BY <1>t, TypeFacts, StreamsOK DEF TypeOK, Lagged, Streams
<1>1. host'[i] = [host[i] EXCEPT !.position = Len(announced) - Capacity]
  BY <1>h DEF Lagged
<1>2. /\ host'[i] \in Streams /\ host'[i].pc = host[i].pc /\ host[i].pc = "open"
      /\ host'[i].position < Len(announced) /\ host'[i].cancelled = host[i].cancelled
      /\ host'[i].previous = host[i].previous /\ host'[i].sequence = host[i].sequence
  <2>1. Len(announced) - Capacity \in Nat /\ Len(announced) - Capacity < Len(announced)
    BY <1>h
  <2>2. host[i].pc = "open"
    BY DEF Lagged
  <2> QED
    BY <1>h, <1>1, <2>1, <2>2 DEF Streams
<1>3. host' \in [Ids -> Streams] /\ \A j \in Ids : j # i => host'[j] = host[j]
  BY <1>h, <1>2 DEF Lagged
<1>4. OnlyTask(i)
  <2>1. host'[i].position <= Len(announced) /\ host'[i].position # Len(announced)
    BY <1>h, <1>2 DEF Streams
  <2>2. host'[i].previous <= Latest
    BY <1>t, <1>2 DEF PastOnly
  <2> QED
    BY <1>t, <1>2, <1>3, <2>1, <2>2 DEF OnlyTask, Lagged, TypeOK, terminal, shown
<1> QED
  BY <1>2, <1>4, QuietTask DEF Lagged

LEMMA StreamStopsIInv == ASSUME IInv, NEW i \in Ids, StreamStops(i) PROVE IInv'
<1>t. TypeOK /\ PastOnly /\ CurrentStands
  BY DEF IInv
<1>h. host[i] \in Streams /\ host \in [Ids -> Streams] /\ i # current
  BY <1>t, TypeFacts DEF TypeOK, StreamStops, CurrentStands
<1>1. host'[i] = [host[i] EXCEPT !.pc = "stopped"]
  BY <1>h DEF StreamStops
<1>2. /\ host'[i] \in Streams /\ host'[i].pc = "stopped"
      /\ host'[i].position = host[i].position /\ host'[i].cancelled = host[i].cancelled
      /\ host'[i].previous = host[i].previous
  BY <1>h, <1>1 DEF Streams
<1>3. host' \in [Ids -> Streams] /\ \A j \in Ids : j # i => host'[j] = host[j]
  BY <1>h, <1>2 DEF StreamStops
<1>4. OnlyTask(i)
  BY <1>t, <1>2, <1>3 DEF OnlyTask, StreamStops, PastOnly, TypeOK, terminal, shown, Latest
<1> QED
  BY <1>h, <1>3, <1>4, QuietTask DEF StreamStops

-----------------------------------------------------------------------------
(* The readers. *)

\* A patch on top of the state it was taken from gives the state it leads to.
LEMMA PatchedFacts ==
    ASSUME TypeOK, NEW m \in Messages, Sound(m), m.kind = "patch", Applies(m)
    PROVE  /\ Patched(m) \in Contents
           /\ replica.content = history[m.base] => Patched(m) = history[m.revision]
<1>1. /\ m.base \in 1..Latest /\ m.revision \in 1..Latest
      /\ history[m.base].shape = history[m.revision].shape
  BY TypeFacts, StreamsOK DEF Sound, Messages
<1>2. /\ history[m.base] \in Contents /\ history[m.revision] \in Contents
      /\ replica.content \in Contents
  BY <1>1, TypeFacts DEF TypeOK, Applies
<1> DEFINE old == history[m.base]
           new == history[m.revision]
<1>3. Patched(m) = [shape |-> replica.content.shape,
                    rows |-> [row \in Rows |-> IF old.rows[row] = new.rows[row]
                                               THEN replica.content.rows[row]
                                               ELSE new.rows[row]]]
  BY DEF Patched
<1>4. old \in Contents /\ new \in Contents /\ old.shape = new.shape
  BY <1>1, <1>2
<1> HIDE DEF old, new
<1>5. Patched(m) \in Contents
  BY <1>2, <1>3, <1>4 DEF Contents
<1>6. ASSUME replica.content = old PROVE Patched(m) = new
  <2>1. new = [shape |-> old.shape, rows |-> new.rows]
    BY <1>4 DEF Contents
  <2>2. /\ new.rows \in [Rows -> Glyphs]
        /\ Patched(m) = [shape |-> old.shape,
                         rows |-> [row \in Rows |-> new.rows[row]]]
    BY <1>3, <1>4, <1>6 DEF Contents
  <2> QED
    BY <2>1, <2>2
<1> QED
  BY <1>5, <1>6 DEF old, new

LEMMA TakenFacts ==
    ASSUME TypeOK, NEW i \in Ids, wire[i] # <<>>, Taken(i)
    PROVE  /\ wire' \in [Ids -> Seq(Messages)] /\ \A j \in Ids : j # i => wire'[j] = wire[j]
           /\ Len(wire[i]) \in Nat \ {0} /\ Len(wire'[i]) = Len(wire[i]) - 1
           /\ \A k \in 1..(Len(wire[i]) - 1) : wire'[i][k] = wire[i][k+1]
           /\ Message(i) = wire[i][1] /\ wire[i][1] \in Messages
<1>1. wire \in [Ids -> Seq(Messages)] /\ wire'[i] = Tail(wire[i])
  BY DEF TypeOK, Taken
<1>2. wire[i] \in Seq(Messages)
  BY <1>1
<1> QED
  BY <1>1, <1>2, TailFacts DEF Taken, Message

\* What a reader disturbs is the replica, its own state and its messages.
LEMMA ReaderFacts ==
    ASSUME IInv, NEW i \in Ids, Deliver(i),
           replica' \in Replicas, replica'.revision # 0 => replica'.content \in Contents,
           replica'.revision <= Latest, viewer' \in [Ids -> Readers],
           \A j \in Ids : j # i => viewer'[j] = viewer[j],
           viewer'[i].cancelled = viewer[i].cancelled,
           viewer'[i].generation = viewer[i].generation, viewer'[i].pc # "left",
           foreign' \subseteq {"late", "refresh"}, faults' \in 0..MaxFaults
    PROVE  /\ TypeOK' /\ PastOnly' /\ MessagesSound' /\ CurrentStands' /\ UpToDate'
           /\ Message(i) = wire[i][1] /\ wire[i][1] \in Messages /\ Sound(wire[i][1])
<1>t. TypeOK /\ PastOnly /\ MessagesSound /\ CurrentStands /\ UpToDate
  BY DEF IInv
<1>u. UNCHANGED <<history, rendering, announced, host, current, generation, live,
                  refreshing, ops>>
  BY DEF Deliver, terminal
<1>w. wire[i] # <<>> /\ Taken(i)
  BY DEF Deliver
<1>1. TypeOK'
  BY <1>t, <1>u, <1>w, TakenFacts DEF TypeOK
<1>2. PastOnly' /\ UpToDate'
  BY <1>t, <1>u DEF PastOnly, UpToDate, Latest
<1>3. MessagesSound' /\ Sound(wire[i][1])
  <2>1. \A j \in Ids : \A k \in 1..Len(wire[j]) : Sound(wire[j][k])
    BY <1>t DEF MessagesSound
  <2>2. /\ \A j \in Ids : j # i => wire'[j] = wire[j]
        /\ Len(wire[i]) \in Nat \ {0} /\ Len(wire'[i]) = Len(wire[i]) - 1
        /\ \A k \in 1..(Len(wire[i]) - 1) : wire'[i][k] = wire[i][k+1]
    BY <1>t, <1>w, TakenFacts
  <2>3. ASSUME NEW k \in 1..Len(wire'[i]) PROVE Sound(wire'[i][k])
    <3>1. k \in 1..(Len(wire[i]) - 1) /\ k + 1 \in 1..Len(wire[i])
      BY <2>2
    <3>2. Sound(wire[i][k+1])
      BY <2>1, <3>1
    <3> QED
      BY <2>2, <3>1, <3>2
  <2>4. \A j \in Ids : \A k \in 1..Len(wire'[j]) : Sound(wire'[j][k])
    BY <2>1, <2>2, <2>3
  <2>5. MessagesSound'
    BY <2>4, <1>u DEF MessagesSound, Sound, Latest
  <2> QED
    BY <2>1, <2>2, <2>5
<1>4. CurrentStands'
  <2>1. \A j \in Ids : j > current => wire'[j] = <<>> /\ host[j].pc = "idle"
    <3>1. \A j \in Ids : j # i => wire'[j] = wire[j]
      BY <1>t, <1>w, TakenFacts
    <3>2. \A j \in Ids : j > current => wire[j] = <<>> /\ host[j].pc = "idle"
      BY <1>t DEF CurrentStands
    <3> QED
      BY <1>w, <3>1, <3>2
  <2>2. /\ viewer'[current].cancelled = viewer[current].cancelled
        /\ viewer'[current].generation = viewer[current].generation
        /\ viewer'[current].pc # "left"
    <3>1. CASE i = current
      BY <3>1
    <3>2. CASE i # current
      BY <3>2, <1>t, TypeFacts DEF CurrentStands
    <3> QED
      BY <3>1, <3>2
  <2>3. ~viewer[current].cancelled
    BY <1>t DEF CurrentStands
  <2>4. ~viewer'[current].cancelled
    BY <2>2, <2>3
  <2> QED
    BY <2>1, <2>2, <2>4, <1>t, <1>u DEF CurrentStands
<1> QED
  BY <1>1, <1>2, <1>3, <1>4, <1>t, <1>w, TakenFacts

LEMMA ReaderFields ==
    ASSUME NEW v \in Readers
    PROVE  LET s == [v EXCEPT !.synchronized = TRUE]
               f == [v EXCEPT !.pc = "failed"] IN
           /\ s.pc = v.pc /\ s.cancelled = v.cancelled /\ s.generation = v.generation
           /\ s.synchronized
           /\ f.pc = "failed" /\ f.cancelled = v.cancelled /\ f.generation = v.generation
           /\ f.synchronized = v.synchronized
<1> DEFINE s == [v EXCEPT !.synchronized = TRUE]
           f == [v EXCEPT !.pc = "failed"]
<1>1. s.pc = v.pc /\ s.generation = v.generation
  BY DEF Readers
<1>2. s.cancelled = v.cancelled
  BY DEF Readers
<1>3. s.synchronized
  BY DEF Readers
<1>4. f.pc = "failed" /\ f.generation = v.generation
  BY DEF Readers
<1>5. f.cancelled = v.cancelled
  BY DEF Readers
<1>6. f.synchronized = v.synchronized
  BY DEF Readers
<1> QED
  BY <1>1, <1>2, <1>3, <1>4, <1>5, <1>6

LEMMA DeliverFacts ==
    ASSUME IInv, NEW i \in Ids, Deliver(i)
    PROVE  /\ TypeOK' /\ PastOnly' /\ MessagesSound' /\ CurrentStands' /\ UpToDate'
           /\ Message(i) = wire[i][1] /\ wire[i][1] \in Messages /\ Sound(wire[i][1])
<1>t. TypeOK /\ PastOnly /\ MessagesSound
  BY DEF IInv
<1>w. /\ wire[i] # <<>> /\ Message(i) = wire[i][1] /\ wire[i][1] \in Messages
      /\ Sound(Message(i)) /\ viewer[i].pc = "reading" /\ viewer[i] \in Readers
      /\ viewer \in [Ids -> Readers]
  <2>1. wire[i] # <<>> /\ Taken(i) /\ viewer[i].pc = "reading"
    BY DEF Deliver
  <2>2. Message(i) = wire[i][1] /\ wire[i][1] \in Messages /\ Len(wire[i]) \in Nat \ {0}
    BY <1>t, <2>1, TakenFacts
  <2>3. viewer[i] \in Readers /\ viewer \in [Ids -> Readers]
    BY <1>t DEF TypeOK
  <2> QED
    BY <1>t, <2>1, <2>2, <2>3 DEF MessagesSound
<1>m. Message(i).revision \in 1..Latest /\ history[Message(i).revision] \in Contents
      /\ Message(i).revision \in 0..MaxRevision /\ Message(i).revision <= Latest
      /\ Message(i).sequence \in Nat
  BY <1>t, <1>w, TypeFacts, StreamsOK DEF Sound, Messages
<1>r. /\ replica.revision # 0 => replica.content \in Contents
      /\ replica \in Replicas /\ replica.revision <= Latest /\ foreign \subseteq {"late", "refresh"}
      /\ faults \in 0..MaxFaults
  BY <1>t DEF TypeOK, PastOnly
<1>1. CASE Publish(i) /\ UNCHANGED faults
  <2>1. /\ replica' \in Replicas /\ replica'.revision <= Latest
        /\ replica'.revision # 0 => replica'.content \in Contents
    BY <1>1, <1>m, StreamsOK DEF Publish, Replicas
  <2>2. /\ viewer' \in [Ids -> Readers] /\ \A j \in Ids : j # i => viewer'[j] = viewer[j]
        /\ viewer'[i] = [viewer[i] EXCEPT !.synchronized = TRUE]
    BY <1>1, <1>w DEF Publish, Readers
  <2>3. /\ viewer'[i].cancelled = viewer[i].cancelled
        /\ viewer'[i].generation = viewer[i].generation /\ viewer'[i].pc # "left"
    BY <1>w, <2>2, ReaderFields
  <2>4. foreign' \subseteq {"late", "refresh"} /\ faults' \in 0..MaxFaults
    BY <1>1, <1>r DEF Publish
  <2> QED
    BY <2>1, <2>2, <2>3, <2>4, ReaderFacts
<1>2. CASE PublishPatch(i) /\ UNCHANGED faults
  <2>1. Patched(Message(i)) \in Contents
    BY <1>2, <1>t, <1>w, PatchedFacts DEF PublishPatch
  <2>2. /\ replica' \in Replicas /\ replica'.revision <= Latest
        /\ replica'.revision # 0 => replica'.content \in Contents
    BY <1>2, <1>m, <2>1 DEF PublishPatch, Replicas
  <2>3. foreign' \subseteq {"late", "refresh"} /\ faults' \in 0..MaxFaults /\ viewer' = viewer
    BY <1>2, <1>r DEF PublishPatch, Late
  <2> QED
    BY <1>w, <2>2, <2>3, ReaderFacts
<1>3. CASE Refuse(i)
  <2>1. /\ viewer' \in [Ids -> Readers] /\ \A j \in Ids : j # i => viewer'[j] = viewer[j]
        /\ viewer'[i] = [viewer[i] EXCEPT !.pc = "failed"]
    BY <1>3, <1>w DEF Refuse, Readers
  <2>2. /\ viewer'[i].cancelled = viewer[i].cancelled
        /\ viewer'[i].generation = viewer[i].generation /\ viewer'[i].pc # "left"
    BY <1>w, <2>1, ReaderFields
  <2>3. replica' = replica /\ foreign' = foreign /\ faults' \in 0..MaxFaults
    BY <1>3, <1>r, StreamsOK DEF Refuse, shown, Fault
  <2> QED
    BY <1>r, <2>1, <2>2, <2>3, ReaderFacts
<1>4. CASE UNCHANGED <<shown, viewer, faults>>
  BY <1>4, <1>r, <1>w, ReaderFacts DEF shown
<1> QED
  BY <1>1, <1>2, <1>3, <1>4 DEF Deliver

\* The reader of a feed that has been replaced leaves its mark.
LEMMA LateDeliverIInv ==
    ASSUME IInv, NEW i \in Ids, Deliver(i), i # current PROVE IInv'
<1>t. /\ TypeOK /\ PastOnly /\ Silent /\ Linked /\ Continues /\ Settled
      /\ ReplicaIsHostState
  BY DEF IInv
<1>1. UNCHANGED <<history, host, current>> /\ wire'[current] = wire[current]
      /\ viewer'[current] = viewer[current]
  <2>1. wire'[current] = wire[current]
    BY <1>t, TypeFacts, TakenFacts DEF Deliver
  <2>2. viewer'[current] = viewer[current]
    BY <1>t, TypeFacts DEF Deliver, Publish, PublishPatch, Refuse, TypeOK
  <2> QED
    BY <2>1, <2>2 DEF Deliver, terminal
<1>2. \/ UNCHANGED <<replica, foreign>>
      \/ "late" \in foreign'
  BY DEF Deliver, Publish, PublishPatch, Refuse, Feeds, Late, shown
<1>3. Silent' /\ Linked'
  BY <1>t, <1>1 DEF Silent, Linked
<1>4. Continues' /\ Settled' /\ ReplicaIsHostState'
  <2>1. CASE UNCHANGED <<replica, foreign>>
    BY <2>1, <1>t, <1>1 DEF Continues, Settled, ReplicaIsHostState
  <2>2. CASE "late" \in foreign'
    <3>1. foreign' # {}
      BY <2>2
    <3> QED
      BY <2>2, <3>1, <1>t, <1>1 DEF Continues, Settled, ReplicaIsHostState
  <2> QED
    BY <1>2, <2>1, <2>2
<1> QED
  BY <1>3, <1>4, DeliverFacts DEF IInv

\* The current feed's reader: what it takes is what the replica waits for.
LEMMA CurrentDeliverIInv ==
    ASSUME IInv, NEW i \in Ids, Deliver(i), i = current PROVE IInv'
<1> DEFINE q == wire[i]
           m == wire[i][1]
<1>t. /\ TypeOK /\ PastOnly /\ CurrentStands /\ Silent /\ Linked /\ Continues /\ Settled
      /\ ReplicaIsHostState
  BY DEF IInv
<1>f. /\ TypeOK' /\ PastOnly' /\ MessagesSound' /\ CurrentStands' /\ UpToDate'
      /\ Message(i) = m /\ m \in Messages /\ Sound(m)
  BY DeliverFacts
<1>u. UNCHANGED <<history, host, current, generation>> /\ current' = i
  BY DEF Deliver, terminal
<1>w. /\ Len(q) \in Nat \ {0} /\ Len(wire'[i]) = Len(q) - 1 /\ q # <<>>
      /\ \A k \in 1..(Len(q) - 1) : wire'[i][k] = q[k+1]
      /\ wire'[i] \in Seq(Messages)
  <2>1. wire[i] # <<>> /\ Taken(i)
    BY DEF Deliver
  <2> QED
    BY <1>t, <2>1, TakenFacts
<1>o. host[i].pc = "open" /\ host'[i].pc = "open"
  BY <1>t, <1>w, <1>u DEF Silent
<1>a. Feeds(i) /\ Admitted(i)
  BY <1>t DEF Feeds, Admitted, CurrentStands
<1>1. Silent'
  BY <1>o, <1>u DEF Silent
<1>2. Linked'
  <2>1. ASSUME NEW k \in 2..Len(wire'[i]), wire'[i][k].kind = "patch"
        PROVE  /\ wire'[i][k].base = wire'[i][k-1].revision
               /\ wire'[i][k].sequence = wire'[i][k-1].sequence + 1
    <3>1. /\ wire'[i][k] = q[k+1] /\ wire'[i][k-1] = q[(k-1)+1] /\ (k-1)+1 = k
          /\ (k+1)-1 = k /\ k+1 \in 2..Len(q)
      <4>1. /\ k \in 1..(Len(q) - 1) /\ k - 1 \in 1..(Len(q) - 1)
            /\ (k-1)+1 = k /\ (k+1)-1 = k /\ k+1 \in 2..Len(q)
        BY <1>w
      <4> QED
        BY <4>1, <1>w
    <3> QED
      BY <3>1, <2>1, <1>t DEF Linked
  <2>2. ASSUME wire'[i] # <<>>
        PROVE  wire'[i][Len(wire'[i])] = q[Len(q)]
    <3>1. Len(wire'[i]) \in 1..(Len(q) - 1) /\ Len(wire'[i]) + 1 = Len(q)
      BY <2>2, <1>w
    <3> QED
      BY <3>1, <1>w
  <2>3. /\ q[Len(q)].revision = host[i].previous
        /\ q[Len(q)].sequence = host[i].sequence
    BY <1>t, <1>w DEF Linked
  <2> QED
    BY <2>1, <2>2, <2>3, <1>u DEF Linked
\* What the messages left over continue, once the first has been applied.
<1>3. ASSUME viewer'[i].synchronized,
             "late" \notin foreign' => replica'.revision = m.revision,
             foreign' = {} => replica'.sequence = m.sequence
      PROVE  Continues' /\ Settled'
  <2>1. CASE wire'[i] = <<>>
    <3>1. Len(q) = 1 /\ m = q[Len(q)]
      BY <2>1, <1>w
    <3>2. m.revision = host[i].previous /\ m.sequence = host[i].sequence
      BY <3>1, <1>t, <1>w DEF Linked
    <3> QED
      BY <2>1, <3>2, <1>3, <1>u DEF Continues, Settled
  <2>2. CASE wire'[i] # <<>>
    <3>1. wire'[i][1] = q[2] /\ 2 \in 2..Len(q) /\ 2 - 1 = 1
      BY <2>2, <1>w
    <3>2. q[2].kind = "patch" => q[2].base = m.revision /\ q[2].sequence = m.sequence + 1
      BY <3>1, <1>t DEF Linked
    <3> QED
      BY <2>2, <3>1, <3>2, <1>3, <1>u DEF Continues, Settled
  <2> QED
    BY <2>1, <2>2
<1>4. CASE Publish(i)
  <2>1. /\ replica'.revision = m.revision /\ replica'.sequence = 0 /\ m.sequence = 0
        /\ replica'.content = history[m.revision]
    BY <1>4, <1>f DEF Publish, Sound
  <2>2. viewer'[i].synchronized
    <3>1. viewer[i] \in Readers /\ viewer'[i] = [viewer[i] EXCEPT !.synchronized = TRUE]
      BY <1>4, <1>t DEF Publish, TypeOK
    <3> QED
      BY <3>1, ReaderFields
  <2>3. Continues' /\ Settled'
    BY <2>1, <2>2, <1>3
  <2>4. ReplicaIsHostState'
    BY <2>1, <1>u DEF ReplicaIsHostState
  <2> QED
    BY <2>3, <2>4, <1>1, <1>2, <1>f DEF IInv
<1>5. CASE PublishPatch(i)
  <2>1. /\ m.kind = "patch" /\ Applies(m) /\ viewer' = viewer /\ foreign' = foreign
        /\ replica'.revision = m.revision /\ replica'.sequence = m.sequence
        /\ replica'.content = Patched(m)
    BY <1>5, <1>f, <1>a DEF PublishPatch, Late
  <2>2. /\ viewer[i].synchronized
        /\ "late" \notin foreign => m.base = replica.revision
    BY <2>1, <1>t, <1>w DEF Continues, Deliver
  <2>3. Continues' /\ Settled'
    BY <2>1, <2>2, <1>3
  <2>4. ReplicaIsHostState'
    <3>1. "late" \notin foreign => replica.content = history[m.base]
      BY <2>1, <2>2, <1>t DEF ReplicaIsHostState, Applies
    <3>2. "late" \notin foreign => Patched(m) = history[m.revision]
      BY <2>1, <3>1, <1>t, <1>f, PatchedFacts
    <3> QED
      BY <2>1, <3>2, <1>u DEF ReplicaIsHostState
  <2> QED
    BY <2>3, <2>4, <1>1, <1>2, <1>f DEF IInv
<1>6. CASE Refuse(i)
  <2>1. (viewer[current].pc)' = "failed"
    <3>1. viewer[i] \in Readers /\ viewer'[i] = [viewer[i] EXCEPT !.pc = "failed"]
      <4>1. viewer \in [Ids -> Readers]
        BY <1>t DEF TypeOK
      <4> QED
        BY <1>6, <4>1 DEF Refuse
    <3>2. viewer'[i].pc = "failed"
      BY <3>1, ReaderFields
    <3> QED
      BY <3>2, <1>u
  <2>2. Continues' /\ Settled' /\ ReplicaIsHostState'
    BY <2>1, <1>6, <1>t, <1>u DEF Continues, Settled, ReplicaIsHostState, Refuse, shown
  <2> QED
    BY <2>2, <1>1, <1>2, <1>f DEF IInv
<1> QED
  BY <1>4, <1>5, <1>6, <1>a DEF Deliver

LEMMA ReaderStopsIInv == ASSUME IInv, NEW i \in Ids, ReaderStops(i) PROVE IInv'
<1>t. /\ TypeOK /\ PastOnly /\ MessagesSound /\ CurrentStands /\ Silent /\ Linked
      /\ Continues /\ Settled /\ UpToDate /\ ReplicaIsHostState
  BY DEF IInv
<1>u. UNCHANGED <<history, rendering, announced, host, wire, current, generation, live,
                  refreshing, replica, foreign, faults, ops>>
  BY DEF ReaderStops, terminal, shown
<1>1. i # current
  BY <1>t DEF ReaderStops, CurrentStands
<1>2. viewer' \in [Ids -> Readers] /\ viewer'[current] = viewer[current]
  <2>1. viewer \in [Ids -> Readers] /\ [viewer[i] EXCEPT !.pc = "left"] \in Readers
    BY <1>t DEF TypeOK, Readers
  <2>2. viewer' = [viewer EXCEPT ![i] = [viewer[i] EXCEPT !.pc = "left"]]
    BY DEF ReaderStops
  <2> QED
    BY <1>1, <1>t, <2>1, <2>2, TypeFacts
<1>3. TypeOK'
  BY <1>t, <1>u, <1>2 DEF TypeOK
<1>4. /\ PastOnly' /\ MessagesSound' /\ UpToDate' /\ ReplicaIsHostState'
      /\ CurrentStands' /\ Silent' /\ Linked' /\ Continues' /\ Settled'
  BY <1>t, <1>u, <1>2 DEF PastOnly, MessagesSound, Sound, Latest, UpToDate,
     ReplicaIsHostState, CurrentStands, Silent, Linked, Continues, Settled
<1> QED
  BY <1>3, <1>4 DEF IInv

LEMMA LossIInv == ASSUME IInv, NEW i \in Ids, Loss(i) PROVE IInv'
<1>t. /\ TypeOK /\ PastOnly /\ MessagesSound /\ CurrentStands /\ Silent /\ Linked
      /\ UpToDate /\ ReplicaIsHostState
  BY DEF IInv
<1>u. UNCHANGED <<history, rendering, announced, host, wire, current, generation, live,
                  refreshing, replica, foreign, ops>>
  BY DEF Loss, terminal, shown
<1>1. i = current /\ faults' \in 0..MaxFaults
  BY <1>t, StreamsOK DEF Loss, Feeds, Fault, TypeOK
<1>2. /\ viewer' \in [Ids -> Readers] /\ viewer[i] \in Readers
      /\ viewer'[i] = [viewer[i] EXCEPT !.pc = "failed"]
  <2>1. viewer \in [Ids -> Readers] /\ [viewer[i] EXCEPT !.pc = "failed"] \in Readers
    BY <1>t DEF TypeOK, Readers
  <2>2. viewer' = [viewer EXCEPT ![i] = [viewer[i] EXCEPT !.pc = "failed"]]
    BY DEF Loss
  <2> QED
    BY <2>1, <2>2
<1>3. /\ viewer'[current].pc = "failed"
      /\ viewer'[current].generation = viewer[current].generation
      /\ viewer'[current].synchronized = viewer[current].synchronized
      /\ viewer'[current].cancelled = viewer[current].cancelled
  BY <1>1, <1>2, ReaderFields
<1>4. TypeOK'
  BY <1>t, <1>u, <1>1, <1>2 DEF TypeOK
<1>5. PastOnly' /\ MessagesSound' /\ UpToDate' /\ ReplicaIsHostState' /\ Linked'
  BY <1>t, <1>u DEF PastOnly, MessagesSound, Sound, Latest, UpToDate, ReplicaIsHostState,
     Linked
<1>6. CurrentStands'
  <2>1. ~viewer[current].cancelled
    BY <1>t DEF CurrentStands
  <2>2. ~viewer'[current].cancelled
    BY <1>3, <2>1
  <2> QED
    BY <1>t, <1>u, <1>3, <2>2 DEF CurrentStands
<1>7. Silent'
  <2>1. CASE host[current].pc = "open"
    BY <2>1, <1>u DEF Silent
  <2>2. CASE host[current].pc # "open"
    <3>1. wire[current] = <<>> /\ ~viewer[current].synchronized
      BY <2>2, <1>t DEF Silent
    <3>2. ~viewer'[current].synchronized
      BY <1>3, <3>1
    <3> QED
      BY <3>1, <3>2, <1>u DEF Silent
  <2> QED
    BY <2>1, <2>2
<1>8. Continues' /\ Settled'
  BY <1>3, <1>u DEF Continues, Settled
<1> QED
  BY <1>4, <1>5, <1>6, <1>7, <1>8 DEF IInv

-----------------------------------------------------------------------------
(* The session around the feed. *)

LEMMA FeedIInv ==
    ASSUME IInv, NEW g \in Nat, Feed(g), live' \in BOOLEAN, ops' \in 0..MaxOps,
           UNCHANGED <<terminal, refreshing, shown, faults>>
    PROVE  IInv'
<1>t. /\ TypeOK /\ PastOnly /\ MessagesSound /\ CurrentStands /\ ReplicaIsHostState
  BY DEF IInv
<1> DEFINE c == current + 1
<1>u. /\ UNCHANGED <<history, rendering, announced, wire, refreshing, replica, foreign,
                     faults>>
      /\ current' = c /\ generation' = g
  BY DEF Feed, terminal, shown
<1>c. c \in Ids /\ current \in Nat /\ c > current
  BY <1>t, StreamsOK DEF TypeOK, Ids, Feed
<1>n. /\ Task("opening") \in Streams /\ Task("opening").pc = "opening"
      /\ ~Task("opening").cancelled /\ Task("opening").position = 0
      /\ Task("opening").previous = 0 /\ Task("opening").sequence = 0
      /\ Reader(g) \in Readers /\ Reader(g).pc = "reading" /\ ~Reader(g).cancelled
      /\ Reader(g).generation = g /\ ~Reader(g).synchronized
  BY StreamsOK DEF Task, Streams, Reader, Readers
<1>h. /\ host' \in [Ids -> Streams] /\ host'[c] = Task("opening")
      /\ \A i \in Ids : i # c => /\ host'[i].pc = host[i].pc
                                 /\ host'[i].position = host[i].position
                                 /\ host'[i].previous = host[i].previous
                                 /\ host'[i].sequence = host[i].sequence
  <2>1. \A i \in Ids : /\ host[i] \in Streams
                       /\ host'[i] = IF i = c THEN Task("opening")
                                     ELSE [host[i] EXCEPT !.cancelled = TRUE]
    BY <1>t, TypeFacts DEF Feed
  <2>2. \A v \in Streams : LET w == [v EXCEPT !.cancelled = TRUE] IN
          /\ w \in Streams /\ w.pc = v.pc /\ w.position = v.position
          /\ w.previous = v.previous /\ w.sequence = v.sequence
    BY DEF Streams
  <2>3. host' = [i \in Ids |-> host'[i]]
    BY DEF Feed
  <2>4. \A i \in Ids : host'[i] \in Streams
    BY <1>n, <2>1, <2>2
  <2> HIDE DEF c
  <2> QED
    BY <1>c, <2>1, <2>2, <2>3, <2>4
<1>v. viewer' \in [Ids -> Readers] /\ viewer'[c] = Reader(g)
  <2>1. \A v \in Readers : [v EXCEPT !.cancelled = TRUE] \in Readers
    BY DEF Readers
  <2>2. \A i \in Ids : viewer[i] \in Readers
    BY <1>t, TypeFacts
  <2>3. viewer' = [i \in Ids |-> IF i <= current THEN [viewer[i] EXCEPT !.cancelled = TRUE]
                                 ELSE Reader(g)]
    BY DEF Feed
  <2> QED
    BY <1>c, <1>n, <2>1, <2>2, <2>3
<1>w. wire[c] = <<>> /\ \A i \in Ids : i > c => wire[i] = <<>> /\ host[i].pc = "idle"
  BY <1>t, <1>c DEF CurrentStands, Ids
<1> HIDE DEF c
<1>1. TypeOK'
  BY <1>t, <1>u, <1>c, <1>h, <1>v DEF TypeOK
<1>2. PastOnly'
  <2>1. \A i \in Ids : /\ host'[i].position <= Len(announced) /\ host'[i].previous <= Latest
                       /\ host'[i].pc \in {"opening", "subscribed"} => host'[i].sequence = 0
    BY <1>t, <1>h, <1>n, <1>c, TypeFacts DEF PastOnly
  <2> QED
    BY <2>1, <1>t, <1>u DEF PastOnly, Latest
<1>3. MessagesSound' /\ ReplicaIsHostState'
  BY <1>t, <1>u DEF MessagesSound, Sound, Latest, ReplicaIsHostState
<1>4. CurrentStands'
  <2>1. \A i \in Ids : i > c => wire[i] = <<>> /\ host'[i].pc = "idle"
    BY <1>w, <1>h, <1>c DEF Ids
  <2> QED
    BY <2>1, <1>u, <1>h, <1>v, <1>n DEF CurrentStands
<1>5. Silent' /\ Linked' /\ Continues' /\ Settled' /\ UpToDate'
  BY <1>u, <1>w, <1>h, <1>v, <1>n DEF Silent, Linked, Continues, Settled, UpToDate
<1> QED
  BY <1>1, <1>2, <1>3, <1>4, <1>5 DEF IInv

LEMMA RefreshLocalIInv == ASSUME IInv, RefreshLocal PROVE IInv'
<1>t. /\ TypeOK /\ PastOnly /\ MessagesSound /\ CurrentStands /\ Silent /\ Linked
      /\ Continues /\ Settled /\ UpToDate /\ ReplicaIsHostState
  BY DEF IInv
<1>u. UNCHANGED <<history, rendering, announced, host, wire, viewer, current, generation,
                  live, faults, ops>> /\ refreshing' = FALSE
  BY DEF RefreshLocal, terminal, streams
<1>1. CASE UNCHANGED shown
  <2>1. replica' = replica /\ foreign' = foreign
    BY <1>1 DEF shown
  <2>2. TypeOK'
    BY <1>t, <1>u, <2>1 DEF TypeOK
  <2>3. /\ PastOnly' /\ MessagesSound' /\ UpToDate' /\ ReplicaIsHostState'
        /\ CurrentStands' /\ Silent' /\ Linked' /\ Continues' /\ Settled'
    BY <1>t, <1>u, <2>1 DEF PastOnly, MessagesSound, Sound, Latest, UpToDate,
       ReplicaIsHostState, CurrentStands, Silent, Linked, Continues, Settled
  <2> QED
    BY <2>2, <2>3 DEF IInv
<1>2. CASE ~UNCHANGED shown
  <2>1. /\ replica \in Replicas /\ replica.revision # 0
        /\ replica' = [replica EXCEPT !.sequence = 0]
        /\ foreign' = IF replica.sequence = 0 THEN foreign ELSE foreign \cup {"refresh"}
    BY <1>2, <1>t DEF RefreshLocal, TypeOK
  <2>2. /\ replica' \in Replicas /\ replica'.revision = replica.revision
        /\ replica'.content = replica.content /\ replica'.sequence = 0
    BY <2>1 DEF Replicas
  <2>3. /\ foreign' \subseteq {"late", "refresh"}
        /\ "late" \in foreign' <=> "late" \in foreign
        /\ foreign' = {} => foreign = {} /\ replica.sequence = 0
    BY <2>1, <1>t DEF TypeOK
  <2>4. TypeOK'
    BY <1>t, <1>u, <2>2, <2>3 DEF TypeOK
  <2>5. PastOnly' /\ ReplicaIsHostState'
    BY <1>t, <1>u, <2>2, <2>3 DEF PastOnly, ReplicaIsHostState, Latest
  <2>6. /\ MessagesSound' /\ UpToDate' /\ CurrentStands' /\ Silent' /\ Linked'
    BY <1>t, <1>u DEF MessagesSound, Sound, Latest, UpToDate, CurrentStands, Silent, Linked
  <2>7. Continues' /\ Settled'
    BY <1>t, <1>u, <2>2, <2>3 DEF Continues, Settled
  <2> QED
    BY <2>4, <2>5, <2>6, <2>7 DEF IInv
<1> QED
  BY <1>1, <1>2

-----------------------------------------------------------------------------

LEMMA NextIInv == ASSUME IInv, [Next]_vars PROVE IInv'
<1>t. TypeOK /\ generation \in Nat
  BY DEF IInv, TypeOK
<1>1. CASE UNCHANGED vars
  <2>1. UNCHANGED <<history, rendering, announced, host, wire, viewer, current, generation,
                    live, refreshing, replica, foreign, faults, ops>>
    BY <1>1 DEF vars, terminal, streams, shown
  <2>2. TypeOK'
    BY <1>t, <2>1 DEF TypeOK
  <2>3. /\ PastOnly' /\ MessagesSound' /\ UpToDate' /\ ReplicaIsHostState'
        /\ CurrentStands' /\ Silent' /\ Linked' /\ Continues' /\ Settled'
    BY <2>1 DEF IInv, PastOnly, MessagesSound, Sound, Latest, UpToDate,
       ReplicaIsHostState, CurrentStands, Silent, Linked, Continues, Settled
  <2> QED
    BY <2>2, <2>3 DEF IInv
<1>2. CASE CommitLive \/ RefreshLooks
  <2>1. /\ UNCHANGED <<history, rendering, announced, host, wire, viewer, current,
                       generation, replica, foreign, faults>>
        /\ live' \in BOOLEAN /\ refreshing' \in BOOLEAN /\ ops' \in 0..MaxOps
    <3>1. live \in BOOLEAN /\ refreshing \in BOOLEAN /\ ops \in 0..MaxOps
      BY <1>t DEF TypeOK
    <3>2. CASE CommitLive
      BY <3>1, <3>2 DEF CommitLive, terminal, streams, shown
    <3>3. CASE RefreshLooks
      <4>1. ops' \in 0..MaxOps
        BY <3>1, <3>3, StreamsOK DEF RefreshLooks, Op
      <4> QED
        BY <3>1, <3>3, <4>1 DEF RefreshLooks, terminal, streams, shown
    <3> QED
      BY <1>2, <3>2, <3>3
  <2>2. TypeOK'
    BY <1>t, <2>1 DEF TypeOK
  <2>3. /\ PastOnly' /\ MessagesSound' /\ UpToDate' /\ ReplicaIsHostState'
        /\ CurrentStands' /\ Silent' /\ Linked' /\ Continues' /\ Settled'
    BY <2>1 DEF IInv, PastOnly, MessagesSound, Sound, Latest, UpToDate,
       ReplicaIsHostState, CurrentStands, Silent, Linked, Continues, Settled
  <2> QED
    BY <2>2, <2>3 DEF IInv
<1>3. CASE Resume
  <2>1. generation + 1 \in Nat /\ Feed(generation + 1) /\ ops' = ops
    BY <1>3, <1>t DEF Resume
  <2>2. live' \in BOOLEAN
    BY <1>3 DEF Resume
  <2> QED
    BY <1>3, <1>t, <2>1, <2>2, FeedIInv DEF Resume, TypeOK
<1>4. CASE RefreshRemote
  <2>1. generation + 1 \in Nat /\ Feed(generation + 1) /\ ops' \in 0..MaxOps
    BY <1>4, <1>t, StreamsOK DEF RefreshRemote, TypeOK, Op
  <2>2. live' \in BOOLEAN
    BY <1>4 DEF RefreshRemote
  <2> QED
    BY <1>4, <2>1, <2>2, FeedIInv DEF RefreshRemote
<1>5. CASE Reattach
  <2>1. Feed(generation) /\ live' \in BOOLEAN /\ ops' \in 0..MaxOps
    BY <1>5, <1>t, StreamsOK DEF Reattach, TypeOK, Op
  <2> QED
    BY <1>5, <1>t, <2>1, FeedIInv DEF Reattach
<1>6. ASSUME NEW c \in Contents, Render(c) PROVE IInv'
  BY <1>6, RenderIInv
<1>7. ASSUME NEW i \in Ids,
             \/ Subscribe(i) \/ Open(i) \/ Reconfigure(i) \/ Forward(i) \/ Lagged(i)
             \/ StreamStops(i) \/ Deliver(i) \/ ReaderStops(i) \/ Loss(i)
      PROVE IInv'
  BY <1>7, SubscribeIInv, OpenIInv, ReconfigureIInv, ForwardIInv, LaggedIInv,
     StreamStopsIInv, LateDeliverIInv, CurrentDeliverIInv, ReaderStopsIInv, LossIInv
<1> QED
  BY <1>1, <1>2, <1>3, <1>4, <1>5, <1>6, <1>7, AnnounceIInv, RefreshLocalIInv DEF Next

\* Every variable stays within its type: the replica never holds anything but a
\* whole terminal state once it has been published to.
THEOREM TypeCorrect == Spec => []TypeOK
<1>1. IInv => TypeOK
  BY DEF IInv
<1> QED
  BY InitIInv, NextIInv, <1>1, PTL DEF Spec

\* The replica shows a state the host was in, whole, whatever was lost, merged,
\* lagged or refused on the way, as long as no reader of a feed replaced in the
\* same generation has published.
THEOREM ReplicaCorrect == Spec => []ReplicaIsHostState
<1>1. IInv => ReplicaIsHostState
  BY DEF IInv
<1> QED
  BY InitIInv, NextIInv, <1>1, PTL DEF Spec

\* A feed that has sent and delivered all leaves the replica at what was
\* announced last, also when the ring overflowed.
THEOREM FeedCatchesUp == Spec => []CaughtUp
<1>1. IInv => CaughtUp
  <2> SUFFICES ASSUME IInv, host[current].pc = "open",
                      host[current].position = Len(announced),
                      viewer[current].pc = "reading", wire[current] = <<>>,
                      foreign = {}, announced # <<>>
               PROVE  replica.revision >= announced[Len(announced)]
    BY DEF CaughtUp
  <2>1. host[current].previous >= announced[Len(announced)]
        /\ announced[Len(announced)] \in 1..Latest /\ host[current].previous \in Nat
    BY LastAnnounced, TypeFacts, StreamsOK DEF IInv, UpToDate, Streams
  <2>2. host[current].previous # 0
    BY <2>1, StreamsOK
  <2>3. viewer[current].synchronized
    BY <2>2 DEF IInv, Settled
  <2>4. replica.revision = host[current].previous
    BY <2>3 DEF IInv, Settled
  <2> QED
    BY <2>1, <2>4
<1> QED
  BY InitIInv, NextIInv, <1>1, PTL DEF Spec

\* The feed's next patch applies: a session is not torn down by its own feed.
THEOREM PatchesApply == Spec => []FeedApplies
<1>1. IInv => FeedApplies
  <2> SUFFICES ASSUME IInv, viewer[current].pc = "reading", wire[current] # <<>>,
                      Message(current).kind = "patch", foreign = {}
               PROVE  Applies(Message(current))
    BY DEF FeedApplies
  <2> DEFINE m == Message(current)
  <2>1. /\ m = wire[current][1] /\ m \in Messages /\ Sound(m) /\ current \in Ids
    <3>1. /\ current \in Ids /\ wire[current] \in Seq(Messages)
          /\ Len(wire[current]) \in Nat
      BY TypeFacts DEF IInv
    <3>2. m = wire[current][1] /\ m \in Messages /\ 1 \in 1..Len(wire[current])
      BY <3>1, TailFacts DEF Message
    <3> QED
      BY <3>1, <3>2 DEF IInv, MessagesSound
  <2>2. m.base = replica.revision /\ m.sequence = replica.sequence + 1
    BY <2>1 DEF IInv, Continues
  <2>3. /\ m.base \in 1..Latest /\ m.base < m.revision
        /\ history[m.base].shape = history[m.revision].shape
    BY <2>1 DEF Sound
  <2>4. replica.content = history[replica.revision] /\ replica.revision # 0
    BY <2>2, <2>3, TypeFacts DEF IInv, ReplicaIsHostState
  <2> QED
    BY <2>2, <2>3, <2>4, <2>1, StreamsOK DEF Applies, Messages
<1> QED
  BY InitIInv, NextIInv, <1>1, PTL DEF Spec
=============================================================================
