-------------------------- MODULE ControlSyncProofs --------------------------
(***************************************************************************)
(* Theorems about ControlSync, for any number of panes, views, attachments *)
(* and changes of controller, and any size of its rings.  What the client  *)
(* knows is old, and what it sends arrives late; the invariant says what   *)
(* may be relied on all the same: everything on its way to the client is   *)
(* part of the authority's history and the last change is among it (Told,  *)
(* Fresh); everything on its way from the client names an attachment of    *)
(* its pane, and one the client has given up is followed by its detach     *)
(* (Known, Own); a claim for the current revision finds the seat empty or  *)
(* about to be (Seen); and a pane that could claim has claimed (Funnel,    *)
(* Sent).                                                                  *)
(***************************************************************************)
EXTENDS ControlSync, FiniteSetTheorems, TLAPS

\* What is on its way to one pane's handler, and to the client.
Pipe(p) ==
    ToSet(outbox[p]) \cup {c.message : c \in {d \in ToSet(commands) : d.pane = p}}

Flight == ToSet(announcing) \cup ToSet(backlog) \cup ToSet(wire) \cup ToSet(bus)

Leave(i) == [kind |-> "detach", epoch |-> i]

\* The host's authority: a view's living attachment is its latest ...
Seated ==
    /\ live \subseteq 1..born /\ born \in 0..MaxBorn
    /\ seat = 0 \/ seat \in live
    /\ turn \in Turns
    /\ owner \in [1..MaxBorn -> Views \cup {None}]
    /\ \A i \in 1..born : owner[i] \in Views
    /\ \A i \in live, j \in 1..born : owner[j] = owner[i] => j <= i

\* ... and the history knows who has control.
Recorded == held \in [Turns -> Views \cup {None}] /\ held[turn] = Snapshot.view

\* What announcements, records and the client's cache say of that history.
Honest(s) == s \in State /\ s.revision <= turn /\ s.view = held[s.revision]

Told ==
    /\ \A s \in Flight : Honest(s)
    /\ record # None => Honest(record)
    /\ bus # <<>> \/ lost \/ serving.phase \in {"refused", "read"} => record # None
    /\ serving.phase = "read" => Honest(serving.known)
    /\ cache.revision <= turn
    /\ cache.revision > 0 =>
           \/ cache.view = held[cache.revision]
           \/ cache.view = None /\ held[cache.revision] \in Mine

\* While no ring of the daemon overran, the last change is known or on its way.
Fresh ==
    \/ ~Lossless \/ stage # "open" \/ lagged \/ cache.revision = turn
    \/ \E s \in Flight : s.revision = turn

\* The client's panes and their messages name attachments of those panes, and
\* revisions that have been.
Known ==
    \A p \in Mine :
        /\ epoch[p] # 0 => epoch[p] <= born /\ owner[epoch[p]] = p
        /\ p \notin mounted => epoch[p] = 0
        /\ claimed[p].epoch <= epoch[p] /\ claimed[p].revision <= turn
        /\ \A m \in Pipe(p) :
              /\ m.epoch <= born /\ owner[m.epoch] = p
              /\ m.kind = "claim" /\ m.expected # None => m.expected <= turn

\* A living attachment that has the seat, or a claim to it on its way, is the
\* one its pane knows, or its detach is on its way.
Own ==
    \A p \in Mine, i \in live :
        owner[i] = p /\ (seat = i \/ \E m \in Pipe(p) : m.kind = "claim" /\ m.epoch = i) =>
            epoch[p] = i \/ Leave(i) \in Pipe(p)

\* The seat's owner is a pane whose detach is on its way.
Vacating == owner[seat] \in Mine /\ Leave(seat) \in Pipe(owner[seat])

\* The client calls a seat empty, and claims against a revision, only when the
\* seat is empty then, about to be, or the claimant's own.
Seen ==
    /\ cache.revision = turn /\ cache.view = None => seat = 0 \/ Vacating
    /\ \A p \in Mine : \A m \in Pipe(p) :
          m.kind = "claim" /\ m.expected = turn => seat = 0 \/ owner[seat] = p \/ Vacating

\* No mounted pane is left wanting to claim by what the client knows.
Funnel == \A p \in mounted : ~Wants(p, epoch[p], cache)

\* A claim against the current revision is on its way until it is served.
Sent ==
    \A p \in Mine :
        epoch[p] \in live /\ claimed[p].epoch = epoch[p] /\ claimed[p].revision = turn =>
            [kind |-> "claim", epoch |-> epoch[p], expected |-> turn] \in Pipe(p)

IInv ==
    /\ TypeOK /\ Seated /\ Recorded /\ Told /\ Fresh /\ Known
    /\ Own /\ Seen /\ Funnel /\ Sent

-----------------------------------------------------------------------------
(* Sequences, by their elements. *)

\* Appending adds one element.
LEMMA AppendSet ==
    ASSUME NEW S, NEW s \in Seq(S), NEW e \in S
    PROVE  /\ Append(s, e) \in Seq(S) /\ Append(s, e) # <<>>
           /\ Len(Append(s, e)) = Len(s) + 1
           /\ ToSet(Append(s, e)) = ToSet(s) \cup {e}
<1>1. /\ Append(s, e) \in Seq(S) /\ Append(s, e) # <<>>
      /\ Len(Append(s, e)) = Len(s) + 1 /\ Len(s) \in Nat
      /\ DOMAIN s = 1..Len(s) /\ DOMAIN Append(s, e) = 1..(Len(s) + 1)
      /\ \A k \in 1..Len(s) : Append(s, e)[k] = s[k]
      /\ Append(s, e)[Len(s) + 1] = e
  OBVIOUS
<1>2. ToSet(Append(s, e)) \subseteq ToSet(s) \cup {e}
  BY <1>1 DEF ToSet
<1>3. ToSet(s) \cup {e} \subseteq ToSet(Append(s, e))
  BY <1>1 DEF ToSet
<1> QED
  BY <1>1, <1>2, <1>3

\* The head and the tail of a sequence hold its elements.
LEMMA TailSet ==
    ASSUME NEW S, NEW s \in Seq(S), s # <<>>
    PROVE  /\ Tail(s) \in Seq(S) /\ Head(s) \in S /\ Head(s) \in ToSet(s)
           /\ ToSet(s) = {Head(s)} \cup ToSet(Tail(s))
           /\ Len(Tail(s)) = Len(s) - 1 /\ Len(s) \in Nat \ {0}
<1>1. /\ Tail(s) \in Seq(S) /\ Len(s) \in Nat \ {0} /\ Head(s) = s[1] /\ s[1] \in S
      /\ DOMAIN s = 1..Len(s) /\ DOMAIN Tail(s) = 1..(Len(s) - 1)
      /\ Len(Tail(s)) = Len(s) - 1
      /\ \A k \in 1..(Len(s) - 1) : Tail(s)[k] = s[k + 1]
  OBVIOUS
<1>2. ToSet(s) \subseteq {Head(s)} \cup ToSet(Tail(s))
  <2> SUFFICES ASSUME NEW k \in 1..Len(s) PROVE s[k] = s[1] \/ s[k] \in ToSet(Tail(s))
    BY <1>1 DEF ToSet
  <2>1. CASE k # 1
    <3>1. k - 1 \in 1..(Len(s) - 1) /\ Tail(s)[k - 1] = s[k]
      BY <1>1, <2>1
    <3> QED
      BY <1>1, <3>1 DEF ToSet
  <2> QED
    BY <2>1
<1>3. {Head(s)} \cup ToSet(Tail(s)) \subseteq ToSet(s)
  <2> SUFFICES ASSUME NEW k \in 1..(Len(s) - 1) PROVE Tail(s)[k] \in ToSet(s)
    BY <1>1 DEF ToSet
  <2>1. k + 1 \in 1..Len(s) /\ Tail(s)[k] = s[k + 1]
    BY <1>1
  <2> QED
    BY <1>1, <2>1 DEF ToSet
<1>4. Head(s) \in ToSet(s)
  BY <1>1 DEF ToSet
<1> QED
  BY <1>1, <1>2, <1>3, <1>4

\* A concatenation holds the elements of both sequences.
LEMMA ConcatSet ==
    ASSUME NEW S, NEW s \in Seq(S), NEW t \in Seq(S)
    PROVE  s \o t \in Seq(S) /\ ToSet(s \o t) = ToSet(s) \cup ToSet(t)
<1>1. /\ s \o t \in Seq(S) /\ Len(s \o t) = Len(s) + Len(t) /\ Len(s) \in Nat /\ Len(t) \in Nat
      /\ DOMAIN s = 1..Len(s) /\ DOMAIN t = 1..Len(t) /\ DOMAIN (s \o t) = 1..(Len(s) + Len(t))
      /\ \A k \in 1..Len(s) : (s \o t)[k] = s[k]
  OBVIOUS
<1>2. \A k \in 1..Len(t) : (s \o t)[Len(s) + k] = t[k]
  OBVIOUS
<1>3. ToSet(s \o t) \subseteq ToSet(s) \cup ToSet(t)
  <2> SUFFICES ASSUME NEW k \in 1..(Len(s) + Len(t))
               PROVE  (s \o t)[k] \in ToSet(s) \cup ToSet(t)
    BY <1>1 DEF ToSet
  <2>1. CASE k <= Len(s)
    BY <1>1, <2>1 DEF ToSet
  <2>2. CASE k > Len(s)
    <3>1. k - Len(s) \in 1..Len(t) /\ (s \o t)[k] = t[k - Len(s)]
      <4>1. k - Len(s) \in 1..Len(t) /\ Len(s) + (k - Len(s)) = k
        BY <1>1, <2>2
      <4> QED
        BY <1>2, <4>1
    <3> QED
      BY <1>1, <3>1 DEF ToSet
  <2> QED
    BY <1>1, <2>1, <2>2
<1>4. ToSet(s) \subseteq ToSet(s \o t)
  BY <1>1 DEF ToSet
<1>5. ToSet(t) \subseteq ToSet(s \o t)
  <2> SUFFICES ASSUME NEW k \in 1..Len(t) PROVE t[k] \in ToSet(s \o t)
    BY <1>1 DEF ToSet
  <2>1. Len(s) + k \in DOMAIN (s \o t) /\ (s \o t)[Len(s) + k] = t[k]
    BY <1>1, <1>2
  <2> QED
    BY <2>1 DEF ToSet
<1> QED
  BY <1>1, <1>3, <1>4, <1>5

\* Taking one element out leaves the others.
LEMMA WithoutSet ==
    ASSUME NEW S, NEW s \in Seq(S), NEW k \in DOMAIN s
    PROVE  /\ Without(s, k) \in Seq(S) /\ s[k] \in S
           /\ ToSet(s) = {s[k]} \cup ToSet(Without(s, k))
<1> DEFINE a == SubSeq(s, 1, k - 1)
           b == SubSeq(s, k + 1, Len(s))
<1>1. Len(s) \in Nat /\ k \in 1..Len(s) /\ DOMAIN s = 1..Len(s) /\ s[k] \in S
  OBVIOUS
<1>2. /\ a \in Seq(S) /\ DOMAIN a = 1..(k - 1)
      /\ \A i \in 1..(k - 1) : a[i] = s[i]
  BY <1>1
<1>3. /\ b \in Seq(S) /\ DOMAIN b = 1..(Len(s) - k)
      /\ \A i \in 1..(Len(s) - k) : b[i] = s[i + k]
  BY <1>1
<1> HIDE DEF a, b
<1>4. Without(s, k) = a \o b
  BY DEF Without, a, b
<1>5. Without(s, k) \in Seq(S) /\ ToSet(Without(s, k)) = ToSet(a) \cup ToSet(b)
  BY <1>2, <1>3, <1>4, ConcatSet
<1>6. ToSet(s) \subseteq {s[k]} \cup ToSet(a) \cup ToSet(b)
  <2> SUFFICES ASSUME NEW i \in 1..Len(s) PROVE s[i] \in {s[k]} \cup ToSet(a) \cup ToSet(b)
    BY <1>1 DEF ToSet
  <2>1. CASE i < k
    BY <1>1, <1>2, <2>1 DEF ToSet
  <2>2. CASE i > k
    <3>1. i - k \in 1..(Len(s) - k) /\ b[i - k] = s[i]
      <4>1. i - k \in 1..(Len(s) - k) /\ (i - k) + k = i
        BY <1>1, <2>2
      <4> QED
        BY <1>3, <4>1
    <3> QED
      BY <1>3, <3>1 DEF ToSet
  <2> QED
    BY <1>1, <2>1, <2>2
<1>7. {s[k]} \cup ToSet(a) \cup ToSet(b) \subseteq ToSet(s)
  <2>1. ToSet(a) \subseteq ToSet(s)
    BY <1>1, <1>2 DEF ToSet
  <2>2. ToSet(b) \subseteq ToSet(s)
    <3> SUFFICES ASSUME NEW i \in 1..(Len(s) - k) PROVE b[i] \in ToSet(s)
      BY <1>3 DEF ToSet
    <3>1. i + k \in DOMAIN s /\ b[i] = s[i + k]
      BY <1>1, <1>3
    <3> QED
      BY <3>1 DEF ToSet
  <2> QED
    BY <2>1, <2>2 DEF ToSet
<1> QED
  BY <1>1, <1>5, <1>6, <1>7

\* A full ring loses elements to the new one; any other gains it.
LEMMA OverrunSet ==
    ASSUME NEW S, NEW r \in Seq(S), NEW s \in S, NEW n \in Nat \ {0}, Len(r) <= n
    PROVE  /\ Overrun(r, s, n) \in Seq(S) /\ Len(Overrun(r, s, n)) <= n
           /\ ToSet(Overrun(r, s, n)) \subseteq ToSet(r) \cup {s}
           /\ Len(r) # n => ToSet(Overrun(r, s, n)) = ToSet(r) \cup {s}
<1>1. CASE Len(r) = n
  <2>1. r # <<>>
    BY <1>1
  <2> DEFINE t == Tail(r)
  <2>2. /\ t \in Seq(S) /\ Len(t) = n - 1 /\ ToSet(t) \subseteq ToSet(r)
    BY <1>1, <2>1, TailSet
  <2>3. Overrun(r, s, n) = Append(t, s)
    BY <1>1 DEF Overrun
  <2> HIDE DEF t
  <2>4. /\ Append(t, s) \in Seq(S) /\ Len(Append(t, s)) = Len(t) + 1
        /\ ToSet(Append(t, s)) = ToSet(t) \cup {s}
    BY <2>2, AppendSet
  <2> QED
    BY <1>1, <2>2, <2>3, <2>4
<1>2. CASE Len(r) # n
  BY <1>2, AppendSet DEF Overrun
<1> QED
  BY <1>1, <1>2

\* The empty sequence has no elements.
LEMMA EmptySet == ToSet(<<>>) = {}
  BY DEF ToSet

\* An order of a finite set names all its elements.
LEMMA OrderSet ==
    ASSUME NEW S, IsFiniteSet(S), NEW order \in SetToSeqs(S)
    PROVE  order \in Seq(S) /\ ToSet(order) = S
<1> DEFINE n == Cardinality(S)
<1>1. n \in Nat /\ IsFiniteSet(1..n) /\ Cardinality(1..n) = n
  <2>1. n \in Nat
    BY FS_CardinalityType
  <2> HIDE DEF n
  <2> QED
    BY <2>1, FS_Interval
<1>2. order \in [1..n -> S] /\ \A i, j \in 1..n : i # j => order[i] # order[j]
  BY DEF SetToSeqs
<1>3. order \in Injection(1..n, S)
  BY <1>2 DEF Injection, IsInjective
<1>4. order \in Surjection(1..n, S)
  BY <1>1, <1>3, FS_Injection
<1>5. \A x \in S : \E i \in 1..n : order[i] = x
  BY <1>4 DEF Surjection
<1> HIDE DEF n
<1> QED
  BY <1>1, <1>2, <1>5 DEF ToSet

-----------------------------------------------------------------------------
(* The host. *)

\* What a step of the host does to its authority, and announces of it.
Moves ==
    /\ Seated' /\ Recorded' /\ regime' = regime /\ born <= born'
    /\ ((turn' = turn /\ seat' = seat) \/ turn' = turn + 1)
    /\ \A i \in 1..born : owner'[i] = owner[i]
    /\ \A i \in live' : i \in live \/ i > born
    /\ \A r \in 1..turn : held'[r] = held[r]
    /\ announcing' \in Seq(State)
    /\ \/ ToSet(announcing') = ToSet(announcing) /\ turn' = turn
       \/ ToSet(announcing') = ToSet(announcing) \cup {Snapshot'}

\* A snapshot tells the history as it is.
LEMMA SnapshotFacts ==
    ASSUME Seated, Recorded
    PROVE  /\ Snapshot \in State /\ Snapshot.revision = turn /\ Snapshot.view = held[turn]
           /\ Snapshot.view = (IF seat = 0 THEN None ELSE owner[seat])
           /\ Honest(Snapshot)
<1>1. seat # 0 => owner[seat] \in Views
  BY DEF Seated
<1>2. Snapshot.view \in Views \cup {None} /\ Snapshot.revision = turn /\ turn \in Turns
  BY <1>1 DEF Snapshot, Seated
<1>3. Snapshot \in State
  BY <1>2 DEF Snapshot, State
<1>4. Snapshot.view = held[turn]
  BY DEF Recorded
<1>5. turn <= turn
  BY DEF Seated, Turns
<1> QED
  BY <1>2, <1>3, <1>4, <1>5 DEF Honest, Snapshot

\* A change of the authority that announces its snapshot extends the history.
LEMMA AnnouncesFacts ==
    ASSUME TypeOK, Seated, Recorded, Announces, Seated', regime' = regime, born <= born',
           (turn' = turn /\ seat' = seat) \/ turn' = turn + 1,
           \A i \in 1..born : owner'[i] = owner[i],
           \A i \in live' : i \in live \/ i > born
    PROVE  Moves
<1>1. /\ announcing' = IF turn' # turn THEN Append(announcing, Snapshot') ELSE announcing
      /\ held' = [held EXCEPT ![turn'] = Snapshot'.view]
  BY DEF Announces
<1>2. turn \in Turns /\ turn' \in Turns /\ held \in [Turns -> Views \cup {None}]
  BY DEF Seated, Recorded
<1>3. Snapshot'.view \in Views \cup {None} /\ Snapshot' \in State
  <2>1. seat' # 0 => owner'[seat'] \in Views
    BY DEF Seated
  <2> QED
    BY <1>2, <2>1 DEF Snapshot, State
<1>4. /\ held' \in [Turns -> Views \cup {None}] /\ held'[turn'] = Snapshot'.view
      /\ \A r \in Turns : r # turn' => held'[r] = held[r]
  BY <1>1, <1>2, <1>3
<1>5. turn' = turn => held'[turn] = held[turn]
  <2> SUFFICES ASSUME turn' = turn PROVE Snapshot'.view = Snapshot.view
    BY <1>4 DEF Recorded
  <2>1. seat' = seat
    BY <1>2 DEF Turns
  <2>2. seat # 0 => owner'[seat] = owner[seat]
    BY DEF Seated
  <2> QED
    BY <2>1, <2>2 DEF Snapshot
<1>6. \A r \in 1..turn : held'[r] = held[r]
  <2> SUFFICES ASSUME NEW r \in 1..turn PROVE held'[r] = held[r]
    OBVIOUS
  <2>1. r \in Turns
    BY <1>2, BoundsOK DEF Turns
  <2> QED
    BY <1>2, <1>4, <1>5, <2>1 DEF Turns
<1>7. Recorded'
  BY <1>4 DEF Recorded
<1>8. /\ announcing' \in Seq(State)
      /\ \/ ToSet(announcing') = ToSet(announcing) /\ turn' = turn
         \/ ToSet(announcing') = ToSet(announcing) \cup {Snapshot'}
  <2>1. announcing \in Seq(State)
    BY DEF TypeOK
  <2> HIDE DEF Snapshot
  <2>2. /\ Append(announcing, Snapshot') \in Seq(State)
        /\ ToSet(Append(announcing, Snapshot')) = ToSet(announcing) \cup {Snapshot'}
    BY <1>3, <2>1, AppendSet
  <2> QED
    BY <1>1, <2>1, <2>2
<1> QED
  BY <1>6, <1>7, <1>8 DEF Moves

\* There is room for another turn.
LEMMA RoomFacts == TypeOK /\ Room => turn + 1 \in Turns
  BY BoundsOK DEF TypeOK, Room, Turns

\* An attach is such a change, and ends the attachment it replaces.
LEMMA AttachMoves == ASSUME IInv, NEW v \in Views, AttachHost(v) PROVE Moves
<1>i. TypeOK /\ Seated /\ Recorded
  BY DEF IInv
<1>1. /\ born' = born + 1 /\ born + 1 <= MaxBorn /\ live' = (live \ Of(v)) \cup {born + 1}
      /\ IF seat \in Of(v) THEN seat' = 0 /\ turn' = turn + 1 ELSE UNCHANGED <<seat, turn>>
      /\ owner' = [owner EXCEPT ![born + 1] = v] /\ regime' = regime /\ Announces
      /\ turn + 1 \in Turns
  <2>1. Room /\ born < MaxBorn /\ Host!Begin(Of(v)) /\ owner' = [owner EXCEPT ![born'] = v]
        /\ regime' = regime /\ Announces
    BY DEF AttachHost
  <2>2. born' = born + 1 /\ live' = (live \ Of(v)) \cup {born + 1}
        /\ IF seat \in Of(v) THEN seat' = 0 /\ turn' = turn + 1 ELSE UNCHANGED <<seat, turn>>
    BY <2>1 DEF Host!Begin, Host!Vacate
  <2>3. born + 1 <= MaxBorn
    BY <1>i, <2>1, BoundsOK DEF TypeOK
  <2>4. turn + 1 \in Turns
    BY <1>i, <2>1, RoomFacts
  <2> QED
    BY <2>1, <2>2, <2>3, <2>4
<1>2. /\ born \in Nat /\ born + 1 \in 1..MaxBorn /\ owner'[born + 1] = v
      /\ owner' \in [1..MaxBorn -> Views \cup {None}]
      /\ \A i \in 1..born : owner'[i] = owner[i]
  BY <1>i, <1>1 DEF Seated
<1>3. Of(v) \subseteq live /\ \A i \in live : owner[i] = v <=> i \in Of(v)
  BY DEF Of
<1>4. Seated'
  <2>1. live' \subseteq 1..born' /\ born' \in 0..MaxBorn /\ turn' \in Turns
    <3>1. live \subseteq 1..born /\ turn \in Turns
      BY <1>i DEF Seated
    <3>2. live' \subseteq 1..born'
      <4>1. live' \subseteq live \cup {born'} /\ born' = born + 1
        BY <1>1
      <4> QED
        BY <1>2, <3>1, <4>1
    <3>3. turn' \in Turns
      BY <1>1, <3>1
    <3> QED
      BY <1>1, <1>2, <3>2, <3>3
  <2>2. seat' = 0 \/ seat' \in live'
    BY <1>i, <1>1 DEF Seated
  <2>3. \A i \in 1..born' : owner'[i] \in Views
    BY <1>i, <1>1, <1>2 DEF Seated
  <2>4. ASSUME NEW i \in live', NEW j \in 1..born', owner'[j] = owner'[i]
        PROVE  j <= i
    <3>1. CASE i = born + 1
      BY <1>1, <1>2, <3>1
    <3>2. CASE i # born + 1
      <4>1. i \in live /\ i \in 1..born /\ owner'[i] = owner[i] /\ owner[i] # v
        BY <1>i, <1>1, <1>2, <1>3, <3>2 DEF Seated
      <4>2. j # born + 1
        BY <1>2, <2>4, <4>1
      <4>3. j \in 1..born
        BY <1>1, <1>2, <4>2
      <4> QED
        BY <1>i, <1>2, <2>4, <4>1, <4>3 DEF Seated
    <3> QED
      BY <3>1, <3>2
  <2> QED
    BY <1>2, <2>1, <2>2, <2>3, <2>4 DEF Seated
<1>5. /\ born <= born' /\ ((turn' = turn /\ seat' = seat) \/ turn' = turn + 1)
      /\ \A i \in live' : i \in live \/ i > born
  BY <1>1, <1>2
<1> QED
  BY <1>i, <1>1, <1>2, <1>4, <1>5, AnnouncesFacts

\* So is a claim that is granted,
LEMMA TakeMoves ==
    ASSUME IInv, Room, NEW i \in live, Host!Take(i), UNCHANGED <<regime, owner>>, Announces
    PROVE  Moves /\ seat' = i /\ turn' = turn + 1
<1>i. TypeOK /\ Seated /\ Recorded
  BY DEF IInv
<1>1. seat' = i /\ turn' = turn + 1 /\ turn' \in Turns /\ UNCHANGED <<live, born, owner, regime>>
  BY <1>i, RoomFacts DEF Host!Take
<1>2. Seated' /\ born <= born'
  BY <1>i, <1>1 DEF Seated
<1> QED
  BY <1>i, <1>1, <1>2, AnnouncesFacts

\* and the end of an attachment.
LEMMA EndMoves ==
    ASSUME IInv, Room, NEW i \in live, Host!End(i), UNCHANGED <<regime, owner>>, Announces
    PROVE  Moves /\ live' = live \ {i} /\ seat' \in {0, seat}
<1>i. TypeOK /\ Seated /\ Recorded
  BY DEF IInv
<1>1. /\ live' = live \ {i} /\ UNCHANGED <<born, owner, regime>> /\ turn + 1 \in Turns
      /\ IF seat = i THEN seat' = 0 /\ turn' = turn + 1 ELSE UNCHANGED <<seat, turn>>
  BY <1>i, RoomFacts DEF Host!End, Host!Vacate
<1>2. Seated' /\ born <= born'
  BY <1>i, <1>1 DEF Seated
<1>3. ((turn' = turn /\ seat' = seat) \/ turn' = turn + 1) /\ seat' \in {0, seat}
  BY <1>1
<1> QED
  BY <1>i, <1>1, <1>2, <1>3, AnnouncesFacts


\* A step that at most announces what the authority says anyway.
LEMMA StayMoves ==
    ASSUME IInv, UNCHANGED session,
           announcing' \in {announcing, Append(announcing, Snapshot)}
    PROVE  Moves /\ seat' = seat
<1>i. TypeOK /\ Seated /\ Recorded
  BY DEF IInv
<1>1. UNCHANGED <<regime, live, born, seat, turn, owner, held>>
  BY DEF session
<1>2. Seated' /\ Recorded' /\ Snapshot' = Snapshot
  BY <1>i, <1>1 DEF Seated, Recorded, Snapshot
<1>3. Snapshot \in State /\ announcing \in Seq(State)
  BY <1>i, SnapshotFacts DEF TypeOK
<1> HIDE DEF Snapshot
<1>4. /\ Append(announcing, Snapshot) \in Seq(State)
      /\ ToSet(Append(announcing, Snapshot)) = ToSet(announcing) \cup {Snapshot}
  BY <1>3, AppendSet
<1>5. /\ announcing' \in Seq(State)
      /\ \/ ToSet(announcing') = ToSet(announcing) /\ turn' = turn
         \/ ToSet(announcing') = ToSet(announcing) \cup {Snapshot'}
  BY <1>1, <1>2, <1>3, <1>4
<1>6. born <= born'
  BY <1>i, <1>1 DEF Seated
<1> QED
  BY <1>1, <1>2, <1>5, <1>6 DEF Moves

-----------------------------------------------------------------------------
(* What is on its way to a pane's handler. *)

\* Only messages are.
LEMMA PipeFacts ==
    ASSUME TypeOK, NEW p \in Mine
    PROVE  /\ Pipe(p) \subseteq Message
           /\ \A m \in Pipe(p) :
                 /\ m.epoch \in 1..MaxBorn /\ m.kind \in {"claim", "detach"}
                 /\ m.kind = "claim" => m.expected \in Turns \cup {None}
<1>1. outbox[p] \in Seq(Message) /\ commands \in Seq(Command)
  BY DEF TypeOK
<1>2. ToSet(outbox[p]) \subseteq Message
  BY <1>1 DEF ToSet
<1>3. ToSet(commands) \subseteq Command
  BY <1>1 DEF ToSet
<1>4. Pipe(p) \subseteq Message
  BY <1>2, <1>3 DEF Pipe, Command
<1>5. \A m \in Message :
         /\ m.epoch \in 1..MaxBorn /\ m.kind \in {"claim", "detach"}
         /\ m.kind = "claim" => m.expected \in Turns \cup {None}
  BY DEF Message
<1> QED
  BY <1>4, <1>5

\* A handler takes the first message of its stream.
LEMMA PopFacts ==
    ASSUME TypeOK, NEW p \in Mine, outbox[p] # <<>>, Pop(p), commands' = commands
    PROVE  /\ outbox' \in [Mine -> Seq(Message)]
           /\ Head(outbox[p]) \in Pipe(p)
           /\ \A q \in Mine : Pipe(q)' \subseteq Pipe(q)
           /\ \A q \in Mine \ {p} : Pipe(q)' = Pipe(q)
           /\ Pipe(p) \subseteq Pipe(p)' \cup {Head(outbox[p])}
<1>1. outbox \in [Mine -> Seq(Message)]
  BY DEF TypeOK
<1>2. outbox' = [outbox EXCEPT ![p] = Tail(outbox[p])]
  BY DEF Pop
<1>3. /\ Tail(outbox[p]) \in Seq(Message)
      /\ ToSet(outbox[p]) = {Head(outbox[p])} \cup ToSet(Tail(outbox[p]))
  BY <1>1, TailSet
<1>4. /\ outbox' \in [Mine -> Seq(Message)] /\ outbox'[p] = Tail(outbox[p])
      /\ \A q \in Mine \ {p} : outbox'[q] = outbox[q]
  BY <1>1, <1>2, <1>3
<1>5. \A q \in Mine \ {p} : Pipe(q)' = Pipe(q)
  BY <1>4 DEF Pipe
<1>6. /\ Pipe(p)' = ToSet(Tail(outbox[p]))
              \cup {c.message : c \in {d \in ToSet(commands) : d.pane = p}}
      /\ Pipe(p) = ToSet(outbox[p])
              \cup {c.message : c \in {d \in ToSet(commands) : d.pane = p}}
  BY <1>4 DEF Pipe
<1> QED
  BY <1>3, <1>4, <1>5, <1>6

-----------------------------------------------------------------------------
(* Steps that leave the client alone. *)

\* A step of the host, which may also take a message off a pane's stream.
LEMMA HostStep ==
    ASSUME IInv, Moves,
           UNCHANGED <<stream, wire, daemon, cache, epoch, claimed, commands>>,
           mounted \subseteq mounted', mounted' \subseteq Mine,
           outbox' \in [Mine -> Seq(Message)],
           \A p \in Mine : Pipe(p)' \subseteq Pipe(p),
           \A p \in Mine : \A m \in Pipe(p) \ Pipe(p)' :
              \/ m.epoch \notin live'
              \/ m.kind = "claim" /\ (turn' = turn + 1 \/ m.expected # turn),
           seat' # seat /\ seat' # 0 =>
              /\ seat' \in live
              /\ \/ owner[seat'] \in Foreign
                 \/ \E m \in Pipe(owner[seat']) : m.kind = "claim" /\ m.epoch = seat'
    PROVE  IInv'
<1>i. /\ TypeOK /\ Seated /\ Recorded /\ Told /\ Fresh /\ Known
      /\ Own /\ Seen /\ Funnel /\ Sent
  BY DEF IInv
<1>u. UNCHANGED <<stage, backlog, lagged, wire, record, bus, lost, serving,
                  cache, epoch, claimed, commands>>
  BY DEF stream, daemon
<1>m. /\ Seated' /\ Recorded' /\ regime' = regime /\ born <= born'
      /\ ((turn' = turn /\ seat' = seat) \/ turn' = turn + 1)
      /\ \A i \in 1..born : owner'[i] = owner[i]
      /\ \A i \in live' : i \in live \/ i > born
      /\ \A r \in 1..turn : held'[r] = held[r]
      /\ announcing' \in Seq(State)
      /\ \/ ToSet(announcing') = ToSet(announcing) /\ turn' = turn
         \/ ToSet(announcing') = ToSet(announcing) \cup {Snapshot'}
  BY DEF Moves
<1>n. /\ born \in Nat /\ born' \in Nat /\ live \subseteq 1..born /\ live' \subseteq 1..born'
      /\ (seat = 0 \/ seat \in live) /\ (seat' = 0 \/ seat' \in live')
      /\ turn \in Nat \ {0} /\ turn' \in Nat \ {0} /\ turn <= turn'
  BY <1>i, <1>m DEF Seated, Turns
<1>p. \A p \in Mine : \A m \in Pipe(p) :
         /\ m.epoch \in 1..born /\ owner[m.epoch] = p
         /\ m.kind = "claim" /\ m.expected # None => m.expected <= turn
  BY <1>i, <1>n, PipeFacts DEF Known
<1>1. TypeOK'
  <2>1. /\ regime' \in Regimes /\ live' \subseteq 1..MaxBorn /\ born' \in 0..MaxBorn
        /\ seat' \in 0..MaxBorn /\ turn' \in Turns
        /\ owner' \in [1..MaxBorn -> Views \cup {None}]
    <3>1. /\ born' \in 0..MaxBorn /\ turn' \in Turns
          /\ owner' \in [1..MaxBorn -> Views \cup {None}]
      BY <1>m DEF Seated
    <3>2. live' \subseteq 1..MaxBorn
      BY <1>n, <3>1, BoundsOK
    <3>3. seat' \in 0..MaxBorn
      <4>1. MaxBorn \in Nat
        BY BoundsOK
      <4>2. seat' = 0 \/ seat' \in 1..MaxBorn
        BY <1>n, <3>2
      <4> QED
        BY <4>1, <4>2
    <3>4. regime' \in Regimes
      BY <1>i, <1>m DEF TypeOK
    <3> QED
      BY <3>1, <3>2, <3>3, <3>4
  <2>2. {announcing', backlog', wire', bus'} \subseteq Seq(State)
    BY <1>i, <1>u, <1>m DEF TypeOK
  <2>3. /\ Len(backlog') <= BacklogSize /\ stage' \in {"closed", "subscribed", "open"}
        /\ lagged' \in BOOLEAN /\ lost' \in BOOLEAN
    BY <1>i, <1>u DEF TypeOK
  <2>4. /\ record' \in State \cup {None}
        /\ serving' \in {Idle} \cup [phase : {"waiting", "refused", "read"},
                                    pane : Mine, known : State \cup {None}]
        /\ commands' \in Seq(Command)
        /\ cache' \in State \cup {[view |-> None, revision |-> 0]}
        /\ epoch' \in [Mine -> 0..MaxBorn]
        /\ claimed' \in [Mine -> [epoch : 0..MaxBorn, revision : 0..MaxTurn]]
    BY <1>i, <1>u DEF TypeOK
  <2> QED
    BY <2>1, <2>2, <2>3, <2>4 DEF TypeOK
<1>2. Told'
  <2>1. \A s : Honest(s) => Honest(s)'
    BY <1>m, <1>n DEF Honest, State, Turns
  <2>2. \A s : s = Snapshot' => Honest(s)'
    <3>1. seat' # 0 => owner'[seat'] \in Views
      BY <1>m, <1>n DEF Seated
    <3>2. Snapshot' \in State /\ Snapshot'.revision = turn'
      BY <1>m, <3>1 DEF Snapshot, State, Seated
    <3>3. Snapshot'.view = held'[turn']
      BY <1>m DEF Recorded
    <3> QED
      BY <1>n, <3>2, <3>3 DEF Honest
  <2>3. \A s \in Flight' : Honest(s)'
    <3> SUFFICES ASSUME NEW s \in Flight' PROVE Honest(s)'
      OBVIOUS
    <3>1. s \in Flight \/ s = Snapshot'
      BY <1>u, <1>m DEF Flight
    <3>2. s \in Flight => Honest(s)
      BY <1>i DEF Told
    <3> QED
      BY <2>1, <2>2, <3>1, <3>2
  <2>4. /\ (record # None => Honest(record))'
        /\ (serving.phase = "read" => Honest(serving.known))'
        /\ (bus # <<>> \/ lost \/ serving.phase \in {"refused", "read"} => record # None)'
    <3>1. /\ record # None => Honest(record)
          /\ serving.phase = "read" => Honest(serving.known)
          /\ bus # <<>> \/ lost \/ serving.phase \in {"refused", "read"} => record # None
      BY <1>i DEF Told
    <3>2. record # None => Honest(record)'
      BY <1>u, <2>1, <3>1 DEF Honest
    <3>3. serving.phase = "read" => Honest(serving.known)'
      BY <1>u, <2>1, <3>1 DEF Honest
    <3> QED
      BY <1>u, <3>1, <3>2, <3>3
  <2>5. cache.revision \in Nat
    BY <1>i DEF TypeOK, State, Turns
  <2>6. cache.revision > 0 => held'[cache.revision] = held[cache.revision]
    BY <1>i, <1>m, <1>n, <2>5 DEF Told
  <2>7. /\ cache'.revision <= turn'
        /\ cache'.revision > 0 =>
              \/ cache'.view = held'[cache'.revision]
              \/ cache'.view = None /\ held'[cache'.revision] \in Mine
    BY <1>i, <1>u, <1>n, <2>5, <2>6 DEF Told
  <2> QED
    BY <2>3, <2>4, <2>7 DEF Told
<1>3. Fresh'
  <2>1. CASE ToSet(announcing') = ToSet(announcing) /\ turn' = turn
    BY <1>i, <1>u, <1>m, <2>1 DEF Fresh, Lossless, Flight
  <2>2. CASE ToSet(announcing') = ToSet(announcing) \cup {Snapshot'}
    <3>1. Snapshot' \in Flight' /\ Snapshot'.revision = turn'
      BY <2>2 DEF Flight, Snapshot
    <3> QED
      BY <3>1 DEF Fresh
  <2> QED
    BY <1>m, <2>1, <2>2
<1>4. Known'
  <2> SUFFICES ASSUME NEW p \in Mine
               PROVE  /\ epoch'[p] # 0 => epoch'[p] <= born' /\ owner'[epoch'[p]] = p
                      /\ p \notin mounted' => epoch'[p] = 0
                      /\ claimed'[p].epoch <= epoch'[p] /\ claimed'[p].revision <= turn'
                      /\ \A m \in Pipe(p)' :
                            /\ m.epoch <= born' /\ owner'[m.epoch] = p
                            /\ m.kind = "claim" /\ m.expected # None => m.expected <= turn'
    BY DEF Known
  <2>1. epoch[p] \in Nat /\ claimed[p].revision \in Nat
    BY <1>i DEF TypeOK
  <2>2. epoch[p] # 0 => epoch[p] <= born' /\ owner'[epoch[p]] = p
    <3> SUFFICES ASSUME epoch[p] # 0 PROVE epoch[p] <= born' /\ owner'[epoch[p]] = p
      OBVIOUS
    <3>1. epoch[p] \in 1..born /\ owner[epoch[p]] = p
      BY <1>i, <1>n, <2>1 DEF Known
    <3> QED
      BY <1>m, <1>n, <3>1
  <2>3. p \notin mounted' => epoch[p] = 0
    BY <1>i DEF Known
  <2>4. claimed[p].epoch <= epoch[p] /\ claimed[p].revision <= turn'
    BY <1>i, <1>n, <2>1 DEF Known
  <2>5. ASSUME NEW m \in Pipe(p)'
        PROVE  /\ m.epoch <= born' /\ owner'[m.epoch] = p
               /\ m.kind = "claim" /\ m.expected # None => m.expected <= turn'
    <3>1. /\ m.epoch \in 1..born /\ owner[m.epoch] = p
          /\ m.kind = "claim" /\ m.expected # None => m.expected <= turn
          /\ m.kind = "claim" => m.expected \in Turns \cup {None}
      BY <1>i, <1>p, PipeFacts
    <3>2. m.kind = "claim" /\ m.expected # None => m.expected \in Nat
      BY <3>1 DEF Turns
    <3> QED
      BY <1>m, <1>n, <3>1, <3>2
  <2> QED
    BY <1>u, <2>2, <2>3, <2>4, <2>5
<1>5. Own'
  <2> SUFFICES ASSUME NEW p \in Mine, NEW i \in live', owner'[i] = p,
                      seat' = i \/ \E m \in Pipe(p)' : m.kind = "claim" /\ m.epoch = i
               PROVE  epoch[p] = i \/ Leave(i) \in Pipe(p)'
    BY <1>u DEF Own, Leave
  <2>1. /\ i \in live /\ owner[i] = p
        /\ seat = i \/ \E m \in Pipe(p) : m.kind = "claim" /\ m.epoch = i
    <3>1. CASE seat' = i
      <4>1. CASE seat' = seat
        BY <1>n, <1>m, <3>1, <4>1
      <4>2. CASE seat' # seat
        <5>1. i \in live /\ owner'[i] = owner[i]
          BY <1>m, <1>n, <3>1, <4>2
        <5>2. owner[i] \notin Foreign
          BY <5>1, BoundsOK
        <5> QED
          BY <1>n, <3>1, <4>2, <5>1, <5>2
      <4> QED
        BY <4>1, <4>2
    <3>2. CASE \E m \in Pipe(p)' : m.kind = "claim" /\ m.epoch = i
      <4>1. PICK m \in Pipe(p)' : m.kind = "claim" /\ m.epoch = i
        BY <3>2
      <4>2. m \in Pipe(p) /\ i \in 1..born
        BY <1>p, <4>1
      <4>3. i \in live
        BY <1>m, <1>n, <4>2
      <4> QED
        BY <1>p, <4>1, <4>2, <4>3
    <3> QED
      BY <3>1, <3>2
  <2>2. epoch[p] = i \/ Leave(i) \in Pipe(p)
    BY <1>i, <2>1 DEF Own
  <2>3. Leave(i).kind = "detach" /\ Leave(i).epoch = i
    BY DEF Leave
  <2> QED
    BY <2>2, <2>3
<1>6. Seen'
  <2>1. CASE turn' = turn + 1
    <3>1. ~(cache'.revision = turn')
      <4>1. cache.revision \in Nat /\ cache.revision <= turn
        BY <1>i DEF TypeOK, Told, State, Turns
      <4> QED
        BY <1>u, <1>n, <2>1, <4>1
    <3>2. ASSUME NEW p \in Mine, NEW m \in Pipe(p)', m.kind = "claim" PROVE m.expected # turn'
      <4>1. m.expected # None => m.expected <= turn
        BY <1>p, <3>2
      <4>2. turn' # None
        BY <1>n, NoneIsNoState
      <4>3. m.expected \in Nat \/ m.expected = None
        BY <1>i, <3>2, PipeFacts DEF Turns
      <4> QED
        BY <1>n, <2>1, <4>1, <4>2, <4>3
    <3> QED
      BY <3>1, <3>2 DEF Seen
  <2>2. CASE turn' = turn /\ seat' = seat
    <3>1. seat = 0 \/ Vacating => seat' = 0 \/ Vacating'
      <4> SUFFICES ASSUME seat # 0, Vacating PROVE Vacating'
        BY <2>2
      <4>1. seat \in 1..born /\ seat \in live' /\ owner'[seat] = owner[seat]
        BY <1>m, <1>n, <2>2
      <4>2. owner[seat] \in Mine /\ Leave(seat) \in Pipe(owner[seat])
        BY DEF Vacating
      <4>3. Leave(seat).kind = "detach" /\ Leave(seat).epoch = seat
        BY DEF Leave
      <4>4. PICK q \in Mine : owner[seat] = q
        BY <4>2
      <4>5. Leave(seat) \in Pipe(q)'
        BY <4>1, <4>2, <4>3, <4>4
      <4> QED
        BY <2>2, <4>1, <4>4, <4>5 DEF Vacating, Leave, Pipe
    <3>2. cache'.revision = turn' /\ cache'.view = None => seat' = 0 \/ Vacating'
      BY <1>i, <1>u, <2>2, <3>1 DEF Seen
    <3>3. ASSUME NEW p \in Mine, NEW m \in Pipe(p)', m.kind = "claim", m.expected = turn'
          PROVE  seat' = 0 \/ owner'[seat'] = p \/ Vacating'
      <4>1. m \in Pipe(p)
        BY <3>3
      <4>2. seat = 0 \/ owner[seat] = p \/ Vacating
        BY <1>i, <2>2, <3>3, <4>1 DEF Seen
      <4>3. seat # 0 => owner'[seat] = owner[seat]
        BY <1>m, <1>n
      <4> QED
        BY <2>2, <3>1, <4>2, <4>3
    <3> QED
      BY <3>2, <3>3 DEF Seen
  <2> QED
    BY <1>m, <2>1, <2>2
<1>7. Funnel'
  <2> SUFFICES ASSUME NEW p \in mounted' PROVE ~Wants(p, epoch[p], cache)'
    BY DEF Funnel
  <2>1. CASE p \in mounted
    BY <1>i, <1>u, <2>1 DEF Funnel, Wants
  <2>2. CASE p \notin mounted
    BY <1>i, <1>u, <2>2 DEF Known, Wants
  <2> QED
    BY <2>1, <2>2
<1>8. Sent'
  <2> SUFFICES ASSUME NEW p \in Mine, epoch[p] \in live', claimed[p].epoch = epoch[p],
                      claimed[p].revision = turn'
               PROVE  [kind |-> "claim", epoch |-> epoch[p], expected |-> turn'] \in Pipe(p)'
    BY <1>u DEF Sent
  <2>1. epoch[p] # 0
    BY <1>n
  <2>2. epoch[p] \in 1..born /\ claimed[p].revision <= turn
    <3>1. epoch[p] \in Nat
      BY <1>i DEF TypeOK
    <3> QED
      BY <1>i, <1>n, <2>1, <3>1 DEF Known
  <2>3. epoch[p] \in live /\ turn' = turn
    BY <1>m, <1>n, <2>2
  <2> DEFINE m == [kind |-> "claim", epoch |-> epoch[p], expected |-> turn]
  <2>4. m \in Pipe(p)
    BY <1>i, <2>3 DEF Sent
  <2>5. m.kind = "claim" /\ m.epoch = epoch[p] /\ m.expected = turn
    OBVIOUS
  <2> HIDE DEF m
  <2>6. m \in Pipe(p)'
    BY <1>n, <2>3, <2>4, <2>5
  <2> QED
    BY <2>3, <2>6 DEF m
<1> QED
  BY <1>1, <1>2, <1>3, <1>4, <1>5, <1>6, <1>7, <1>8, <1>m DEF IInv

\* A step that leaves the authority and the client's view of it alone, and
\* neither adds a message to what is on its way to a pane nor takes one.
LEMMA DaemonStep ==
    ASSUME IInv, UNCHANGED <<session, cache, epoch, mounted, claimed>>,
           \A p \in Mine : Pipe(p)' = Pipe(p),
           TypeOK', Told', Fresh'
    PROVE  IInv'
<1>i. /\ TypeOK /\ Seated /\ Recorded /\ Told /\ Fresh /\ Known
      /\ Own /\ Seen /\ Funnel /\ Sent
  BY DEF IInv
<1>u. UNCHANGED <<regime, live, born, seat, turn, owner, held,
                  cache, epoch, mounted, claimed>>
  BY DEF session
<1>1. Seated' /\ Recorded'
  BY <1>i, <1>u DEF Seated, Recorded, Snapshot
<1>2. \A p \in Mine : Pipe(p)' = Pipe(p)
  OBVIOUS
<1>3. Known'
  BY <1>i, <1>u, <1>2 DEF Known
<1>4. Own'
  BY <1>i, <1>u, <1>2 DEF Own, Leave
<1>5. Vacating' <=> Vacating
  <2>1. CASE owner[seat] \in Mine
    <3>1. PICK q \in Mine : q = owner[seat]
      BY <2>1
    <3> QED
      BY <1>u, <1>2, <3>1 DEF Vacating, Leave, Pipe
  <2>2. CASE owner[seat] \notin Mine
    BY <1>u, <2>2 DEF Vacating
  <2> QED
    BY <2>1, <2>2
<1>6. Seen'
  BY <1>i, <1>u, <1>2, <1>5 DEF Seen
<1>7. Funnel'
  BY <1>i, <1>u DEF Funnel, Wants
<1>8. Sent'
  BY <1>i, <1>u, <1>2 DEF Sent
<1> QED
  BY <1>1, <1>3, <1>4, <1>6, <1>7, <1>8 DEF IInv

-----------------------------------------------------------------------------
(* The steps of the host. *)

\* Attaching a view, a pane's or another client's.
LEMMA AttachStep ==
    ASSUME IInv, NEW v \in Views, AttachHost(v),
           UNCHANGED <<cache, epoch, claimed, commands>>,
           mounted \subseteq mounted', mounted' \subseteq Mine
    PROVE  IInv'
<1>1. Moves
  BY AttachMoves
<1>2. UNCHANGED <<stream, wire, daemon, outbox>>
  BY DEF AttachHost
<1>3. seat' = 0 \/ seat' = seat
  BY DEF AttachHost, Host!Begin, Host!Vacate
<1>4. outbox' \in [Mine -> Seq(Message)] /\ \A p \in Mine : Pipe(p)' = Pipe(p)
  BY <1>2 DEF IInv, TypeOK, Pipe
<1> QED
  BY <1>1, <1>2, <1>3, <1>4, HostStep

\* Another client's view claims, or detaches.
LEMMA ForeignStep ==
    ASSUME IInv, NEW i \in live, ClaimForeign(i) \/ DetachForeign(i)
    PROVE  IInv'
<1>1. /\ Room /\ owner[i] \in Foreign /\ Announces
      /\ UNCHANGED <<regime, owner>> /\ UNCHANGED <<stream, wire, daemon, outbox, client>>
  BY DEF ClaimForeign, DetachForeign
<1>2. Moves /\ (seat' = i \/ seat' \in {0, seat})
  <2>1. CASE Host!Take(i)
    BY <1>1, <2>1, TakeMoves
  <2>2. CASE Host!End(i)
    BY <1>1, <2>2, EndMoves
  <2> QED
    BY <2>1, <2>2 DEF ClaimForeign, DetachForeign
<1>3. UNCHANGED <<cache, epoch, mounted, claimed, commands>>
  BY <1>1 DEF client
<1>4. /\ outbox' \in [Mine -> Seq(Message)] /\ \A p \in Mine : Pipe(p)' = Pipe(p)
      /\ mounted \subseteq Mine
  BY <1>1, <1>3 DEF IInv, TypeOK, Pipe
<1> QED
  BY <1>1, <1>2, <1>3, <1>4, HostStep

\* The handler of a pane serves the first message of its stream.
LEMMA PaneStep ==
    ASSUME IInv, NEW p \in Mine,
           Grant(p) \/ Refuse(p) \/ FailClaim(p) \/ HandleDetach(p)
    PROVE  IInv'
<1> DEFINE m == Head(outbox[p])
<1>1. /\ outbox[p] # <<>> /\ Pop(p) /\ UNCHANGED <<stream, wire, daemon, client>>
      /\ m.kind \in {"claim", "detach"}
  BY DEF Grant, Refuse, FailClaim, HandleDetach, Head1
<1>2. UNCHANGED <<cache, epoch, mounted, claimed, commands>>
  BY <1>1 DEF client
<1>3. TypeOK /\ Seated /\ Recorded /\ mounted \subseteq Mine
  BY DEF IInv, TypeOK
<1>4. /\ outbox' \in [Mine -> Seq(Message)] /\ m \in Pipe(p)
      /\ \A q \in Mine : Pipe(q)' \subseteq Pipe(q)
      /\ \A q \in Mine \ {p} : Pipe(q)' = Pipe(q)
      /\ Pipe(p) \subseteq Pipe(p)' \cup {m}
  BY <1>1, <1>2, <1>3, PopFacts
<1>5. m.epoch \in live => owner[m.epoch] = p
  BY <1>4 DEF IInv, Known
<1> HIDE DEF m
<1>6. /\ Moves
      /\ \/ seat' \in {seat, 0}
         \/ m.kind = "claim" /\ seat' = m.epoch /\ m.epoch \in live
      /\ \/ m.epoch \notin live'
         \/ m.kind = "claim" /\ (turn' = turn + 1 \/ m.expected # turn)
  <2>1. CASE Grant(p)
    <3>1. /\ m.kind = "claim" /\ Room /\ m.epoch \in live /\ Host!Take(m.epoch)
          /\ UNCHANGED <<regime, owner>> /\ Announces
      BY <2>1 DEF Grant, Head1, m
    <3> QED
      BY <3>1, TakeMoves
  <2>2. CASE Refuse(p)
    <3>1. /\ m.kind = "claim" /\ m.expected # turn /\ announcing' = Append(announcing, Snapshot)
          /\ UNCHANGED session
      BY <2>2 DEF Refuse, Head1, m
    <3> QED
      BY <3>1, StayMoves
  <2>3. CASE FailClaim(p)
    <3>1. m.epoch \notin live /\ UNCHANGED <<session, announcing>>
      BY <2>3 DEF FailClaim, m
    <3>2. UNCHANGED live
      BY <3>1 DEF session
    <3>3. Moves /\ seat' = seat
      BY <3>1, StayMoves
    <3> QED
      BY <3>1, <3>2, <3>3
  <2>4. CASE HandleDetach(p)
    <3>1. CASE m.epoch \in live
      <4>1. Room /\ Host!End(m.epoch) /\ UNCHANGED <<regime, owner>> /\ Announces
        BY <2>4, <3>1 DEF HandleDetach, m
      <4>2. Moves /\ live' = live \ {m.epoch} /\ seat' \in {0, seat}
        BY <3>1, <4>1, EndMoves
      <4>3. m.epoch \notin live'
        BY <4>2
      <4> QED
        BY <4>2, <4>3
    <3>2. CASE m.epoch \notin live
      <4>1. UNCHANGED <<session, announcing>>
        BY <2>4, <3>2 DEF HandleDetach, m
      <4>2. UNCHANGED live
        BY <4>1 DEF session
      <4>3. Moves /\ seat' = seat
        BY <4>1, StayMoves
      <4> QED
        BY <3>2, <4>2, <4>3
    <3> QED
      BY <3>1, <3>2
  <2> QED
    BY <2>1, <2>2, <2>3, <2>4
<1> QED
  BY <1>1, <1>2, <1>3, <1>4, <1>5, <1>6, HostStep

-----------------------------------------------------------------------------
(* The steps of the stream and of the viewer's daemon. *)

\* The state stream of the session, from the announcement to the wire.
LEMMA StreamStep ==
    ASSUME IInv,
           \/ \E k \in DOMAIN announcing : Announce(k)
           \/ Subscribe \/ OpeningFrame \/ Forward \/ Repair
    PROVE  IInv'
<1>i. TypeOK /\ Seated /\ Recorded /\ Told /\ Fresh
  BY DEF IInv
<1>t. /\ announcing \in Seq(State) /\ backlog \in Seq(State) /\ wire \in Seq(State)
      /\ Len(backlog) <= BacklogSize /\ BacklogSize \in Nat \ {0}
  BY <1>i, BoundsOK DEF TypeOK
<1> DEFINE Flows ==
      /\ UNCHANGED <<session, daemon, outbox, client>>
      /\ announcing' \in Seq(State) /\ backlog' \in Seq(State) /\ wire' \in Seq(State)
      /\ Len(backlog') <= BacklogSize /\ lagged' \in BOOLEAN
      /\ stage' \in {"closed", "subscribed", "open"}
      /\ Flight' \subseteq Flight \cup {Snapshot}
      /\ \/ stage' # "open" \/ lagged'
         \/ stage' = stage /\ lagged' = lagged /\ Flight' = Flight
         \/ Snapshot \in Flight'
<1>s. Snapshot \in State
  BY <1>i, SnapshotFacts
<1>1. Flows
  <2>1. ASSUME NEW k \in DOMAIN announcing, Announce(k) PROVE Flows
    <3> DEFINE s == announcing[k]
               rest == Without(announcing, k)
    <3>1. rest \in Seq(State) /\ s \in State /\ ToSet(announcing) = {s} \cup ToSet(rest)
      BY <1>t, WithoutSet
    <3>2. /\ announcing' = rest /\ UNCHANGED <<session, stage, wire, daemon, outbox, client>>
          /\ IF stage = "closed" THEN UNCHANGED <<backlog, lagged>>
             ELSE /\ backlog' = Overrun(backlog, s, BacklogSize)
                  /\ lagged' = (lagged \/ Len(backlog) = BacklogSize)
      BY <2>1 DEF Announce
    <3>3. UNCHANGED bus
      BY <3>2 DEF daemon
    <3> HIDE DEF s, rest, Snapshot
    <3>4. CASE stage = "closed"
      BY <1>i, <1>t, <3>1, <3>2, <3>3, <3>4 DEF TypeOK, Flight
    <3>5. CASE stage # "closed"
      <4>1. /\ backlog' \in Seq(State) /\ Len(backlog') <= BacklogSize
            /\ ToSet(backlog') \subseteq ToSet(backlog) \cup {s}
            /\ Len(backlog) # BacklogSize => ToSet(backlog') = ToSet(backlog) \cup {s}
        <5> DEFINE ring == Overrun(backlog, s, BacklogSize)
        <5>1. /\ ring \in Seq(State) /\ Len(ring) <= BacklogSize
              /\ ToSet(ring) \subseteq ToSet(backlog) \cup {s}
              /\ Len(backlog) # BacklogSize => ToSet(ring) = ToSet(backlog) \cup {s}
          <6> HIDE DEF ring
          <6>1. backlog \in Seq(State) /\ s \in State /\ BacklogSize \in Nat \ {0}
                /\ Len(backlog) <= BacklogSize
            BY <1>t, <3>1
          <6> QED
            BY <6>1, OverrunSet DEF ring
        <5>2. backlog' = ring
          BY <3>2, <3>5
        <5> HIDE DEF ring
        <5> QED
          BY <5>1, <5>2
      <4>2. /\ lagged' \in BOOLEAN /\ stage' \in {"closed", "subscribed", "open"}
            /\ announcing' \in Seq(State) /\ wire' \in Seq(State)
        BY <1>i, <1>t, <3>1, <3>2, <3>5 DEF TypeOK
      <4>3. Flight' \subseteq Flight
        BY <3>1, <3>2, <3>3, <4>1 DEF Flight
      <4>4. lagged' \/ (stage' = stage /\ lagged' = lagged /\ Flight' = Flight)
        <5>1. CASE Len(backlog) = BacklogSize
          BY <3>2, <3>5, <5>1
        <5>2. CASE Len(backlog) # BacklogSize
          <6>1. Flight' = Flight
            BY <3>1, <3>2, <3>3, <4>1, <5>2 DEF Flight
          <6>2. stage' = stage /\ lagged' = lagged
            BY <1>i, <3>2, <3>5, <5>2 DEF TypeOK
          <6> QED
            BY <6>1, <6>2
        <5> QED
          BY <5>1, <5>2
      <4> QED
        BY <3>2, <4>1, <4>2, <4>3, <4>4
    <3> QED
      BY <3>4, <3>5
  <2>2. CASE Subscribe
    BY <1>i, <1>t, <2>2 DEF Subscribe, Flight, TypeOK, daemon
  <2>3. CASE OpeningFrame
    <3>1. /\ wire' = Append(wire, Snapshot) /\ stage' = "open"
          /\ UNCHANGED <<session, announcing, backlog, lagged, daemon, outbox, client>>
      BY <2>3 DEF OpeningFrame
    <3>2. UNCHANGED bus
      BY <3>1 DEF daemon
    <3> HIDE DEF Snapshot
    <3>3. wire' \in Seq(State) /\ ToSet(wire') = ToSet(wire) \cup {Snapshot}
      BY <1>s, <1>t, <3>1, AppendSet
    <3>4. Flight' = Flight \cup {Snapshot}
      BY <3>1, <3>2, <3>3 DEF Flight
    <3> QED
      BY <1>i, <1>t, <3>1, <3>3, <3>4 DEF TypeOK
  <2>4. CASE Forward
    <3>1. /\ backlog # <<>> /\ wire' = Append(wire, Head(backlog)) /\ backlog' = Tail(backlog)
          /\ UNCHANGED <<session, announcing, stage, lagged, daemon, outbox, client>>
      BY <2>4 DEF Forward
    <3>2. UNCHANGED bus
      BY <3>1 DEF daemon
    <3>3. /\ backlog' \in Seq(State) /\ Len(backlog') <= BacklogSize /\ Head(backlog) \in State
          /\ ToSet(backlog) = {Head(backlog)} \cup ToSet(backlog')
      BY <1>t, <3>1, TailSet
    <3>4. wire' \in Seq(State) /\ ToSet(wire') = ToSet(wire) \cup {Head(backlog)}
      BY <1>t, <3>1, <3>3, AppendSet
    <3>5. Flight' = Flight
      BY <3>1, <3>2, <3>3, <3>4 DEF Flight
    <3> QED
      BY <1>i, <1>t, <3>1, <3>3, <3>4, <3>5 DEF TypeOK
  <2>5. CASE Repair
    <3>1. /\ announcing' = Append(announcing, Snapshot) /\ lagged' = FALSE
          /\ UNCHANGED <<session, stage, backlog, wire, daemon, outbox, client>>
      BY <2>5 DEF Repair
    <3>2. UNCHANGED bus
      BY <3>1 DEF daemon
    <3> HIDE DEF Snapshot
    <3>3. announcing' \in Seq(State) /\ ToSet(announcing') = ToSet(announcing) \cup {Snapshot}
      BY <1>s, <1>t, <3>1, AppendSet
    <3>4. Flight' = Flight \cup {Snapshot}
      BY <3>1, <3>2, <3>3 DEF Flight
    <3> QED
      BY <1>i, <1>t, <3>1, <3>3, <3>4 DEF TypeOK
  <2> QED
    BY <2>1, <2>2, <2>3, <2>4, <2>5
<1>u. UNCHANGED <<regime, live, born, seat, turn, owner, held, record, bus, lost,
                  serving, outbox, cache, epoch, mounted, claimed, commands>>
  BY <1>1 DEF session, daemon, client
<1>2. TypeOK'
  BY <1>i, <1>u, <1>1 DEF TypeOK
<1>3. Told'
  <2>1. \A s \in Flight' : Honest(s)
    BY <1>i, <1>1, SnapshotFacts DEF Told
  <2>2. \A s : Honest(s) <=> Honest(s)'
    BY <1>u DEF Honest
  <2>3. \A s \in Flight' : Honest(s)'
    BY <2>1, <2>2
  <2>4. (record # None => Honest(record))' /\ (serving.phase = "read" => Honest(serving.known))'
    BY <1>i, <1>u DEF Told, Honest
  <2> QED
    BY <1>i, <1>u, <2>3, <2>4 DEF Told
<1>4. Fresh'
  BY <1>i, <1>u, <1>1, SnapshotFacts DEF Fresh, Lossless
<1>5. \A p \in Mine : Pipe(p)' = Pipe(p)
  BY <1>u DEF Pipe
<1> QED
  BY <1>1, <1>u, <1>2, <1>3, <1>4, <1>5, DaemonStep

\* The daemon's reader, its record and its bus.
LEMMA RelayStep ==
    ASSUME IInv,
           \/ Read \/ TimeOut \/ ReadRecord \/ Republish \/ OverrunBus
           \/ \E k \in DOMAIN bus : OverrunRelay(k)
    PROVE  IInv'
<1>i. TypeOK /\ Seated /\ Recorded /\ Told /\ Fresh
  BY DEF IInv
<1>t. /\ bus \in Seq(State) /\ wire \in Seq(State) /\ record \in State \cup {None}
      /\ serving \in {Idle} \cup [phase : {"waiting", "refused", "read"},
                                 pane : Mine, known : State \cup {None}]
      /\ None \notin State
  BY <1>i, NoneIsNoState DEF TypeOK
<1>h. /\ \A s \in Flight : Honest(s)
      /\ \A s : Honest(s) => s \in State
      /\ record # None => Honest(record)
      /\ serving.phase = "read" => Honest(serving.known)
      /\ bus # <<>> \/ lost \/ serving.phase \in {"refused", "read"} => record # None
  BY <1>i DEF Told, Honest
<1> DEFINE Relays ==
      /\ UNCHANGED <<session, announcing, stage, backlog, lagged, outbox, client>>
      /\ wire' \in Seq(State) /\ bus' \in Seq(State) /\ lost' \in BOOLEAN
      /\ record' = None \/ Honest(record')
      /\ serving' \in {Idle} \cup [phase : {"waiting", "refused", "read"},
                                  pane : Mine, known : State \cup {None}]
      /\ serving'.phase = "read" => Honest(serving'.known)
      /\ bus' # <<>> \/ lost' \/ serving'.phase \in {"refused", "read"} => record' # None
      /\ \A s \in Flight' : Honest(s)
      /\ Flight \subseteq Flight' \/ ~Lossless
<1>1. Relays
  <2>1. CASE Read
    <3> DEFINE s == Head(wire)
    <3>1. /\ wire # <<>> /\ wire' = Tail(wire) /\ record' = s /\ bus' = Append(bus, s)
          /\ serving' = IF serving.phase # "waiting" THEN serving
                        ELSE IF Won(s) THEN Idle
                        ELSE [serving EXCEPT !.phase = "refused", !.known = None]
          /\ UNCHANGED <<session, announcing, stream, lost, outbox, client>>
      BY <2>1 DEF Read, Publish
    <3>2. UNCHANGED <<stage, backlog, lagged>>
      BY <3>1 DEF stream
    <3>3. wire' \in Seq(State) /\ s \in State /\ ToSet(wire) = {s} \cup ToSet(wire')
      BY <1>t, <3>1, TailSet
    <3> HIDE DEF s
    <3>4. bus' \in Seq(State) /\ ToSet(bus') = ToSet(bus) \cup {s}
      BY <1>t, <3>1, <3>3, AppendSet
    <3>5. Flight' = Flight /\ s \in Flight
      BY <3>1, <3>2, <3>3, <3>4 DEF Flight
    <3>6. /\ serving' \in {Idle} \cup [phase : {"waiting", "refused", "read"},
                                      pane : Mine, known : State \cup {None}]
          /\ serving'.phase = "read" => serving' = serving
      <4>1. CASE serving.phase # "waiting"
        BY <1>t, <3>1, <4>1
      <4>2. CASE serving.phase = "waiting" /\ Won(s)
        <5>1. serving' = Idle /\ Idle.phase = "idle"
          BY <3>1, <4>2 DEF Idle
        <5> QED
          BY <5>1
      <4>3. CASE serving.phase = "waiting" /\ ~Won(s)
        <5>1. serving \in [phase : {"waiting", "refused", "read"},
                           pane : Mine, known : State \cup {None}]
          BY <1>t, <4>3 DEF Idle
        <5>2. serving' = [serving EXCEPT !.phase = "refused", !.known = None]
          BY <3>1, <4>3
        <5>3. /\ serving' \in [phase : {"waiting", "refused", "read"},
                               pane : Mine, known : State \cup {None}]
              /\ serving'.phase = "refused"
          BY <5>1, <5>2
        <5> QED
          BY <5>3
      <4> QED
        BY <4>1, <4>2, <4>3
    <3>7. Honest(s) /\ record' # None
      BY <1>h, <1>t, <3>1, <3>3, <3>5
    <3>8. lost' \in BOOLEAN
      BY <1>i, <3>1 DEF TypeOK
    <3>9. serving'.phase = "read" => Honest(serving'.known)
      BY <1>h, <3>6
    <3> QED
      BY <1>h, <3>1, <3>2, <3>3, <3>4, <3>5, <3>6, <3>7, <3>8, <3>9
  <2>2. CASE TimeOut
    <3>1. /\ serving' = Idle
          /\ UNCHANGED <<session, announcing, stream, wire, record, bus, lost, outbox, client>>
      BY <2>2 DEF TimeOut
    <3>2. UNCHANGED <<stage, backlog, lagged>> /\ serving'.phase = "idle"
      BY <3>1 DEF stream, Idle
    <3>3. Flight' = Flight
      BY <3>1, <3>2 DEF Flight
    <3> QED
      BY <1>i, <1>h, <1>t, <3>1, <3>2, <3>3 DEF TypeOK
  <2>3. CASE ReadRecord
    <3>1. /\ serving.phase = "refused"
          /\ serving' = [serving EXCEPT !.phase = "read", !.known = record]
          /\ UNCHANGED <<session, announcing, stream, wire, record, bus, lost, outbox, client>>
      BY <2>3 DEF ReadRecord
    <3>2. UNCHANGED <<stage, backlog, lagged>>
      BY <3>1 DEF stream
    <3>3. /\ serving' \in [phase : {"waiting", "refused", "read"},
                           pane : Mine, known : State \cup {None}]
          /\ serving'.known = record /\ record # None
      <4>1. serving \in [phase : {"waiting", "refused", "read"},
                         pane : Mine, known : State \cup {None}]
        BY <1>t, <3>1 DEF Idle
      <4>2. record # None /\ record \in State
        BY <1>h, <1>t, <3>1
      <4> QED
        BY <3>1, <4>1, <4>2
    <3>4. Flight' = Flight
      BY <3>1, <3>2 DEF Flight
    <3> QED
      BY <1>i, <1>h, <1>t, <3>1, <3>2, <3>3, <3>4 DEF TypeOK
  <2>4. CASE Republish
    <3> DEFINE s == serving.known
    <3>1. /\ serving.phase = "read" /\ record' = s /\ bus' = Append(bus, s) /\ serving' = Idle
          /\ UNCHANGED <<session, announcing, stream, wire, lost, outbox, client>>
      BY <2>4 DEF Republish, Publish
    <3>2. UNCHANGED <<stage, backlog, lagged>> /\ serving'.phase = "idle"
      BY <3>1 DEF stream, Idle
    <3>3. Honest(s) /\ s \in State /\ s # None
      BY <1>h, <1>t, <3>1
    <3> HIDE DEF s
    <3>4. bus' \in Seq(State) /\ ToSet(bus') = ToSet(bus) \cup {s}
      BY <1>t, <3>1, <3>3, AppendSet
    <3>5. Flight' = Flight \cup {s}
      BY <3>1, <3>2, <3>4 DEF Flight
    <3> QED
      BY <1>i, <1>h, <1>t, <3>1, <3>2, <3>3, <3>4, <3>5 DEF TypeOK
  <2>5. CASE OverrunBus
    <3>1. /\ "bus" \in regime.crowded /\ bus # <<>> /\ bus' = Tail(bus) /\ lost' = TRUE
          /\ UNCHANGED <<session, announcing, stream, wire, record, serving, outbox, client>>
      BY <2>5 DEF OverrunBus
    <3>2. UNCHANGED <<stage, backlog, lagged>>
      BY <3>1 DEF stream
    <3>3. bus' \in Seq(State) /\ ToSet(bus') \subseteq ToSet(bus)
      BY <1>t, <3>1, TailSet
    <3>4. Flight' \subseteq Flight
      BY <3>1, <3>2, <3>3 DEF Flight
    <3> QED
      BY <1>h, <1>t, <3>1, <3>2, <3>3, <3>4 DEF Lossless
  <2>6. ASSUME NEW k \in DOMAIN bus, OverrunRelay(k) PROVE Relays
    <3>1. /\ "relay" \in regime.crowded /\ bus' = Without(bus, k)
          /\ UNCHANGED <<session, announcing, stream, wire, record, lost, serving, outbox, client>>
      BY <2>6 DEF OverrunRelay
    <3>2. UNCHANGED <<stage, backlog, lagged>>
      BY <3>1 DEF stream
    <3>3. bus' \in Seq(State) /\ ToSet(bus') \subseteq ToSet(bus) /\ bus # <<>>
      BY <1>t, <3>1, WithoutSet
    <3>4. Flight' \subseteq Flight
      BY <3>1, <3>2, <3>3 DEF Flight
    <3> QED
      BY <1>i, <1>h, <1>t, <3>1, <3>2, <3>3, <3>4 DEF Lossless, TypeOK
  <2> QED
    BY <2>1, <2>2, <2>3, <2>4, <2>5, <2>6
<1>u. UNCHANGED <<regime, live, born, seat, turn, owner, held, announcing, stage, backlog,
                  lagged, outbox, cache, epoch, mounted, claimed, commands>>
  BY <1>1 DEF session, client
<1>2. TypeOK'
  <2>1. record' \in State \cup {None}
    BY <1>1, <1>h
  <2> QED
    BY <1>i, <1>u, <1>1, <2>1 DEF TypeOK
<1>3. Told'
  <2>1. \A s : Honest(s) <=> Honest(s)'
    BY <1>u DEF Honest
  <2>2. \A s \in Flight' : Honest(s)'
    BY <1>1, <2>1
  <2>3. (record # None => Honest(record))' /\ (serving.phase = "read" => Honest(serving.known))'
    BY <1>1, <1>u DEF Honest
  <2> QED
    BY <1>i, <1>u, <1>1, <2>2, <2>3 DEF Told
<1>4. Fresh'
  BY <1>i, <1>u, <1>1 DEF Fresh, Lossless
<1>5. \A p \in Mine : Pipe(p)' = Pipe(p)
  BY <1>u DEF Pipe
<1> QED
  BY <1>1, <1>u, <1>2, <1>3, <1>4, <1>5, DaemonStep

\* A command goes from the client's queue to its pane's stream.
LEMMA ServeStep == ASSUME IInv, Serve PROVE IInv'
<1> DEFINE c == Head(commands)
<1>i. TypeOK /\ Told /\ Fresh
  BY DEF IInv
<1>1. /\ commands # <<>> /\ serving = Idle /\ commands' = Tail(commands)
      /\ outbox' = [outbox EXCEPT ![c.pane] = Append(outbox[c.pane], c.message)]
      /\ serving' = IF c.message.kind = "claim"
                    THEN [phase |-> "waiting", pane |-> c.pane, known |-> record] ELSE Idle
      /\ UNCHANGED <<session, announcing, stream, wire, record, bus, lost,
                     cache, epoch, mounted, claimed>>
  BY DEF Serve
<1>u. UNCHANGED <<regime, live, born, seat, turn, owner, held, stage, backlog, lagged>>
  BY <1>1 DEF session, stream
<1>t. commands \in Seq(Command) /\ outbox \in [Mine -> Seq(Message)]
  BY <1>i DEF TypeOK
<1>2. /\ commands' \in Seq(Command) /\ c \in Command
      /\ ToSet(commands) = {c} \cup ToSet(commands')
  BY <1>1, <1>t, TailSet
<1>3. c.pane \in Mine /\ c.message \in Message
  BY <1>2 DEF Command
<1> HIDE DEF c
<1> DEFINE out == Append(outbox[c.pane], c.message)
<1>4. out \in Seq(Message) /\ ToSet(out) = ToSet(outbox[c.pane]) \cup {c.message}
  BY <1>t, <1>3, AppendSet
<1> HIDE DEF out
<1>5. /\ outbox' \in [Mine -> Seq(Message)] /\ outbox'[c.pane] = out
      /\ \A p \in Mine : p # c.pane => outbox'[p] = outbox[p]
  BY <1>1, <1>t, <1>3, <1>4 DEF out
<1>6. ASSUME NEW p \in Mine PROVE Pipe(p)' = Pipe(p)
  <2>1. CASE p = c.pane
    BY <1>2, <1>4, <1>5, <2>1 DEF Pipe
  <2>2. CASE p # c.pane
    BY <1>2, <1>5, <2>2 DEF Pipe
  <2> QED
    BY <2>1, <2>2
<1>7. /\ serving' \in {Idle} \cup [phase : {"waiting", "refused", "read"},
                                  pane : Mine, known : State \cup {None}]
      /\ serving'.phase \in {"waiting", "idle"}
  <2>1. record \in State \cup {None}
    BY <1>i DEF TypeOK
  <2> QED
    BY <1>1, <1>3, <2>1 DEF Idle
<1>8. TypeOK'
  BY <1>i, <1>1, <1>u, <1>2, <1>5, <1>7 DEF TypeOK
<1>9. Told'
  <2>1. Flight' = Flight
    BY <1>1, <1>u DEF Flight
  <2>2. \A s : Honest(s) <=> Honest(s)'
    BY <1>u DEF Honest
  <2>3. (record # None => Honest(record))'
    BY <1>i, <1>1, <1>u DEF Told, Honest
  <2>4. \A s \in Flight' : Honest(s)'
    BY <1>i, <2>1, <2>2 DEF Told
  <2> QED
    BY <1>i, <1>1, <1>u, <1>7, <2>3, <2>4 DEF Told
<1>10. Fresh'
  BY <1>i, <1>1, <1>u DEF Fresh, Lossless, Flight
<1> QED
  BY <1>1, <1>6, <1>8, <1>9, <1>10, DaemonStep

-----------------------------------------------------------------------------
(* Steps of the client. *)

NoController == [view |-> None, revision |-> 0]

\* The reclaim funnel: who claims, and what is queued for it.
Reclaimed(claimants, panes, c, before, sent) ==
    /\ \A p \in panes : p \in claimants <=> Wants(p, epoch'[p], c)
    /\ claimed' \in [Mine -> [epoch : 0..MaxBorn, revision : 0..MaxTurn]]
    /\ \A p \in claimants : claimed'[p] = [epoch |-> epoch'[p], revision |-> c.revision]
    /\ \A p \in Mine \ claimants : claimed'[p] = before[p]
    /\ commands' \in Seq(Command)
    /\ ToSet(commands') = ToSet(sent) \cup {Claim(p, epoch'[p], c) : p \in claimants}

\* Whatever order the panes claim in, each that wants the seat claims it once.
LEMMA ReclaimFacts ==
    ASSUME TypeOK, NEW panes \in SUBSET Mine, NEW c \in State \cup {NoController},
           NEW before \in [Mine -> [epoch : 0..MaxBorn, revision : 0..MaxTurn]],
           NEW sent \in Seq(Command), epoch' \in [Mine -> 0..MaxBorn],
           Reclaim(panes, c, before, sent)
    PROVE  \E claimants \in SUBSET panes : Reclaimed(claimants, panes, c, before, sent)
<1> DEFINE claimants == {p \in panes : Wants(p, epoch'[p], c)}
           Claims(order) == [k \in DOMAIN order |-> Claim(order[k], epoch'[order[k]], c)]
<1>1. /\ claimed' = [p \in Mine |->
               IF p \in claimants THEN [epoch |-> epoch'[p], revision |-> c.revision]
               ELSE before[p]]
      /\ \E order \in SetToSeqs(claimants) : commands' = sent \o Claims(order)
  BY DEF Reclaim
<1>2. IsFiniteSet(claimants)
  BY BoundsOK, FS_Subset
<1>3. PICK order \in SetToSeqs(claimants) : commands' = sent \o Claims(order)
  BY <1>1
<1>4. \A p \in panes : p \in claimants <=> Wants(p, epoch'[p], c)
  OBVIOUS
<1>5. \A p \in claimants : epoch'[p] \in 1..MaxBorn
  BY DEF Wants
<1>6. claimants \subseteq panes
  OBVIOUS
<1> HIDE DEF claimants
<1>7. order \in Seq(claimants) /\ ToSet(order) = claimants
  BY <1>2, OrderSet
<1>8. c.revision \in 0..MaxTurn /\ (c.revision # 0 => c.revision \in Turns)
  BY BoundsOK DEF State, Turns, NoController
<1>9. \A p \in claimants : Claim(p, epoch'[p], c) \in Command
  BY <1>5, <1>6, <1>8 DEF Claim, Command, Message
<1>10. /\ Claims(order) \in Seq(Command)
       /\ ToSet(Claims(order)) = {Claim(p, epoch'[p], c) : p \in claimants}
  <2>1. /\ Len(order) \in Nat /\ DOMAIN order = 1..Len(order)
        /\ \A k \in 1..Len(order) : order[k] \in claimants
    BY <1>7
  <2> HIDE DEF Claim
  <2>2. DOMAIN Claims(order) = 1..Len(order)
    BY <2>1
  <2>3. Claims(order) \in Seq(Command)
    BY <1>9, <2>1
  <2> QED
    BY <1>7, <2>1, <2>2, <2>3 DEF ToSet
<1> HIDE DEF Claims
<1>11. /\ commands' \in Seq(Command)
       /\ ToSet(commands') = ToSet(sent) \cup ToSet(Claims(order))
  BY <1>3, <1>10, ConcatSet
<1>12. /\ claimed' \in [Mine -> [epoch : 0..MaxBorn, revision : 0..MaxTurn]]
       /\ \A p \in claimants : claimed'[p] = [epoch |-> epoch'[p], revision |-> c.revision]
       /\ \A p \in Mine \ claimants : claimed'[p] = before[p]
  BY <1>1, <1>6, <1>8
<1> QED
  BY <1>4, <1>6, <1>10, <1>11, <1>12 DEF Reclaimed

\* What a step of the client must see to itself, before the reclaim funnel runs
\* for `panes`: `before` and `sent` are what it leaves in claimed and commands.
\* An attachment is kept, succeeded by the latest, or given up with a detach.
Kept(q, before) == epoch'[q] = epoch[q] /\ before[q] = claimed[q]

Succeeded(q, before) ==
    /\ epoch'[q] > epoch[q] /\ before[q] = claimed[q]
    /\ epoch'[q] <= born /\ owner[epoch'[q]] = q
    /\ \A j \in 1..born : owner[j] = q => j <= epoch'[q]

GivenUp(q, before, sent) ==
    /\ epoch[q] # 0 /\ epoch'[q] = 0 /\ before[q] = [epoch |-> 0, revision |-> 0]
    /\ [pane |-> q, message |-> Leave(epoch[q])] \in ToSet(sent)

Ready(panes, before, sent, c) ==
    /\ \A q \in Mine : Kept(q, before) \/ Succeeded(q, before) \/ GivenUp(q, before, sent)
    /\ \A q \in panes : before[q] = claimed[q]
    /\ \A q \in Mine \ mounted' : epoch'[q] = 0 /\ q \notin panes
    /\ \A q \in mounted' \ panes : q \in mounted /\ c = cache /\ Kept(q, before)
    /\ ToSet(commands) \subseteq ToSet(sent)
    /\ \A d \in ToSet(sent) \ ToSet(commands) :
          epoch[d.pane] # 0 /\ d.message = Leave(epoch[d.pane])
    /\ c.revision = turn /\ c.view = None =>
          \/ seat = 0 \/ Vacating
          \/ owner[seat] \in Mine
             /\ [pane |-> owner[seat], message |-> Leave(seat)] \in ToSet(sent)

\* A step of the client that is Ready, and then runs the funnel.
LEMMA ClientStep ==
    ASSUME IInv, NEW panes \in SUBSET Mine,
           NEW before \in [Mine -> [epoch : 0..MaxBorn, revision : 0..MaxTurn]],
           NEW sent \in Seq(Command), NEW c \in State \cup {NoController},
           Reclaim(panes, c, before, sent), Ready(panes, before, sent, c), cache' = c,
           UNCHANGED <<session, announcing, stream, wire, record, serving, outbox>>,
           bus' \in Seq(State), lost' \in BOOLEAN,
           epoch' \in [Mine -> 0..MaxBorn], mounted' \subseteq Mine,
           Told', Fresh'
    PROVE  IInv'
<1>i. /\ TypeOK /\ Seated /\ Recorded /\ Told /\ Fresh /\ Known
      /\ Own /\ Seen /\ Funnel /\ Sent
  BY DEF IInv
<1>u. UNCHANGED <<regime, live, born, seat, turn, owner, held, announcing, stage, backlog,
                  lagged, wire, record, serving, outbox>>
  BY DEF session, stream
<1>0. PICK claimants \in SUBSET panes : Reclaimed(claimants, panes, c, before, sent)
  BY <1>i, ReclaimFacts
<1>1. /\ \A p \in panes : p \in claimants <=> Wants(p, epoch'[p], c)
      /\ claimed' \in [Mine -> [epoch : 0..MaxBorn, revision : 0..MaxTurn]]
      /\ \A p \in claimants : claimed'[p] = [epoch |-> epoch'[p], revision |-> c.revision]
      /\ \A p \in Mine \ claimants : claimed'[p] = before[p]
      /\ commands' \in Seq(Command)
      /\ ToSet(commands') = ToSet(sent) \cup {Claim(p, epoch'[p], c) : p \in claimants}
  BY <1>0 DEF Reclaimed
<1>n. /\ born \in Nat /\ live \subseteq 1..born /\ (seat = 0 \/ seat \in live)
      /\ turn \in Nat \ {0} /\ c.revision \in Nat /\ c.revision <= turn
      /\ \A p \in Mine : epoch[p] \in Nat /\ epoch'[p] \in Nat
  <2>1. born \in Nat /\ live \subseteq 1..born /\ (seat = 0 \/ seat \in live) /\ turn \in Nat \ {0}
    BY <1>i DEF Seated, Turns
  <2>2. c.revision \in Nat
    BY DEF State, Turns, NoController
  <2>3. c.revision <= turn
    BY <1>u DEF Told
  <2>4. \A p \in Mine : epoch[p] \in Nat /\ epoch'[p] \in Nat
    BY <1>i DEF TypeOK
  <2> QED
    BY <2>1, <2>2, <2>3, <2>4
<1>r. /\ \A q \in Mine : Kept(q, before) \/ Succeeded(q, before) \/ GivenUp(q, before, sent)
      /\ \A q \in panes : before[q] = claimed[q]
      /\ \A q \in Mine \ mounted' : epoch'[q] = 0 /\ q \notin panes
      /\ \A q \in mounted' \ panes : q \in mounted /\ c = cache /\ Kept(q, before)
  BY DEF Ready
<1>s. /\ ToSet(commands) \subseteq ToSet(sent)
      /\ \A d \in ToSet(sent) \ ToSet(commands) :
            epoch[d.pane] # 0 /\ d.message = Leave(epoch[d.pane])
  BY DEF Ready
<1>e. c.revision = turn /\ c.view = None =>
          \/ seat = 0 \/ Vacating
          \/ owner[seat] \in Mine
             /\ [pane |-> owner[seat], message |-> Leave(seat)] \in ToSet(sent)
  BY DEF Ready
<1> DEFINE Ask(p) == Claim(p, epoch'[p], c).message
<1>a. \A p \in Mine : /\ Claim(p, epoch'[p], c).pane = p
                      /\ Ask(p).kind = "claim" /\ Ask(p).epoch = epoch'[p]
                      /\ Ask(p).expected = IF c.revision = 0 THEN None ELSE c.revision
                      /\ Ask(p) = [kind |-> "claim", epoch |-> epoch'[p],
                                   expected |-> IF c.revision = 0 THEN None ELSE c.revision]
  BY DEF Claim
<1> HIDE DEF Ask
\* The messages on their way: those that were, a detach, and the new claims.
<1>2. /\ \A p \in Mine : Pipe(p) \subseteq Pipe(p)'
      /\ \A p \in claimants : Ask(p) \in Pipe(p)'
      /\ \A p \in Mine : \A m \in Pipe(p)' :
            \/ m \in Pipe(p)
            \/ epoch[p] # 0 /\ m = Leave(epoch[p])
            \/ p \in claimants /\ m = Ask(p)
      /\ \A p \in Mine : \A d \in ToSet(sent) : d.pane = p => d.message \in Pipe(p)'
  <2> SUFFICES ASSUME NEW p \in Mine
               PROVE  /\ Pipe(p) \subseteq Pipe(p)'
                      /\ p \in claimants => Ask(p) \in Pipe(p)'
                      /\ \A m \in Pipe(p)' :
                            \/ m \in Pipe(p)
                            \/ epoch[p] # 0 /\ m = Leave(epoch[p])
                            \/ p \in claimants /\ m = Ask(p)
                      /\ \A d \in ToSet(sent) : d.pane = p => d.message \in Pipe(p)'
    OBVIOUS
  <2>1. /\ Pipe(p) = ToSet(outbox[p])
              \cup {d.message : d \in {e \in ToSet(commands) : e.pane = p}}
        /\ Pipe(p)' = ToSet(outbox[p])
              \cup {d.message : d \in {e \in ToSet(commands') : e.pane = p}}
    BY <1>u DEF Pipe
  <2>2. \A d \in ToSet(sent) : d.pane = p => d.message \in Pipe(p)'
    BY <1>1, <2>1
  <2>3. Pipe(p) \subseteq Pipe(p)'
    BY <1>s, <2>1, <2>2
  <2>4. p \in claimants => Ask(p) \in Pipe(p)'
    <3> SUFFICES ASSUME p \in claimants PROVE Ask(p) \in Pipe(p)'
      OBVIOUS
    <3>1. Claim(p, epoch'[p], c) \in ToSet(commands') /\ Claim(p, epoch'[p], c).pane = p
      BY <1>1, <1>a
    <3> QED
      BY <2>1, <3>1 DEF Ask
  <2>5. ASSUME NEW m \in Pipe(p)', m \notin Pipe(p)
        PROVE  (epoch[p] # 0 /\ m = Leave(epoch[p])) \/ (p \in claimants /\ m = Ask(p))
    <3>1. PICK d \in ToSet(commands') : d.pane = p /\ m = d.message
      BY <2>1, <2>5
    <3>2. d \notin ToSet(commands)
      BY <2>1, <2>5, <3>1
    <3>3. CASE d \in ToSet(sent)
      BY <1>s, <3>1, <3>2, <3>3
    <3>4. CASE d \notin ToSet(sent)
      <4>1. PICK q \in claimants : d = Claim(q, epoch'[q], c)
        BY <1>1, <3>4
      <4>2. q = p
        BY <1>a, <3>1, <4>1
      <4> QED
        BY <3>1, <4>1, <4>2 DEF Ask
    <3> QED
      BY <3>3, <3>4
  <2> QED
    BY <2>2, <2>3, <2>4, <2>5
<1>3. TypeOK'
  BY <1>i, <1>u, <1>1 DEF TypeOK, NoController
<1>4. Seated' /\ Recorded'
  BY <1>i, <1>u DEF Seated, Recorded, Snapshot
<1>v. Vacating => Vacating'
  <2> SUFFICES ASSUME Vacating PROVE Vacating'
    OBVIOUS
  <2>1. PICK q \in Mine : q = owner[seat] /\ Leave(seat) \in Pipe(q)
    BY DEF Vacating
  <2>2. Leave(seat) \in Pipe(q)'
    BY <1>2, <2>1
  <2> QED
    BY <1>u, <2>1, <2>2 DEF Vacating, Leave, Pipe
<1>w. c.revision = turn /\ c.view = None => seat = 0 \/ Vacating'
  <2>1. CASE seat # 0 /\ owner[seat] \in Mine
             /\ [pane |-> owner[seat], message |-> Leave(seat)] \in ToSet(sent)
    <3>1. PICK q \in Mine : q = owner[seat]
      BY <2>1
    <3>2. Leave(seat) \in Pipe(q)'
      <4> DEFINE d == [pane |-> q, message |-> Leave(seat)]
      <4>1. d \in ToSet(sent) /\ d.pane = q /\ d.message = Leave(seat)
        BY <2>1, <3>1
      <4> HIDE DEF d
      <4> QED
        BY <1>2, <4>1
    <3> QED
      BY <1>u, <2>1, <3>1, <3>2 DEF Vacating, Leave, Pipe
  <2> QED
    BY <1>v, <1>e, <2>1
<1>5. Known'
  <2> SUFFICES ASSUME NEW p \in Mine
               PROVE  /\ epoch'[p] # 0 => epoch'[p] <= born /\ owner[epoch'[p]] = p
                      /\ p \notin mounted' => epoch'[p] = 0
                      /\ claimed'[p].epoch <= epoch'[p] /\ claimed'[p].revision <= turn
                      /\ \A m \in Pipe(p)' :
                            /\ m.epoch <= born /\ owner[m.epoch] = p
                            /\ m.kind = "claim" /\ m.expected # None => m.expected <= turn
    BY <1>u DEF Known
  <2>0. /\ epoch[p] # 0 => epoch[p] <= born /\ owner[epoch[p]] = p
        /\ claimed[p].epoch <= epoch[p] /\ claimed[p].revision <= turn
        /\ claimed[p].epoch \in Nat /\ claimed[p].revision \in Nat
        /\ \A m \in Pipe(p) :
              /\ m.epoch <= born /\ owner[m.epoch] = p
              /\ m.kind = "claim" /\ m.expected # None => m.expected <= turn
    BY <1>i DEF Known, TypeOK
  <2>1. epoch'[p] # 0 => epoch'[p] <= born /\ owner[epoch'[p]] = p
    BY <1>r, <2>0 DEF Kept, Succeeded, GivenUp
  <2>2. p \notin mounted' => epoch'[p] = 0
    BY <1>r
  <2>3. claimed'[p].epoch <= epoch'[p] /\ claimed'[p].revision <= turn
    <3>1. CASE p \in claimants
      <4>1. claimed'[p] = [epoch |-> epoch'[p], revision |-> c.revision]
        BY <1>1, <3>1
      <4> QED
        BY <1>n, <4>1
    <3>2. CASE p \notin claimants
      <4>1. claimed'[p] = before[p]
        BY <1>1, <3>2
      <4>2. CASE Kept(p, before)
        BY <2>0, <4>1, <4>2 DEF Kept
      <4>3. CASE Succeeded(p, before)
        BY <1>n, <2>0, <4>1, <4>3 DEF Succeeded
      <4>4. CASE GivenUp(p, before, sent)
        BY <1>n, <4>1, <4>4 DEF GivenUp
      <4> QED
        BY <1>r, <4>2, <4>3, <4>4
    <3> QED
      BY <3>1, <3>2
  <2>4. ASSUME NEW m \in Pipe(p)'
        PROVE  /\ m.epoch <= born /\ owner[m.epoch] = p
               /\ m.kind = "claim" /\ m.expected # None => m.expected <= turn
    <3>1. CASE m \in Pipe(p)
      BY <2>0, <3>1
    <3>2. CASE epoch[p] # 0 /\ m = Leave(epoch[p])
      <4>1. m.kind = "detach" /\ m.epoch = epoch[p]
        BY <3>2 DEF Leave
      <4> QED
        BY <2>0, <3>2, <4>1
    <3>3. CASE p \in claimants /\ m = Ask(p)
      <4>1. epoch'[p] # 0
        BY <1>1, <3>3 DEF Wants
      <4> QED
        BY <1>a, <1>n, <2>1, <3>3, <4>1
    <3> QED
      BY <1>2, <3>1, <3>2, <3>3
  <2> QED
    BY <2>1, <2>2, <2>3, <2>4
<1>6. Own'
  <2> SUFFICES ASSUME NEW p \in Mine, NEW i \in live, owner[i] = p,
                      seat = i \/ \E m \in Pipe(p)' : m.kind = "claim" /\ m.epoch = i
               PROVE  epoch'[p] = i \/ Leave(i) \in Pipe(p)'
    BY <1>u DEF Own, Leave
  <2>1. CASE \E m \in Pipe(p)' : m.kind = "claim" /\ m.epoch = i /\ m \notin Pipe(p)
    <3>1. PICK m \in Pipe(p)' : m.kind = "claim" /\ m.epoch = i /\ m \notin Pipe(p)
      BY <2>1
    <3>2. CASE m = Leave(epoch[p])
      BY <3>1, <3>2 DEF Leave
    <3>3. CASE m = Ask(p)
      BY <1>a, <3>1, <3>3
    <3> QED
      BY <1>2, <3>1, <3>2, <3>3
  <2>2. CASE seat = i \/ \E m \in Pipe(p) : m.kind = "claim" /\ m.epoch = i
    <3>1. epoch[p] = i \/ Leave(i) \in Pipe(p)
      BY <1>i, <2>2 DEF Own
    <3> SUFFICES ASSUME epoch[p] = i PROVE epoch'[p] = i \/ Leave(i) \in Pipe(p)'
      BY <1>2, <3>1
    <3>2. CASE Kept(p, before)
      BY <3>2 DEF Kept
    <3>3. CASE Succeeded(p, before)
      <4>1. /\ epoch'[p] \in 1..born /\ epoch'[p] > i /\ owner[epoch'[p]] = owner[i]
            /\ i \in Nat
        BY <1>n, <3>3 DEF Succeeded
      <4>2. epoch'[p] <= i
        BY <1>i, <4>1 DEF Seated
      <4> QED
        BY <1>n, <4>1, <4>2
    <3>4. CASE GivenUp(p, before, sent)
      <4> DEFINE d == [pane |-> p, message |-> Leave(i)]
      <4>1. d \in ToSet(sent) /\ d.pane = p /\ d.message = Leave(i)
        BY <3>4 DEF GivenUp
      <4> HIDE DEF d
      <4> QED
        BY <1>2, <4>1
    <3> QED
      BY <1>r, <3>2, <3>3, <3>4
  <2> QED
    BY <2>1, <2>2
<1>7. Seen'
  <2>1. ASSUME NEW p \in Mine, NEW m \in Pipe(p)', m.kind = "claim", m.expected = turn
        PROVE  seat = 0 \/ owner[seat] = p \/ Vacating'
    <3>1. CASE m \in Pipe(p)
      BY <1>i, <1>v, <2>1, <3>1 DEF Seen
    <3>2. CASE m = Leave(epoch[p])
      BY <2>1, <3>2 DEF Leave
    <3>3. CASE p \in claimants /\ m = Ask(p)
      <4>1. c.view \in {None, p}
        BY <1>1, <3>3 DEF Wants
      <4>2. c.revision = turn
        <5>1. None \notin Nat
          BY NoneIsNoState
        <5> QED
          BY <1>a, <1>n, <2>1, <3>3, <5>1
      <4>3. CASE c.view = None
        BY <1>w, <4>2, <4>3
      <4>4. CASE c.view = p /\ p # None
        <5>1. c.view = held[turn]
          BY <1>n, <1>u, <4>2, <4>4 DEF Told
        <5>2. held[turn] = IF seat = 0 THEN None ELSE owner[seat]
          BY <1>i DEF Recorded, Snapshot
        <5> QED
          BY <4>4, <5>1, <5>2
      <4> QED
        BY <4>1, <4>3, <4>4
    <3> QED
      BY <1>2, <3>1, <3>2, <3>3
  <2> QED
    BY <1>u, <1>w, <2>1 DEF Seen
<1>8. Funnel'
  <2> SUFFICES ASSUME NEW p \in mounted' PROVE ~Wants(p, epoch[p], cache)'
    BY DEF Funnel
  <2>1. CASE p \in claimants
    <3>1. claimed'[p] = [epoch |-> epoch'[p], revision |-> c.revision]
      BY <1>1, <2>1
    <3> QED
      BY <1>n, <3>1 DEF Wants
  <2>2. CASE p \in panes \ claimants
    <3>1. claimed'[p] = claimed[p] /\ ~Wants(p, epoch'[p], c)
      BY <1>1, <1>r, <2>2
    <3> QED
      BY <3>1 DEF Wants
  <2>3. CASE p \notin panes
    <3>1. claimed'[p] = claimed[p] /\ epoch'[p] = epoch[p] /\ p \in mounted /\ c = cache
      BY <1>1, <1>r, <2>3 DEF Kept
    <3> QED
      BY <1>i, <3>1 DEF Wants, Funnel
  <2> QED
    BY <2>1, <2>2, <2>3
<1>9. Sent'
  <2> SUFFICES ASSUME NEW p \in Mine, epoch'[p] \in live, claimed'[p].epoch = epoch'[p],
                      claimed'[p].revision = turn
               PROVE  [kind |-> "claim", epoch |-> epoch'[p], expected |-> turn] \in Pipe(p)'
    BY <1>u DEF Sent
  <2>1. CASE p \in claimants
    <3>1. claimed'[p] = [epoch |-> epoch'[p], revision |-> c.revision]
      BY <1>1, <2>1
    <3>2. c.revision = turn
      BY <3>1
    <3> QED
      BY <1>2, <1>a, <1>n, <2>1, <3>2
  <2>2. CASE p \notin claimants
    <3>1. claimed'[p] = before[p]
      BY <1>1, <2>2
    <3>2. CASE Kept(p, before)
      BY <1>i, <1>2, <3>1, <3>2 DEF Sent, Kept
    <3>3. CASE Succeeded(p, before)
      <4>1. claimed[p].epoch <= epoch[p] /\ claimed[p].epoch = epoch'[p] /\ epoch'[p] > epoch[p]
        BY <1>i, <3>1, <3>3 DEF Known, Succeeded
      <4> QED
        BY <1>n, <4>1
    <3>4. CASE GivenUp(p, before, sent)
      BY <1>n, <3>4 DEF GivenUp
    <3> QED
      BY <1>r, <3>2, <3>3, <3>4
  <2> QED
    BY <2>1, <2>2
<1> QED
  BY <1>3, <1>4, <1>5, <1>6, <1>7, <1>8, <1>9 DEF IInv

\* The client applies a state that the host once announced.
LEMMA ApplyStep ==
    ASSUME IInv, NEW s \in State, Honest(s), Apply(s),
           UNCHANGED <<session, announcing, stream, wire, record, serving, outbox>>,
           bus' \in Seq(State), lost' \in BOOLEAN,
           ToSet(bus') \subseteq ToSet(bus), ToSet(bus) \subseteq ToSet(bus') \cup {s},
           record # None
    PROVE  IInv'
<1>i. /\ TypeOK /\ Seated /\ Recorded /\ Told /\ Fresh
  BY DEF IInv
<1>u. UNCHANGED <<regime, live, born, seat, turn, owner, held, stage, backlog, lagged,
                  epoch, mounted>>
  BY DEF session, stream, Apply
<1>n. /\ s.revision \in Nat \ {0} /\ s.revision <= turn /\ s.view = held[s.revision]
      /\ turn \in Nat /\ cache.revision \in Nat /\ cache.revision <= turn
  BY <1>i DEF Honest, State, Turns, TypeOK, Told
<1>1. Flight' \subseteq Flight /\ Flight \subseteq Flight' \cup {s}
  BY <1>u DEF Flight
<1>2. \A t : Honest(t) <=> Honest(t)'
  BY <1>u DEF Honest
<1>3. /\ \A t \in Flight' : Honest(t)'
      /\ (record # None => Honest(record))'
      /\ (serving.phase = "read" => Honest(serving.known))'
  <2>1. \A t \in Flight' : Honest(t)'
    BY <1>i, <1>1, <1>2 DEF Told
  <2>2. (record # None => Honest(record))' /\ (serving.phase = "read" => Honest(serving.known))'
    BY <1>i, <1>u DEF Told, Honest
  <2> QED
    BY <2>1, <2>2
<1>4. CASE s.revision < cache.revision
  <2>1. UNCHANGED <<cache, claimed, commands>>
    BY <1>4 DEF Apply
  <2>2. \A p \in Mine : Pipe(p)' = Pipe(p)
    BY <2>1 DEF Pipe
  <2>3. TypeOK'
    BY <1>i, <1>u, <2>1 DEF TypeOK
  <2>4. Told'
    BY <1>i, <1>u, <1>3, <2>1 DEF Told
  <2>5. Fresh'
    <3>1. s.revision # turn
      BY <1>n, <1>4
    <3> QED
      BY <1>i, <1>u, <1>1, <2>1, <3>1 DEF Fresh, Lossless
  <2> QED
    BY <1>u, <2>1, <2>2, <2>3, <2>4, <2>5, DaemonStep
<1>5. CASE ~(s.revision < cache.revision)
  <2>1. cache' = s /\ Reclaim(mounted, s, claimed, commands)
    BY <1>5 DEF Apply
  <2>2. Told'
    BY <1>i, <1>u, <1>n, <1>3, <2>1 DEF Told
  <2>3. Fresh'
    <3>1. cache.revision = turn => s.revision = turn
      BY <1>n, <1>5
    <3> QED
      BY <1>i, <1>u, <1>1, <2>1, <3>1 DEF Fresh, Lossless
  <2>4. s.revision = turn /\ s.view = None => seat = 0
    <3> SUFFICES ASSUME s.revision = turn, s.view = None, seat # 0 PROVE FALSE
      OBVIOUS
    <3>1. owner[seat] = None
      BY <1>i, <1>n DEF Recorded, Snapshot
    <3>2. owner[seat] \in Views
      BY <1>i DEF Seated
    <3> QED
      BY <3>1, <3>2, BoundsOK DEF Views
  <2>5. Ready(mounted, claimed, commands, s)
    BY <1>i, <1>u, <2>4 DEF Ready, Kept, IInv, Known
  <2>6. /\ mounted \in SUBSET Mine /\ commands \in Seq(Command)
        /\ claimed \in [Mine -> [epoch : 0..MaxBorn, revision : 0..MaxTurn]]
        /\ epoch' \in [Mine -> 0..MaxBorn] /\ mounted' \subseteq Mine
    BY <1>i, <1>u DEF TypeOK
  <2> QED
    BY <2>1, <2>2, <2>3, <2>5, <2>6, ClientStep
<1> QED
  BY <1>4, <1>5

\* The client hears of a state: an event of the bus, or its reconciliation.
LEMMA HearStep == ASSUME IInv, Deliver \/ Reconcile PROVE IInv'
<1>i. TypeOK /\ Told
  BY DEF IInv
<1>t. bus \in Seq(State) /\ lost \in BOOLEAN
  BY <1>i DEF TypeOK
<1>1. CASE Deliver
  <2> DEFINE s == Head(bus)
  <2>1. /\ bus # <<>> /\ bus' = Tail(bus) /\ Apply(s)
        /\ UNCHANGED <<session, announcing, stream, wire, record, lost, serving, outbox>>
    BY <1>1 DEF Deliver
  <2>2. /\ s \in State /\ s \in ToSet(bus) /\ bus' \in Seq(State)
        /\ ToSet(bus) = {s} \cup ToSet(bus')
    BY <1>t, <2>1, TailSet
  <2> HIDE DEF s
  <2>3. Honest(s) /\ record # None
    BY <1>i, <2>1, <2>2 DEF Told, Flight
  <2> QED
    BY <1>t, <2>1, <2>2, <2>3, ApplyStep
<1>2. CASE Reconcile
  <2>1. /\ lost /\ lost' = FALSE /\ Apply(record)
        /\ UNCHANGED <<session, announcing, stream, wire, record, bus, serving, outbox>>
    BY <1>2 DEF Reconcile
  <2>2. Honest(record) /\ record # None
    BY <1>i, <2>1 DEF Told
  <2>3. record \in State
    BY <2>2 DEF Honest
  <2> QED
    BY <1>t, <2>1, <2>2, <2>3, ApplyStep
<1> QED
  BY <1>1, <1>2

\* A pane learns of its attachment.
LEMMA LearnStep == ASSUME IInv, NEW p \in Mine, Learn(p) PROVE IInv'
<1>i. TypeOK /\ Seated /\ Told /\ Fresh /\ Known /\ Seen
  BY DEF IInv
<1>1. /\ p \in mounted /\ Reclaim({p}, cache, claimed, commands)
      /\ UNCHANGED <<session, announcing, stream, wire, daemon, outbox, cache, mounted>>
      /\ \E i \in 1..born :
           /\ owner[i] = p /\ i > epoch[p]
           /\ \A j \in 1..born : owner[j] = p => j <= i
           /\ epoch' = [epoch EXCEPT ![p] = i]
  BY DEF Learn
<1>u. UNCHANGED <<regime, live, born, seat, turn, owner, held, stage, backlog, lagged,
                  record, bus, lost, serving>>
  BY <1>1 DEF session, stream, daemon
<1>2. PICK i \in 1..born : /\ owner[i] = p /\ i > epoch[p]
                           /\ \A j \in 1..born : owner[j] = p => j <= i
                           /\ epoch' = [epoch EXCEPT ![p] = i]
  BY <1>1
<1>3. /\ i \in 0..MaxBorn /\ i <= born /\ epoch \in [Mine -> 0..MaxBorn]
  <2>1. born \in 0..MaxBorn /\ MaxBorn \in Nat /\ epoch \in [Mine -> 0..MaxBorn]
    BY <1>i, BoundsOK DEF TypeOK
  <2> QED
    BY <2>1
<1>4. /\ epoch' \in [Mine -> 0..MaxBorn] /\ epoch'[p] = i
      /\ \A q \in Mine : q # p => epoch'[q] = epoch[q]
  BY <1>2, <1>3
<1>5. \A q \in Mine : Kept(q, claimed) \/ Succeeded(q, claimed)
  BY <1>2, <1>3, <1>4 DEF Kept, Succeeded
<1>6. \A q \in Mine \ {p} : Kept(q, claimed)
  BY <1>4 DEF Kept
<1>7. Ready({p}, claimed, commands, cache)
  <2>1. \A q \in mounted' \ {p} : q \in mounted /\ Kept(q, claimed)
    BY <1>i, <1>1, <1>6 DEF TypeOK
  <2>2. \A q \in Mine \ mounted' : epoch'[q] = 0 /\ q \notin {p}
    BY <1>i, <1>1, <1>4 DEF Known
  <2>3. cache.revision = turn /\ cache.view = None => seat = 0 \/ Vacating
    BY <1>i DEF Seen
  <2> QED
    BY <1>5, <2>1, <2>2, <2>3 DEF Ready
<1>8. /\ \A t : Honest(t) <=> Honest(t)'
      /\ Flight' = Flight
  BY <1>1, <1>u DEF Honest, Flight
<1>9. Told'
  <2>1. \A t \in Flight' : Honest(t)'
    BY <1>i, <1>8 DEF Told
  <2>2. (record # None => Honest(record))' /\ (serving.phase = "read" => Honest(serving.known))'
    BY <1>i, <1>u DEF Told, Honest
  <2> QED
    BY <1>i, <1>1, <1>u, <2>1, <2>2 DEF Told
<1>10. Fresh'
  BY <1>i, <1>1, <1>u, <1>8 DEF Fresh, Lossless
<1>11. /\ {p} \in SUBSET Mine /\ commands \in Seq(Command) /\ cache \in State \cup {NoController}
       /\ claimed \in [Mine -> [epoch : 0..MaxBorn, revision : 0..MaxTurn]]
       /\ mounted' \subseteq Mine /\ bus' \in Seq(State) /\ lost' \in BOOLEAN
  BY <1>i, <1>1, <1>u DEF TypeOK, NoController
<1> QED
  BY <1>1, <1>u, <1>4, <1>7, <1>9, <1>10, <1>11, ClientStep

\* A pane unmounts: its seat, if the client thinks it has it, is free at once.
LEMMA UnmountStep == ASSUME IInv, NEW p \in Mine, Unmount(p) PROVE IInv'
<1>i. TypeOK /\ Seated /\ Recorded /\ Told /\ Fresh /\ Known /\ Own /\ Seen
  BY DEF IInv
<1> DEFINE panes == IF cache.view = p THEN mounted \ {p} ELSE {}
           before == [claimed EXCEPT ![p] = [epoch |-> 0, revision |-> 0]]
           sent == Append(commands, Detach(p))
           c == IF cache.view = p THEN [cache EXCEPT !.view = None] ELSE cache
<1>1. /\ p \in mounted /\ epoch[p] # 0 /\ mounted' = mounted \ {p}
      /\ epoch' = [epoch EXCEPT ![p] = 0] /\ cache' = c
      /\ Reclaim(panes, c, before, sent)
      /\ UNCHANGED <<session, announcing, stream, wire, daemon, outbox>>
  BY DEF Unmount
<1>u. UNCHANGED <<regime, live, born, seat, turn, owner, held, stage, backlog, lagged,
                  record, bus, lost, serving>>
  BY <1>1 DEF session, stream, daemon
<1>n. /\ turn \in Nat \ {0} /\ cache.revision \in Nat /\ cache \in State \cup {NoController}
      /\ p # None
  <2>1. cache \in State \cup {NoController} /\ turn \in Turns
    BY <1>i DEF TypeOK, NoController
  <2>2. turn \in Nat \ {0} /\ cache.revision \in Nat
    BY <2>1 DEF State, Turns, NoController
  <2>3. p # None
    BY BoundsOK
  <2> QED
    BY <2>1, <2>2, <2>3
<1>2. /\ c \in State \cup {NoController} /\ c.revision = cache.revision
      /\ c.view = IF cache.view = p THEN None ELSE cache.view
      /\ cache.view # p => c = cache
  <2>1. CASE cache.view = p
    <3>1. cache \in State
      BY <1>n, <2>1 DEF NoController
    <3> QED
      BY <2>1, <3>1 DEF State
  <2>2. CASE cache.view # p
    BY <1>n, <2>2
  <2> QED
    BY <2>1, <2>2
<1>3. /\ epoch' \in [Mine -> 0..MaxBorn] /\ epoch'[p] = 0
      /\ \A q \in Mine : q # p => epoch'[q] = epoch[q]
      /\ before \in [Mine -> [epoch : 0..MaxBorn, revision : 0..MaxTurn]]
      /\ before[p] = [epoch |-> 0, revision |-> 0]
      /\ \A q \in Mine : q # p => before[q] = claimed[q]
  BY <1>i, <1>1, BoundsOK DEF TypeOK
<1>4. Detach(p) = [pane |-> p, message |-> Leave(epoch[p])] /\ Detach(p) \in Command
  <2>1. epoch[p] \in 1..MaxBorn
    BY <1>i, <1>1 DEF TypeOK
  <2> QED
    BY <2>1 DEF Detach, Leave, Command, Message
<1>5. /\ panes \in SUBSET Mine /\ p \notin panes /\ panes \subseteq mounted'
      /\ cache.view = p => panes = mounted' 
  BY <1>i, <1>1 DEF TypeOK
<1> HIDE DEF panes, before, c
<1>6. sent \in Seq(Command) /\ ToSet(sent) = ToSet(commands) \cup {Detach(p)}
  BY <1>i, <1>4, AppendSet DEF TypeOK
<1> HIDE DEF sent
<1>7. /\ GivenUp(p, before, sent)
      /\ \A q \in Mine : q # p => Kept(q, before)
  BY <1>1, <1>3, <1>4, <1>6 DEF GivenUp, Kept
<1>8. cache.view = p /\ cache.revision > 0 => held[cache.revision] = p
  BY <1>i, <1>n DEF Told
<1>9. c.revision = turn /\ c.view = None =>
          \/ seat = 0 \/ Vacating
          \/ owner[seat] \in Mine
             /\ [pane |-> owner[seat], message |-> Leave(seat)] \in ToSet(sent)
  <2> SUFFICES ASSUME cache.revision = turn, c.view = None, seat # 0, ~Vacating
               PROVE  /\ owner[seat] \in Mine
                      /\ [pane |-> owner[seat], message |-> Leave(seat)] \in ToSet(sent)
    BY <1>2
  <2>1. cache.view = p
    BY <1>i, <1>2 DEF Seen
  <2>2. owner[seat] = p
    BY <1>i, <1>n, <1>8, <2>1 DEF Recorded, Snapshot
  <2>3. epoch[p] = seat
    <3>1. epoch[p] = seat \/ Leave(seat) \in Pipe(p)
      BY <1>i, <2>2 DEF Own, Seated
    <3> QED
      BY <2>2, <3>1 DEF Vacating
  <2> QED
    BY <1>4, <1>6, <2>2, <2>3
<1>10. Ready(panes, before, sent, c)
  <2>1. \A d \in ToSet(sent) \ ToSet(commands) :
            epoch[d.pane] # 0 /\ d.message = Leave(epoch[d.pane])
    BY <1>1, <1>4, <1>6
  <2>2. \A q \in mounted' \ panes : q \in mounted /\ c = cache /\ Kept(q, before)
    BY <1>i, <1>1, <1>2, <1>5, <1>7 DEF TypeOK
  <2>3. \A q \in Mine \ mounted' : epoch'[q] = 0 /\ q \notin panes
    BY <1>i, <1>1, <1>3, <1>5 DEF Known
  <2> QED
    BY <1>3, <1>5, <1>6, <1>7, <1>9, <2>1, <2>2, <2>3 DEF Ready
<1>11. /\ \A t : Honest(t) <=> Honest(t)'
       /\ Flight' = Flight
  BY <1>1, <1>u DEF Honest, Flight
<1>12. Told'
  <2>1. \A t \in Flight' : Honest(t)'
    BY <1>i, <1>11 DEF Told
  <2>2. (record # None => Honest(record))' /\ (serving.phase = "read" => Honest(serving.known))'
    BY <1>i, <1>u DEF Told, Honest
  <2>3. c.revision > 0 => \/ c.view = held[c.revision]
                          \/ c.view = None /\ held[c.revision] \in Mine
    BY <1>i, <1>2, <1>8 DEF Told
  <2> QED
    BY <1>i, <1>1, <1>2, <1>u, <2>1, <2>2, <2>3 DEF Told
<1>13. Fresh'
  BY <1>i, <1>1, <1>2, <1>u, <1>11 DEF Fresh, Lossless
<1>14. mounted' \subseteq Mine /\ bus' \in Seq(State) /\ lost' \in BOOLEAN
  BY <1>i, <1>1, <1>u DEF TypeOK
<1> QED
  BY <1>1, <1>2, <1>3, <1>5, <1>6, <1>10, <1>12, <1>13, <1>14, <1>u, ClientStep

-----------------------------------------------------------------------------
(* The invariant, and what follows from it. *)

\* The invariant holds at the start,
LEMMA InitIInv == Init => IInv
<1> SUFFICES ASSUME Init PROVE IInv
  OBVIOUS
<1>1. /\ live = {} /\ born = 0 /\ seat = 0 /\ turn = 1
      /\ owner = [i \in 1..MaxBorn |-> None] /\ held = [r \in Turns |-> None]
      /\ announcing = <<>> /\ stage = "closed" /\ backlog = <<>> /\ lagged = FALSE
      /\ wire = <<>> /\ record = None /\ bus = <<>> /\ lost = FALSE
      /\ commands = <<>> /\ serving = Idle /\ outbox = [p \in Mine |-> <<>>]
      /\ cache = [view |-> None, revision |-> 0] /\ epoch = [p \in Mine |-> 0]
      /\ mounted = {} /\ claimed = [p \in Mine |-> [epoch |-> 0, revision |-> 0]]
      /\ regime \in Regimes
  BY DEF Init
<1>2. 1 \in Turns /\ MaxBorn \in Nat /\ MaxTurn \in Nat /\ BacklogSize \in Nat
  BY BoundsOK DEF Turns
<1>3. TypeOK
  <2>1. /\ owner \in [1..MaxBorn -> Views \cup {None}] /\ outbox \in [Mine -> Seq(Message)]
        /\ epoch \in [Mine -> 0..MaxBorn]
        /\ claimed \in [Mine -> [epoch : 0..MaxBorn, revision : 0..MaxTurn]]
    BY <1>1, <1>2
  <2>2. /\ {announcing, backlog, wire, bus} \subseteq Seq(State) /\ commands \in Seq(Command)
        /\ Len(backlog) <= BacklogSize
    BY <1>1, <1>2
  <2>3. born \in 0..MaxBorn /\ seat \in 0..MaxBorn
    BY <1>1, <1>2
  <2>6. /\ live \subseteq 1..MaxBorn /\ mounted \subseteq Mine
        /\ lagged \in BOOLEAN /\ lost \in BOOLEAN
        /\ stage \in {"closed", "subscribed", "open"}
    BY <1>1
  <2>4. cache \in State \cup {[view |-> None, revision |-> 0]} /\ turn \in Turns
    BY <1>1, <1>2
  <2>5. record \in State \cup {None} /\ regime \in Regimes /\ serving = Idle
    BY <1>1
  <2> QED
    BY <2>1, <2>2, <2>3, <2>4, <2>5, <2>6, <1>1 DEF TypeOK
<1>4. Flight = {} /\ \A p \in Mine : Pipe(p) = {}
  BY <1>1, EmptySet DEF Flight, Pipe
<1>5. Seated /\ Recorded
  BY <1>1, <1>2 DEF Seated, Recorded, Snapshot
<1>6. Told
  BY <1>1, <1>4 DEF Told, Idle
<1>7. Fresh /\ Known /\ Own /\ Seen /\ Funnel /\ Sent
  BY <1>1, <1>2, <1>4 DEF Fresh, Known, Own, Seen, Funnel, Sent
<1> QED
  BY <1>3, <1>5, <1>6, <1>7 DEF IInv

\* when nothing happens,
LEMMA StutterIInv == ASSUME IInv, UNCHANGED vars PROVE IInv'
<1>1. UNCHANGED <<session, announcing, stream, wire, daemon, outbox, client>>
  BY DEF vars
<1>2. TypeOK /\ Told /\ Fresh
  BY DEF IInv
<1>u. UNCHANGED <<regime, live, born, seat, turn, owner, held, announcing, stage, backlog,
                  lagged, wire, record, bus, lost, serving, outbox,
                  cache, epoch, mounted, claimed, commands>>
  BY <1>1 DEF session, stream, daemon, client
<1>3. TypeOK'
  BY <1>2, <1>u DEF TypeOK
<1>4. Told' /\ Fresh'
  BY <1>2, <1>u DEF Told, Fresh, Honest, Flight, Lossless
<1>5. \A p \in Mine : Pipe(p)' = Pipe(p)
  BY <1>u DEF Pipe
<1> QED
  BY <1>1, <1>u, <1>3, <1>4, <1>5, DaemonStep

\* and after every step.
LEMMA NextIInv == IInv /\ [Next]_vars => IInv'
<1> SUFFICES ASSUME IInv, [Next]_vars PROVE IInv'
  OBVIOUS
<1>1. ASSUME NEW p \in Mine, AttachMine(p) PROVE IInv'
  <2>1. /\ AttachHost(p) /\ p \in Views /\ mounted' = mounted \cup {p}
        /\ UNCHANGED <<cache, epoch, claimed, commands>> /\ mounted \subseteq Mine
    BY <1>1 DEF AttachMine, Views, IInv, TypeOK
  <2> QED
    BY <2>1, AttachStep
<1>2. ASSUME NEW f \in Foreign, AttachForeign(f) PROVE IInv'
  <2>1. /\ AttachHost(f) /\ f \in Views /\ mounted \subseteq Mine
        /\ UNCHANGED <<cache, epoch, claimed, commands, mounted>>
    BY <1>2 DEF AttachForeign, Views, IInv, TypeOK, client
  <2> QED
    BY <2>1, AttachStep
<1>3. ASSUME NEW p \in Mine, Grant(p) \/ Refuse(p) \/ FailClaim(p) \/ HandleDetach(p)
      PROVE  IInv'
  BY <1>3, PaneStep
<1>4. ASSUME NEW i \in live, ClaimForeign(i) \/ DetachForeign(i) PROVE IInv'
  BY <1>4, ForeignStep
<1>5. ASSUME NEW p \in Mine, Learn(p) PROVE IInv'
  BY <1>5, LearnStep
<1>6. ASSUME NEW p \in Mine, Unmount(p) PROVE IInv'
  BY <1>6, UnmountStep
<1>7. CASE (\E k \in DOMAIN announcing : Announce(k))
           \/ Subscribe \/ OpeningFrame \/ Forward \/ Repair
  BY <1>7, StreamStep
<1>8. CASE Read \/ TimeOut \/ ReadRecord \/ Republish \/ OverrunBus
           \/ \E k \in DOMAIN bus : OverrunRelay(k)
  BY <1>8, RelayStep
<1>9. CASE Serve
  BY <1>9, ServeStep
<1>10. CASE Deliver \/ Reconcile
  BY <1>10, HearStep
<1>11. CASE UNCHANGED vars
  BY <1>11, StutterIInv
<1> QED
  BY <1>1, <1>2, <1>3, <1>4, <1>5, <1>6, <1>7, <1>8, <1>9, <1>10, <1>11 DEF Next, Pane

\* What is in transit to the client, as a sequence and as a set.
LEMMA TransitFacts ==
    ASSUME TypeOK
    PROVE  InTransit \in Seq(State) /\ ToSet(InTransit) = Flight
<1> DEFINE host == announcing \o backlog
           sent == host \o wire
<1>1. {announcing, backlog, wire, bus} \subseteq Seq(State)
  BY DEF TypeOK
<1>2. host \in Seq(State) /\ ToSet(host) = ToSet(announcing) \cup ToSet(backlog)
  BY <1>1, ConcatSet
<1>3. InTransit = sent \o bus
  BY DEF InTransit
<1> HIDE DEF host
<1>4. sent \in Seq(State) /\ ToSet(sent) = ToSet(host) \cup ToSet(wire)
  BY <1>1, <1>2, ConcatSet
<1> HIDE DEF sent
<1>5. sent \o bus \in Seq(State) /\ ToSet(sent \o bus) = ToSet(sent) \cup ToSet(bus)
  BY <1>1, <1>4, ConcatSet
<1> QED
  BY <1>2, <1>3, <1>4, <1>5 DEF Flight

\* When nothing is on its way any more, nothing is.
LEMMA SettledFacts ==
    ASSUME TypeOK, Settled
    PROVE  Flight = {} /\ \A p \in Mine : Pipe(p) = {}
<1>1. ToSet(<<>>) = Flight
  BY TransitFacts DEF Settled, InTransit
<1>2. \A p \in Mine : Pipe(p) = {}
  BY EmptySet DEF Settled, Pipe
<1> QED
  BY <1>1, <1>2, EmptySet

\* The inductive invariant: what is on its way, in both directions, agrees
\* with the authority's history and with what the client remembers of it.
THEOREM Inductive == Spec => []IInv
<1> QED
  BY InitIInv, NextIInv, PTL DEF Spec

\* Every variable keeps to its type.
THEOREM TypeCorrect == Spec => []TypeOK
<1>1. IInv => TypeOK
  BY DEF IInv
<1> QED
  BY <1>1, Inductive, PTL

\* However announcements are delayed, reordered, repeated or lost, none of
\* them, nor the daemon's record, nor the client's cache, pairs a controller
\* with a revision at which it did not hold.
THEOREM NothingIsManufactured == Spec => []NothingManufactured
<1>1. IInv => NothingManufactured
  <2> SUFFICES ASSUME IInv PROVE NothingManufactured
    OBVIOUS
  <2>1. Told /\ TypeOK
    BY DEF IInv
  <2>2. InTransit \in Seq(State) /\ ToSet(InTransit) = Flight
    BY <2>1, TransitFacts
  <2> HIDE DEF InTransit
  <2>3. \A k \in DOMAIN InTransit : Honest(InTransit[k])
    BY <2>1, <2>2 DEF ToSet, Told
  <2> QED
    BY <2>1, <2>3 DEF NothingManufactured, Told, Honest
<1> QED
  BY <1>1, Inductive, PTL

\* Once nothing is on its way and no ring of the daemon was overrun, the
\* client knows the last change of controller.
THEOREM ClientAlwaysConverges == Spec => []ClientConverges
<1>1. IInv => ClientConverges
  BY SettledFacts DEF IInv, Fresh, ClientConverges, Settled
<1> QED
  BY <1>1, Inductive, PTL

\* Under the same conditions no mounted pane still wants an empty seat: the
\* reclaim funnel never ends with its claims used up and the seat empty.
THEOREM SeatIsAlwaysReclaimed == Spec => []SeatIsReclaimed
<1>1. IInv => SeatIsReclaimed
  <2> SUFFICES ASSUME IInv, Settled, Lossless, seat = 0, NEW p \in mounted, epoch[p] \in live
               PROVE  FALSE
    BY DEF SeatIsReclaimed
  <2>1. /\ TypeOK /\ Seated /\ Recorded /\ Told /\ Fresh /\ Known /\ Funnel /\ Sent
        /\ p \in Mine
    BY DEF IInv, TypeOK
  <2>2. Flight = {} /\ Pipe(p) = {}
    BY <2>1, SettledFacts
  <2>3. cache.revision = turn /\ turn > 0 /\ epoch[p] # 0
    BY <2>1, <2>2 DEF Fresh, Settled, Seated, Turns
  <2>4. cache.view = None
    BY <2>1, <2>3 DEF Told, Recorded, Snapshot
  <2>5. claimed[p].epoch = epoch[p] /\ ~(claimed[p].revision < turn)
    BY <2>1, <2>3, <2>4 DEF Funnel, Wants
  <2>6. claimed[p].revision = turn
    <3>1. claimed[p].revision <= turn /\ claimed[p].revision \in Nat /\ turn \in Nat
      BY <2>1 DEF Known, TypeOK, Turns
    <3> QED
      BY <2>5, <3>1
  <2> QED
    BY <2>1, <2>2, <2>5, <2>6 DEF Sent
<1> QED
  BY <1>1, Inductive, PTL

\* A step that moves the revision frees the seat, gives it to another client's
\* view, or grants a claim of a pane.
LEMMA ChangeFacts ==
    ASSUME IInv, Next, turn' # turn, seat' # 0
    PROVE  \/ \E i \in live : seat' = i /\ owner'[i] \in Foreign
           \/ \E p \in Mine : Grant(p)
<1>1. ASSUME NEW v, AttachHost(v) PROVE FALSE
  BY <1>1 DEF AttachHost, Host!Begin, Host!Vacate
<1>2. ASSUME NEW i, Host!End(i) PROVE FALSE
  BY <1>2 DEF Host!End, Host!Vacate
<1>3. ASSUME UNCHANGED session PROVE FALSE
  BY <1>3 DEF session
<1>4. ASSUME NEW i \in live, ClaimForeign(i) PROVE seat' = i /\ owner'[i] \in Foreign
  BY <1>4 DEF ClaimForeign, Host!Take
<1>5. CASE \E p \in Mine : Pane(p) /\ ~Grant(p)
  BY <1>1, <1>2, <1>3, <1>5 DEF Pane, AttachMine, Refuse, FailClaim, HandleDetach, Learn, Unmount
<1>6. CASE \E f \in Foreign : AttachForeign(f)
  BY <1>1, <1>6 DEF AttachForeign
<1>7. CASE \E i \in live : DetachForeign(i)
  BY <1>2, <1>7 DEF DetachForeign
<1>8. CASE \/ \E k \in DOMAIN announcing : Announce(k)
           \/ Subscribe \/ OpeningFrame \/ Forward \/ Repair
  BY <1>3, <1>8 DEF Announce, Subscribe, OpeningFrame, Forward, Repair
<1>9. CASE \/ Serve \/ Read \/ TimeOut \/ ReadRecord \/ Republish
           \/ (\E k \in DOMAIN bus : OverrunRelay(k)) \/ OverrunBus
           \/ Deliver \/ Reconcile
  BY <1>3, <1>9 DEF Serve, Read, TimeOut, ReadRecord, Republish, OverrunRelay, OverrunBus,
                    Deliver, Reconcile
<1> QED
  BY <1>4, <1>5, <1>6, <1>7, <1>8, <1>9 DEF Next, Pane

\* A claim that names the revision its pane observed only ever replaces a view
\* that the client knew to leave.
THEOREM SwapNeverTakes == Spec => SwapNeverSteals
<1>1. ASSUME IInv, [Next]_vars, NEW p \in Mine, turn' # turn, seat' # 0, owner'[seat'] = p,
             Head(outbox[p]).expected # None, seat # 0
      PROVE  \/ owner[seat] = p
             \/ owner[seat] \in Mine /\ Leaving(owner[seat])
  <2>1. TypeOK /\ Known /\ Seen
    BY <1>1 DEF IInv
  <2>2. Next
    BY <1>1 DEF vars, session
  <2>3. PICK q \in Mine : Grant(q)
    <3>1. p \notin Foreign
      BY BoundsOK
    <3> QED
      BY <1>1, <2>2, <3>1, ChangeFacts
  <2> DEFINE m == Head(outbox[q])
  <2>4. /\ outbox[q] # <<>> /\ m.kind = "claim" /\ (m.expected # None => m.expected = turn)
        /\ seat' = m.epoch /\ owner' = owner
    BY <2>3 DEF Grant, Head1, Host!Take
  <2>5. m \in Pipe(q)
    <3>1. outbox[q] \in Seq(Message)
      BY <2>1 DEF TypeOK
    <3>2. m \in ToSet(outbox[q])
      BY <2>4, <3>1, TailSet
    <3> QED
      BY <3>2 DEF Pipe
  <2>6. q = p
    BY <1>1, <2>1, <2>4, <2>5 DEF Known
  <2>7. owner[seat] = p \/ Vacating
    BY <1>1, <2>1, <2>4, <2>5, <2>6 DEF Seen
  <2>8. Vacating => owner[seat] \in Mine /\ Leaving(owner[seat])
    <3> SUFFICES ASSUME Vacating PROVE owner[seat] \in Mine /\ Leaving(owner[seat])
      OBVIOUS
    <3>1. PICK h \in Mine : h = owner[seat] /\ Leave(seat) \in Pipe(h)
      BY DEF Vacating
    <3>2. Leave(seat).kind = "detach"
      BY DEF Leave
    <3>3. Leaving(h)
      BY <3>1, <3>2 DEF Pipe, ToSet, Leaving
    <3> QED
      BY <3>1, <3>3
  <2> QED
    BY <2>7, <2>8
<1>2. IInv /\ [Next]_vars =>
        [\A p \in Mine :
         (/\ turn' # turn /\ seat' # 0 /\ owner'[seat'] = p
          /\ Head(outbox[p]).expected # None /\ seat # 0)
         => \/ owner[seat] = p
            \/ owner[seat] \in Mine /\ Leaving(owner[seat])]_vars
  BY <1>1
<1> QED
  BY <1>2, Inductive, PTL DEF Spec, SwapNeverSteals

\* A view has at most one living attachment.
LEMMA OfFacts ==
    ASSUME Seated, NEW v
    PROVE  Of(v) = {} \/ \E i \in live : Of(v) = {i}
<1>1. ASSUME NEW i \in Of(v), NEW j \in Of(v) PROVE i = j
  <2>1. /\ i \in live /\ j \in live /\ i \in 1..born /\ j \in 1..born /\ owner[i] = owner[j]
    BY <1>1 DEF Of, Seated
  <2>2. i <= j /\ j <= i
    BY <2>1 DEF Seated
  <2> QED
    BY <2>1, <2>2
<1>2. Of(v) \subseteq live
  BY DEF Of
<1>3. CASE Of(v) # {}
  <2>1. PICK i \in Of(v) : TRUE
    BY <1>3
  <2>2. Of(v) = {i}
    BY <1>1, <2>1
  <2> QED
    BY <1>2, <2>2
<1> QED
  BY <1>3

\* The host's part of this specification takes the steps of the abstract
\* authority, and no others.
THEOREM UsesTheAuthority == Spec => Host!Spec
<1>1. Init => Host!Init
  BY DEF Init, Host!Init
<1>2. ASSUME IInv, [Next]_vars PROVE [Host!Next]_Host!abstract
  <2>i. Seated
    BY <1>2 DEF IInv
  <2>1. ASSUME NEW v, AttachHost(v) PROVE Host!Next
    <3>1. Host!Begin(Of(v))
      BY <2>1 DEF AttachHost
    <3>2. Of(v) = {} \/ \E i \in live : Of(v) = {i}
      BY <2>i, OfFacts
    <3> QED
      BY <3>1, <3>2 DEF Host!Next
  <2>2. ASSUME NEW i \in live, Host!End(i) \/ Host!Take(i) PROVE Host!Next
    BY <2>2 DEF Host!Next
  <2>3. ASSUME UNCHANGED session PROVE UNCHANGED Host!abstract
    BY <2>3 DEF session, Host!abstract
  <2>4. CASE \E p \in Mine : Pane(p)
    BY <2>1, <2>2, <2>3, <2>4
       DEF Pane, AttachMine, Grant, Refuse, FailClaim, HandleDetach, Learn, Unmount
  <2>5. CASE \E f \in Foreign : AttachForeign(f)
    BY <2>1, <2>5 DEF AttachForeign
  <2>6. CASE \E i \in live : ClaimForeign(i) \/ DetachForeign(i)
    BY <2>2, <2>6 DEF ClaimForeign, DetachForeign
  <2>7. CASE \/ \E k \in DOMAIN announcing : Announce(k)
             \/ Subscribe \/ OpeningFrame \/ Forward \/ Repair
    BY <2>3, <2>7 DEF Announce, Subscribe, OpeningFrame, Forward, Repair
  <2>8. CASE \/ Serve \/ Read \/ TimeOut \/ ReadRecord \/ Republish
             \/ (\E k \in DOMAIN bus : OverrunRelay(k)) \/ OverrunBus
             \/ Deliver \/ Reconcile
    BY <2>3, <2>8 DEF Serve, Read, TimeOut, ReadRecord, Republish, OverrunRelay, OverrunBus,
                      Deliver, Reconcile
  <2>9. CASE UNCHANGED vars
    BY <2>3, <2>9 DEF vars
  <2> QED
    BY <1>2, <2>4, <2>5, <2>6, <2>7, <2>8, <2>9 DEF Next
<1> QED
  BY <1>1, <1>2, Inductive, PTL DEF Spec, Host!Spec

=============================================================================
