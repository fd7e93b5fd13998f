------------------------- MODULE RemoteSessionProofs -------------------------
(***************************************************************************)
(* Theorems about RemoteSession, for any number of panes, connections,     *)
(* faults and commands.  Verdicts about a connection arrive after others   *)
(* have been dialed, and jobs wait for the mutex while what they were      *)
(* queued for changes.  What may be relied on: a connection that is down   *)
(* never comes up again, so a verdict names one that is down for good      *)
(* (Dialed, Watched); who has an attempt on the wire holds the mutex, and  *)
(* only who holds it begins a generation (AttemptsAreCurrent); the feed is *)
(* a pane on record (FeedRecorded); and the engine has a job exactly while *)
(* it waits for one (EngineWorks).  Two properties that the runs refute    *)
(* are proved at the end with the steps that break them left out: one feed *)
(* at a time (FeedInv), and an end that stays.                             *)
(***************************************************************************)
EXTENDS RemoteSession, WellFoundedInduction, TLAPS

\* A reader has a connection that was dialed, and one with a verdict has a
\* connection that is down.
Dialed ==
    \A r \in DOMAIN readers :
        /\ readers[r].incarnation <= dialed
        /\ readers[r].pc # "gone" => readers[r].incarnation > 0
        /\ readers[r].pc = "verdict" => readers[r].incarnation \notin up

\* So it is for the heartbeats.
Watched ==
    \A c \in Connections :
        /\ beats[c].pc # "none" => c <= dialed
        /\ beats[c].pc = "verdict" => c \notin up

\* The feed is a pane on record.
FeedRecorded == feed # None => records[feed] # "none"

\* What the engine asks of the mutex.
EngineJob == Job("resume", "engine", None, {}, 0)

\* The engine has one job while it works, at the mutex (h) or waiting (q), and
\* none when it does not; its handle is there while it has a task, be it
\* finished.
Works(h, q) ==
    /\ handle = (engine # "none")
    /\ \A j \in q : j.by = "engine" => j = EngineJob
    /\ h # None /\ h.job.by = "engine" => h.job = EngineJob /\ EngineJob \notin q
    /\ engine = "working" <=> EngineJob \in q \/ (h # None /\ h.job.by = "engine")
EngineWorks == Works(holder, queue)

\* The variables' types, by what changes together.
StateTyped ==
    /\ state \in {"opening", "synchronizing", "live", "reconnecting", "suspended", "ended"}
    /\ generation \in 1..MaxGeneration /\ incarnation \in 0..MaxConnections
    /\ disconnected \in {None} \cup ((1..MaxGeneration) \X (1..MaxConnections))
PanesTyped ==
    /\ records \in [Views -> {"none", "pending", "attached", "failed"}]
    /\ feed \in Views \cup {None}
MeshTyped == entries \in [Views -> {None} \cup EntryType] /\ readers \in Seq(ReaderType)
NetworkTyped ==
    /\ dialed \in 0..MaxConnections /\ up \subseteq 1..dialed /\ cached \in 0..dialed
    /\ beats \in [1..MaxConnections -> BeatType]
WorkTyped(h, q) ==
    /\ h \in {None} \cup HolderType /\ q \subseteq JobType
    /\ engine \in {"none", "decide", "waiting", "parked", "working", "returned"}
    /\ handle \in BOOLEAN
WorldTyped ==
    /\ gone \in BOOLEAN /\ detaching \subseteq Views
    /\ faults \in 0..MaxFaults /\ ops \in 0..MaxOps

Panes == PanesTyped /\ FeedRecorded
Mesh == MeshTyped /\ Dialed
Network == NetworkTyped /\ Watched
\* The view that a resume or a promotion attaches is the feed.
Staged(h) == h # None =>
    /\ h.pc = "retire" => h.job.kind = "attach"
    /\ h.pc \in {"connect", "asked"} /\ h.job.kind \in {"resume", "promote"} => h.feed

\* AttemptsAreCurrent, of a job that has the mutex.
Current(h) == h # None /\ h.pc \in {"asked", "stream"} => h.generation = generation
WorkOf(h, q) == WorkTyped(h, q) /\ Current(h) /\ Staged(h) /\ Works(h, q)
Work == WorkOf(holder, queue)

IInv == StateTyped /\ Panes /\ Mesh /\ Network /\ Work /\ WorldTyped

-----------------------------------------------------------------------------
(* The operators of the model. *)

\* A set of natural numbers has a least one, by well-foundedness.
LEMMA MinFacts ==
    ASSUME NEW S, S \subseteq Nat, S # {}
    PROVE  Min(S) \in S
<1> DEFINE R == OpToRel(<, Nat)
<1>1. IsWellFoundedOn(R, Nat)
  BY NatLessThanWellFounded
<1>2. \A x, y \in Nat : y < x => <<y, x>> \in R
  BY DEF OpToRel
<1> HIDE DEF R
<1>3. PICK x \in S : \A y \in S : ~(<<y, x>> \in R)
  BY <1>1, WFMin
<1>4. ASSUME NEW y \in S PROVE x <= y
  <2>1. x \in Nat /\ y \in Nat
    OBVIOUS
  <2>2. ~(y < x)
    BY <1>2, <1>3, <2>1
  <2> QED
    BY <2>1, <2>2
<1> QED
  BY <1>4 DEF Min

\* A generation that begins is one that nothing holds.
LEMMA AdvanceFacts ==
    ASSUME Advance PROVE generation' \in (1..MaxGeneration) \ InUse
<1> DEFINE free == (1..MaxGeneration) \ InUse
<1>1. free # {} /\ free \subseteq Nat /\ generation' = Min(free)
  BY BoundsOK DEF Advance
<1> HIDE DEF free
<1>2. generation' \in free
  BY <1>1, MinFacts
<1> QED
  BY <1>2 DEF free

\* Who is elected is on record.
LEMMA ElectedFacts ==
    ASSUME NEW recs
    PROVE  /\ Elected(recs) \in Views \cup {None}
           /\ Elected(recs) # None => Elected(recs) \in Views /\ recs[Elected(recs)] # "none"
<1> DEFINE eligible == {v \in Views : recs[v] \notin {"none", "failed"}}
<1>1. eligible \subseteq Nat
  BY ViewsOK
<1>2. eligible # {} => Min(eligible) \in eligible
  BY <1>1, MinFacts
<1>3. Elected(recs) = IF eligible = {} THEN None ELSE Min(eligible)
  BY DEF Elected
<1> HIDE DEF eligible
<1>4. Elected(recs) = None \/ Elected(recs) \in eligible
  BY <1>2, <1>3
<1> QED
  BY <1>4 DEF eligible

\* The panes fall to pending, or stay.
LEMMA PendedFacts ==
    ASSUME IInv, records' \in {records, Pended}, feed' = feed PROVE Panes'
<1>1. records \in [Views -> {"none", "pending", "attached", "failed"}] /\ FeedRecorded
      /\ feed \in Views \cup {None}
  BY DEF IInv, Panes, PanesTyped
<1>2. /\ Pended \in [Views -> {"none", "pending", "attached", "failed"}]
      /\ \A v \in Views : records[v] # "none" => Pended[v] # "none"
  BY DEF Pended
<1> QED
  BY <1>1, <1>2 DEF Panes, PanesTyped, FeedRecorded

\* A connection that is down, or was never dialed, does not come up but for a
\* dial that is new.
Onward ==
    dialed' \in Nat /\ dialed <= dialed' /\ \A c \in 1..dialed : c \in up' => c \in up

\* What a reader relies on stays so.
LEMMA OnwardFacts ==
    ASSUME IInv, Onward, NEW r \in DOMAIN readers
    PROVE  /\ readers[r].incarnation \in Nat /\ readers[r].incarnation <= dialed'
           /\ readers[r].pc # "gone" => readers[r].incarnation > 0
           /\ readers[r].pc = "verdict" => readers[r].incarnation \notin up'
<1>1. readers[r] \in ReaderType
  BY DEF IInv, Mesh, MeshTyped
<1>2. /\ readers[r].incarnation \in Nat /\ readers[r].incarnation <= dialed
      /\ readers[r].pc # "gone" => readers[r].incarnation > 0
      /\ readers[r].pc = "verdict" => readers[r].incarnation \notin up
  BY <1>1, BoundsOK DEF IInv, Mesh, Dialed, ReaderType
<1>3. dialed \in Nat /\ dialed' \in Nat /\ dialed <= dialed'
  BY BoundsOK DEF IInv, Network, NetworkTyped, Onward
<1> QED
  BY <1>2, <1>3 DEF Onward

\* What is not touched stays as it was.
LEMMA Quiet ==
    ASSUME IInv
    PROVE  /\ UNCHANGED lifecycle => StateTyped'
           /\ UNCHANGED panes => Panes'
           /\ UNCHANGED <<dialed, up>> => Onward
           /\ UNCHANGED mesh /\ Onward => Mesh'
           /\ UNCHANGED network => Network'
           /\ UNCHANGED <<work, engines, generation>> => Work'
           /\ UNCHANGED <<detaching, world>> => WorldTyped'
<1>1. UNCHANGED lifecycle => StateTyped'
  BY DEF IInv, StateTyped, lifecycle
<1>2. UNCHANGED panes => Panes'
  BY DEF IInv, Panes, PanesTyped, FeedRecorded, panes
<1>3. UNCHANGED <<dialed, up>> => Onward
  BY BoundsOK DEF IInv, Network, NetworkTyped, Onward
<1>4. ASSUME UNCHANGED mesh, Onward PROVE Mesh'
  <2>1. MeshTyped'
    BY <1>4 DEF IInv, Mesh, MeshTyped, EntryType, mesh
  <2>2. readers' = readers
    BY <1>4 DEF mesh
  <2> QED
    BY <1>4, <2>1, <2>2, OnwardFacts DEF Mesh, Dialed
<1>5. UNCHANGED network => Network'
  BY DEF IInv, Network, NetworkTyped, Watched, Connections, network
<1>6. UNCHANGED <<work, engines, generation>> => Work'
  BY DEF IInv, Work, WorkOf, WorkTyped, Current, Staged, Works, work, engines
<1>7. UNCHANGED <<detaching, world>> => WorldTyped'
  BY DEF IInv, WorldTyped, world
<1> QED
  BY <1>1, <1>2, <1>3, <1>4, <1>5, <1>6, <1>7

\* Readers whose entries are retired are cancelled, and nothing else.
LEMMA CancelledFacts ==
    ASSUME Mesh, NEW vs
    PROVE  /\ Cancelled(vs) \in Seq(ReaderType) /\ Len(Cancelled(vs)) = Len(readers)
           /\ DOMAIN Cancelled(vs) = DOMAIN readers
           /\ \A r \in DOMAIN readers : /\ Cancelled(vs)[r].incarnation = readers[r].incarnation
                                        /\ Cancelled(vs)[r].pc = readers[r].pc
<1> DEFINE hit(r) == \E v \in vs : entries[v] # None /\ entries[v].reader = r
           after(r) == IF hit(r) THEN [readers[r] EXCEPT !.cancelled = TRUE] ELSE readers[r]
<1>1. /\ readers \in Seq(ReaderType) /\ DOMAIN readers = 1..Len(readers) /\ Len(readers) \in Nat
      /\ \A r \in DOMAIN readers : readers[r] \in ReaderType
  BY DEF Mesh, MeshTyped
<1>2. \A x \in ReaderType : /\ [x EXCEPT !.cancelled = TRUE] \in ReaderType
                            /\ [x EXCEPT !.cancelled = TRUE].incarnation = x.incarnation
                            /\ [x EXCEPT !.cancelled = TRUE].pc = x.pc
  BY DEF ReaderType
<1> HIDE DEF hit
<1>3. \A r \in DOMAIN readers : /\ after(r) \in ReaderType
                                /\ after(r).incarnation = readers[r].incarnation
                                /\ after(r).pc = readers[r].pc
  BY <1>1, <1>2
<1>4. Cancelled(vs) = [r \in DOMAIN readers |-> after(r)]
  BY DEF Cancelled, hit
<1> HIDE DEF after
<1>5. Cancelled(vs) \in [1..Len(readers) -> ReaderType]
  BY <1>1, <1>3, <1>4
<1> QED
  BY <1>1, <1>3, <1>4, <1>5

\* To retire views keeps the tables in order,
LEMMA RetireMesh ==
    ASSUME IInv, NEW vs, Retire(vs), Onward PROVE Mesh'
<1>1. /\ entries' = [v \in Views |-> IF v \in vs THEN None ELSE entries[v]]
      /\ readers' = Cancelled(vs) /\ Mesh
  BY DEF Retire, IInv
<1>2. /\ readers' \in Seq(ReaderType) /\ Len(readers') = Len(readers)
      /\ DOMAIN readers' = DOMAIN readers
      /\ \A r \in DOMAIN readers : /\ readers'[r].incarnation = readers[r].incarnation
                                   /\ readers'[r].pc = readers[r].pc
  BY <1>1, CancelledFacts
<1>3. MeshTyped'
  <2>1. entries' \in [Views -> {None} \cup EntryType]
    BY <1>1 DEF Mesh, MeshTyped
  <2>2. EntryType' = EntryType
    BY <1>2 DEF EntryType
  <2> QED
    BY <1>2, <2>1, <2>2 DEF MeshTyped, ReaderType
<1>4. Dialed'
  BY <1>2, OnwardFacts DEF Dialed
<1> QED
  BY <1>3, <1>4 DEF Mesh

\* and so does a reader that gets on, with its entry gone or not.
LEMMA LeavesMesh ==
    ASSUME IInv, NEW r \in DOMAIN readers, Onward, readers[r].pc # "gone",
           NEW pc \in {"left", "failed", "verdict", "arming", "gone"}, Leaves(r, pc),
           pc = "verdict" => readers[r].incarnation \notin up',
           \/ entries' = entries
           \/ entries' = [v \in Views |-> IF entries[v] # None /\ entries[v].reader = r
                                          THEN None ELSE entries[v]]
    PROVE  Mesh'
<1> DEFINE after == IF pc # "gone" THEN [readers[r] EXCEPT !.pc = pc]
                    ELSE [generation |-> 0, incarnation |-> 0, cancelled |-> TRUE,
                          synchronized |-> readers[r].synchronized, pc |-> pc]
<1>1. /\ readers \in Seq(ReaderType) /\ DOMAIN readers = 1..Len(readers) /\ Len(readers) \in Nat
      /\ readers[r] \in ReaderType
  BY DEF IInv, Mesh, MeshTyped
<1>2. /\ after \in ReaderType /\ after.pc = pc
      /\ IF pc = "gone" THEN after.incarnation = 0
                        ELSE after.incarnation = readers[r].incarnation
  <2>1. CASE pc = "gone"
    <3>1. 0 \in 0..MaxGeneration /\ 0 \in 0..MaxConnections
      BY BoundsOK
    <3> QED
      BY <1>1, <2>1, <3>1 DEF ReaderType
  <2>2. CASE pc # "gone"
    BY <1>1, <2>2 DEF ReaderType
  <2> QED
    BY <2>1, <2>2
<1>3. readers' = [readers EXCEPT ![r] = after]
  BY DEF Leaves
<1> HIDE DEF after
<1>4. /\ readers' \in Seq(ReaderType) /\ Len(readers') = Len(readers)
      /\ DOMAIN readers' = DOMAIN readers /\ readers'[r] = after
      /\ \A q \in DOMAIN readers \ {r} : readers'[q] = readers[q]
  BY <1>1, <1>2, <1>3
<1>5. MeshTyped'
  <2>1. entries' \in [Views -> {None} \cup EntryType]
    BY DEF IInv, Mesh, MeshTyped
  <2>2. EntryType' = EntryType
    BY <1>4 DEF EntryType
  <2> QED
    BY <1>4, <2>1, <2>2 DEF MeshTyped, ReaderType
<1>6. \A q \in DOMAIN readers \ {r} : /\ readers'[q].incarnation <= dialed'
                                      /\ readers'[q].pc # "gone" => readers'[q].incarnation > 0
                                      /\ readers'[q].pc = "verdict" => readers'[q].incarnation \notin up'
  BY <1>4, OnwardFacts
<1>7. /\ readers'[r].incarnation <= dialed'
      /\ readers'[r].pc # "gone" => readers'[r].incarnation > 0
      /\ readers'[r].pc = "verdict" => readers'[r].incarnation \notin up'
  <2>1. readers[r].incarnation <= dialed' /\ readers[r].incarnation > 0 /\ dialed' \in Nat
    BY OnwardFacts DEF Onward
  <2> QED
    BY <1>2, <1>4, <2>1
<1> QED
  BY <1>4, <1>5, <1>6, <1>7 DEF Mesh, Dialed

\* remote_connection dials anew or finds what was cached,
LEMMA ConnectFacts ==
    ASSUME IInv, NEW c \in Connections, Connect(c)
    PROVE  Network' /\ Onward /\ c \in 1..dialed'
<1>1. /\ dialed \in 0..MaxConnections /\ up \subseteq 1..dialed /\ cached \in 0..dialed
      /\ beats \in [Connections -> BeatType] /\ Watched
  BY DEF IInv, Network, NetworkTyped, Connections
<1>2. CASE c = cached /\ cached # 0 /\ UNCHANGED network
  <2>1. Network' /\ Onward
    BY <1>2, Quiet DEF network
  <2> QED
    BY <1>1, <1>2, <2>1, BoundsOK DEF network
<1>3. CASE /\ cached = 0 /\ c = dialed + 1 /\ c <= MaxConnections
           /\ dialed' = c /\ cached' = c /\ up' = up \cup {c}
           /\ beats' = [beats EXCEPT ![c].pc = "beating"]
  <2>1. Onward /\ c \in 1..dialed' /\ dialed' \in 0..MaxConnections
    BY <1>1, <1>3, BoundsOK DEF Onward
  <2>2. up' \subseteq 1..dialed' /\ cached' \in 0..dialed'
    BY <1>1, <1>3, BoundsOK
  <2>3. beats' \in [Connections -> BeatType]
    BY <1>1, <1>3 DEF BeatType
  <2>4. Watched'
    BY <1>1, <1>3, BoundsOK DEF Watched, Connections, BeatType
  <2> QED
    BY <2>1, <2>2, <2>3, <2>4 DEF Network, NetworkTyped, Connections, BeatType
<1> QED
  BY <1>2, <1>3 DEF Connect

\* and one that is given up is down.
LEMMA InvalidateFacts ==
    ASSUME IInv, NEW c, Invalidate(c)
    PROVE  Network' /\ Onward /\ c \notin up'
<1>1. /\ dialed' = dialed /\ beats' = beats /\ up' = up \ {c} /\ cached' \in {0, cached}
  BY DEF Invalidate
<1>2. /\ dialed \in 0..MaxConnections /\ up \subseteq 1..dialed /\ cached \in 0..dialed
      /\ beats \in [1..MaxConnections -> BeatType] /\ Watched
  BY DEF IInv, Network, NetworkTyped
<1>3. up' \subseteq 1..dialed' /\ c \notin up' /\ Onward
  <2>1. dialed \in Nat
    BY <1>2, BoundsOK
  <2>2. up' \subseteq up /\ c \notin up'
    BY <1>1
  <2>3. Onward
    BY <1>1, <2>1, <2>2 DEF Onward
  <2> QED
    BY <1>1, <1>2, <2>2, <2>3
<1>4. cached' \in 0..dialed'
  BY <1>1, <1>2, BoundsOK
<1>5. Watched'
  BY <1>1, <1>2 DEF Watched, Connections
<1> QED
  BY <1>1, <1>2, <1>3, <1>4, <1>5 DEF Network, NetworkTyped, BeatType

-----------------------------------------------------------------------------
(* The mutex and the engine. *)

\* The engine's job is one of its own kind.
LEMMA EngineJobFacts ==
    EngineJob \in JobType /\ EngineJob.by = "engine" /\ EngineJob.kind = "resume"
  BY BoundsOK DEF EngineJob, Job, JobType

\* What holds the mutex and what waits for it.
LEMMA WorkFacts ==
    ASSUME IInv
    PROVE  /\ WorkOf(holder, queue) /\ queue \subseteq JobType
           /\ holder # None => holder \in HolderType /\ holder.job \in JobType
           /\ \A j \in JobType :
                 (j \in queue \/ (holder # None /\ j = holder.job)) /\ j.by = "engine"
                 => j = EngineJob /\ j.kind = "resume"
  BY EngineJobFacts DEF IInv, Work, WorkOf, WorkTyped, Works, HolderType

\* Another client's job waits.
LEMMA QueuedWork ==
    ASSUME NEW h, NEW q, WorkOf(h, q), NEW j \in JobType, j.by # "engine"
    PROVE  WorkOf(h, q \cup {j})
  BY EngineJobFacts DEF WorkOf, WorkTyped, Works

\* An engine that is aborted, or begun, leaves no job of one before it.
LEMMA AbortedFacts ==
    ASSUME NEW h, NEW q, WorkOf(h, q)
    PROVE  /\ Dropped(h) \in {None} \cup HolderType /\ Unqueued(q) \subseteq JobType
           /\ Dropped(h) # None => Dropped(h) = h /\ h.job.by # "engine"
           /\ \A j \in Unqueued(q) : j.by # "engine"
  BY DEF Dropped, Unqueued, WorkOf, WorkTyped

LEMMA BegunWork ==
    ASSUME NEW h, NEW q, WorkOf(h, q), generation' = generation,
           holder' = Dropped(h), queue' = Unqueued(q), handle' \in BOOLEAN,
           engine' \in {"none", "decide"}, handle' = (engine' # "none")
    PROVE  Work'
<1>1. /\ holder' \in {None} \cup HolderType /\ queue' \subseteq JobType
      /\ holder' # None => holder' = h /\ h.job.by # "engine"
      /\ \A j \in queue' : j.by # "engine"
  BY AbortedFacts
<1>2. WorkTyped(holder, queue)'
  BY <1>1 DEF WorkTyped
<1>3. Current(holder)' /\ Staged(holder)'
  BY <1>1 DEF WorkOf, Current, Staged
<1>4. Works(holder, queue)'
  BY <1>1, EngineJobFacts DEF Works
<1> QED
  BY <1>2, <1>3, <1>4 DEF Work, WorkOf

LEMMA CancelWork ==
    ASSUME NEW h, NEW q, WorkOf(h, q), generation' = generation, Cancel(h, q)
    PROVE  Work'
  BY BegunWork DEF Cancel

\* What was done with the mutex is done.
LEMMA SetWork ==
    ASSUME NEW h, NEW q, WorkOf(h, q), generation' = generation,
           holder' = h, queue' = q, UNCHANGED engines
    PROVE  Work'
  BY DEF Work, WorkOf, WorkTyped, Current, Staged, Works, engines

LEMMA ArmWork ==
    ASSUME NEW h, NEW q, WorkOf(h, q), generation' = generation, Arm(h, q)
    PROVE  Work'
  BY BegunWork, SetWork DEF Arm

\* The end of a session leaves nothing to the engine.
LEMMA EndFacts ==
    ASSUME IInv, NEW h, NEW q, WorkOf(h, q), End(h, q),
           UNCHANGED <<generation, incarnation, disconnected, feed>>
    PROVE  StateTyped' /\ Panes' /\ Work'
<1>1. Cancel(h, q) /\ state' = "ended" /\ records' \in {records, Pended}
  BY DEF End
<1>2. Work'
  BY <1>1, CancelWork
<1>3. StateTyped'
  BY <1>1 DEF IInv, StateTyped
<1>4. Panes'
  BY <1>1, PendedFacts
<1> QED
  BY <1>2, <1>3, <1>4

\* The job that has the mutex gets on.
LEMMA HeldWork ==
    ASSUME IInv, holder # None, holder' \in HolderType, holder'.job = holder.job,
           holder'.pc \in {"asked", "stream"} => holder'.generation = generation',
           Staged(holder)', queue' = queue, UNCHANGED engines
    PROVE  Work'
<1>1. WorkOf(holder, queue)
  BY DEF IInv, Work
<1>2. WorkTyped(holder, queue)'
  BY <1>1 DEF WorkOf, WorkTyped, engines
<1>3. Works(holder, queue)'
  <2>1. holder' # None /\ engine' = engine /\ handle' = handle
    BY NoneHolds DEF engines
  <2> QED
    BY <1>1, <2>1 DEF WorkOf, Works
<1> QED
  BY <1>2, <1>3 DEF Work, WorkOf, Current, Staged

\* The job that has the mutex becomes another of its client's, not the engine's.
LEMMA OthersWork ==
    ASSUME IInv, holder # None, holder.job.by # "engine", holder' \in HolderType,
           holder'.job.by # "engine", holder'.pc \notin {"asked", "stream"},
           Staged(holder)', queue' = queue, UNCHANGED engines
    PROVE  Work'
<1>1. WorkOf(holder, queue)
  BY DEF IInv, Work
<1>2. WorkTyped(holder, queue)'
  BY <1>1 DEF WorkOf, WorkTyped, engines
<1>3. Works(holder, queue)'
  <2>1. holder' # None /\ engine' = engine /\ handle' = handle
    BY NoneHolds DEF engines
  <2> QED
    BY <1>1, <2>1 DEF WorkOf, Works
<1> QED
  BY <1>2, <1>3 DEF Work, WorkOf, Current, Staged

\* A job begins.
LEMMA BeginsWork ==
    ASSUME IInv, holder = None, NEW j \in queue, queue' = queue \ {j},
           holder' \in HolderType, holder'.job.by = j.by, j.by = "engine" => holder'.job = j,
           holder'.pc \notin {"asked", "stream"}, Staged(holder)', UNCHANGED engines
    PROVE  Work'
<1>1. WorkOf(holder, queue)
  BY DEF IInv, Work
<1>2. WorkTyped(holder, queue)'
  BY <1>1 DEF WorkOf, WorkTyped, engines
<1>3. Works(holder, queue)'
  <2>1. holder' # None /\ engine' = engine /\ handle' = handle
    BY NoneHolds DEF engines
  <2>2. EngineJob \in queue <=> EngineJob \in queue' \/ j = EngineJob
    OBVIOUS
  <2> QED
    BY <1>1, <2>1, <2>2, EngineJobFacts DEF WorkOf, Works
<1> QED
  BY <1>2, <1>3 DEF Work, WorkOf, Current, Staged

\* A job is over: the engine's are those it leaves in the queue.
LEMMA ReleasedQueue ==
    ASSUME IInv, NEW j \in JobType, NEW next \in SUBSET JobType, Released(j, next),
           \/ /\ holder # None /\ j.by = holder.job.by
              /\ \A i \in next : i.by = "engine" => i \in queue
              /\ queue \subseteq next
           \/ holder = None /\ j \in queue /\ next = queue \ {j}
    PROVE  Work'
<1>1. /\ WorkOf(holder, queue) /\ queue \subseteq JobType
      /\ \A i \in next : i.by = "engine" => i \in queue /\ i = EngineJob
      /\ holder # None /\ holder.job.by = "engine" => holder.job = EngineJob
  BY DEF IInv, Work, WorkOf, Works, WorkTyped
<1>2. /\ holder' = None /\ queue' = next /\ handle' = handle
      /\ j.by # "engine" => engine' = engine
      /\ j.by = "engine" => engine' \in {"returned", "decide"}
  BY DEF Released
<1>3. WorkTyped(holder, queue)'
  BY <1>1, <1>2 DEF WorkOf, WorkTyped
<1>4. CASE j.by = "engine"
  <2>1. EngineJob \notin next /\ engine # "none" /\ handle
    BY <1>1, <1>4, EngineJobFacts DEF WorkOf, Works
  <2> QED
    BY <1>1, <1>2, <1>3, <1>4, <2>1 DEF Work, WorkOf, Works, Current, Staged
<1>5. CASE j.by # "engine"
  <2>1. engine = "working" <=> EngineJob \in next
    BY <1>1, <1>5, EngineJobFacts DEF WorkOf, Works
  <2> QED
    BY <1>1, <1>2, <1>3, <1>5, <2>1 DEF Work, WorkOf, Works, Current, Staged
<1> QED
  BY <1>4, <1>5

\* A job is over, and leaves the queue as it is.
LEMMA ReleasedWork ==
    ASSUME IInv, NEW j \in JobType, NEW next, Released(j, next),
           \/ holder # None /\ j.by = holder.job.by /\ next = queue
           \/ holder = None /\ j \in queue /\ next = queue \ {j}
    PROVE  Work'
<1>1. next \in SUBSET JobType
  BY WorkFacts
<1> QED
  BY <1>1, ReleasedQueue

-----------------------------------------------------------------------------
(* The feed, the secondaries. *)

\* A job as it takes the mutex.
LEMMA HeldFacts ==
    ASSUME NEW j \in JobType, NEW pc \in {"retire", "dial", "connect"}
    PROVE  /\ Held(j, pc) \in HolderType /\ Held(j, pc).job = j /\ Held(j, pc).pc = pc
           /\ Held(j, pc).view = j.view
  BY BoundsOK DEF Held, HolderType, JobType

\* A feed is elected and attached, or the session suspended.
LEMMA EstablishFacts ==
    ASSUME IInv, NEW h \in HolderType, NEW recs, NEW from, NEW waiting,
           Establish(h, recs, from, waiting), h.job \in JobType,
           \/ holder # None /\ h.job = holder.job /\ waiting = queue
           \/ holder = None /\ h.job \in queue /\ waiting = queue \ {h.job}
    PROVE  /\ Work'
           /\ feed' \in Views \cup {None}
           /\ feed' # None => recs[feed'] # "none"
           /\ state' \in {from, "ended", "suspended"}
<1>1. /\ feed' = Elected(recs) /\ Elected(recs) \in Views \cup {None}
      /\ Elected(recs) # None => Elected(recs) \in Views /\ recs[Elected(recs)] # "none"
  BY ElectedFacts DEF Establish
<1>2. CASE Elected(recs) = None
  <2>1. Released(h.job, waiting) /\ state' \in {"ended", "suspended"}
    BY <1>2 DEF Establish
  <2>2. Work'
    BY <2>1, ReleasedWork
  <2> QED
    BY <1>1, <2>1, <2>2
<1>3. CASE Elected(recs) # None
  <2>1. /\ state' = from /\ queue' = waiting /\ UNCHANGED engines
        /\ holder' = [h EXCEPT !.pc = "connect", !.feed = TRUE, !.view = Elected(recs)]
    BY <1>3 DEF Establish
  <2>2. /\ holder' \in HolderType /\ holder'.job = h.job /\ holder'.pc = "connect"
        /\ holder'.feed
    BY <1>1, <2>1 DEF HolderType
  <2>3. Staged(holder)'
    BY <2>2 DEF Staged
  <2>4. Work'
    <3>1. CASE holder # None /\ h.job = holder.job /\ waiting = queue
      BY <2>1, <2>2, <2>3, <3>1, HeldWork
    <3>2. CASE holder = None /\ h.job \in queue /\ waiting = queue \ {h.job}
      BY <2>1, <2>2, <2>3, <3>2, BeginsWork
    <3> QED
      BY <3>1, <3>2
  <2> QED
    BY <1>1, <2>1, <2>4
<1> QED
  BY <1>2, <1>3

\* The next secondary's turn, or the end of its job.
LEMMA SecondariesWork ==
    ASSUME IInv, NEW j \in JobType, j.kind = "secondaries", NEW waiting,
           Secondaries(j, j.todo, waiting), generation' = generation,
           \/ holder # None /\ j = holder.job /\ waiting = queue
           \/ holder = None /\ j \in queue /\ waiting = queue \ {j}
    PROVE  Work'
<1>1. CASE Released(j, waiting)
  BY <1>1, ReleasedWork
<1>2. CASE /\ j.todo # {} /\ queue' = waiting /\ UNCHANGED engines
           /\ holder' = [Held([j EXCEPT !.todo = j.todo \ {Min(j.todo)}], "connect")
                             EXCEPT !.view = Min(j.todo)]
  <2> DEFINE rest == [j EXCEPT !.todo = j.todo \ {Min(j.todo)}]
  <2>1. j.todo \subseteq Views /\ Min(j.todo) \in Views
    <3>1. j.todo \subseteq Views
      BY DEF JobType
    <3>2. Min(j.todo) \in j.todo
      BY <1>2, <3>1, MinFacts, ViewsOK
    <3> QED
      BY <3>1, <3>2
  <2>2. rest \in JobType /\ rest.by = j.by /\ rest.kind = "secondaries"
    BY DEF JobType
  <2>3. j.by # "engine"
    BY WorkFacts
  <2> HIDE DEF rest
  <2>4. Held(rest, "connect") \in HolderType /\ Held(rest, "connect").job = rest
        /\ Held(rest, "connect").pc = "connect"
    BY <2>2, HeldFacts
  <2>5. holder' \in HolderType /\ holder'.job = rest /\ holder'.pc = "connect"
    <3>1. holder' = [Held(rest, "connect") EXCEPT !.view = Min(j.todo)]
      BY <1>2 DEF rest
    <3> QED
      BY <2>1, <2>4, <3>1 DEF HolderType
  <2>6. Staged(holder)'
    BY <2>2, <2>5 DEF Staged
  <2>7. CASE holder = None /\ j \in queue /\ waiting = queue \ {j}
    BY <1>2, <2>2, <2>3, <2>5, <2>6, <2>7, BeginsWork
  <2>8. CASE holder # None /\ j = holder.job /\ waiting = queue
    BY <1>2, <2>2, <2>3, <2>5, <2>6, <2>8, OthersWork
  <2> QED
    BY <2>7, <2>8
<1> QED
  BY <1>1, <1>2 DEF Secondaries

\* The clients' and the faults' budgets.
LEMMA SpentFacts ==
    ASSUME IInv, Op \/ Fault \/ UNCHANGED world, detaching' \subseteq Views
    PROVE  WorldTyped'
  BY BoundsOK DEF IInv, WorldTyped, Op, Fault, world

\* A view's record changes, but not to none.
LEMMA MarkFacts ==
    ASSUME IInv, NEW v, NEW to \in {"pending", "attached", "failed"}
    PROVE  /\ records' = [records EXCEPT ![v] = to] /\ feed' = feed => Panes'
           /\ [records EXCEPT ![v] = to] \in [Views -> {"none", "pending", "attached", "failed"}]
<1>1. /\ records \in [Views -> {"none", "pending", "attached", "failed"}]
      /\ feed \in Views \cup {None} /\ FeedRecorded
  BY DEF IInv, Panes, PanesTyped
<1>2. [records EXCEPT ![v] = to] \in [Views -> {"none", "pending", "attached", "failed"}]
  BY <1>1
<1>3. ASSUME records' = [records EXCEPT ![v] = to], feed' = feed PROVE Panes'
  <2>1. \A w \in Views : records'[w] = "none" => records[w] = "none"
    BY <1>1, <1>3
  <2> QED
    BY <1>1, <1>2, <1>3, <2>1 DEF Panes, PanesTyped, FeedRecorded
<1> QED
  BY <1>2, <1>3

LEMMA MarkedFacts ==
    ASSUME IInv
    PROVE  /\ Marked \in [Views -> {"none", "pending", "attached", "failed"}]
           /\ records' = Marked /\ feed' = feed => Panes'
<1>1. Marked = records \/ Marked = [records EXCEPT ![holder.view] = "failed"]
  BY DEF Marked
<1>2. CASE Marked = records
  BY <1>2, PendedFacts DEF IInv, Panes, PanesTyped
<1>3. CASE Marked = [records EXCEPT ![holder.view] = "failed"]
  BY <1>3, MarkFacts
<1> QED
  BY <1>1, <1>2, <1>3

\* The holder of the mutex gets on.
LEMMA GoesWork ==
    ASSUME IInv, holder # None, NEW pc, Goes(pc), generation' = generation,
           pc \in Verdicts \cup {"list", "stream"}, pc = "stream" => holder.pc = "asked"
    PROVE  Work'
<1>1. holder \in HolderType /\ AttemptsAreCurrent
  BY WorkFacts DEF WorkOf, Current, Staged, AttemptsAreCurrent
<1>2. holder' = [holder EXCEPT !.pc = pc] /\ queue' = queue /\ UNCHANGED engines
  BY DEF Goes
<1>3. /\ holder' \in HolderType /\ holder'.job = holder.job /\ holder'.pc = pc
      /\ holder'.generation = holder.generation
  BY <1>1, <1>2 DEF HolderType
<1>4. pc \in {"asked", "stream"} => holder.generation = generation
  BY <1>1 DEF AttemptsAreCurrent, Verdicts
<1>5. Staged(holder)'
  BY <1>3 DEF Staged, Verdicts
<1> QED
  BY <1>2, <1>3, <1>4, <1>5, HeldWork

\* A job that a client, a pane's end or the runtime asks for.
LEMMA JobFacts ==
    ASSUME NEW kind \in {"attach", "resume", "promote", "secondaries"},
           NEW by \in {"client", "refresh", "manual", "detach", "runtime"},
           NEW v \in Views \cup {None}, NEW todo \in SUBSET Views, NEW g \in 0..MaxGeneration
    PROVE  Job(kind, by, v, todo, g) \in JobType /\ Job(kind, by, v, todo, g).by = by
  BY DEF Job, JobType

\* To ask for one is to wait for the mutex.
LEMMA AskedWork ==
    ASSUME IInv, NEW j \in JobType, j.by # "engine", queue' = queue \cup {j},
           holder' = holder, UNCHANGED engines, generation' = generation
    PROVE  Work'
<1>1. WorkOf(holder, queue \cup {j})
  BY WorkFacts, QueuedWork
<1> QED
  BY <1>1, SetWork

\* No job holds the mutex, and the engine had none there.
LEMMA FreedWork ==
    ASSUME IInv, holder # None, holder.job.by # "engine", holder' = None,
           queue' = queue, UNCHANGED engines
    PROVE  Work'
  BY DEF IInv, Work, WorkOf, WorkTyped, Current, Staged, Works, engines

-----------------------------------------------------------------------------
(* What the clients ask for. *)

\* attach_view waits for the mutex.
LEMMA AttachInv ==
    ASSUME IInv, NEW v \in Views, Attach(v) PROVE IInv'
<1> DEFINE j == Job("attach", "client", v, {}, 0)
<1>1. /\ UNCHANGED <<lifecycle, panes, mesh, network, holder, engines, detaching>>
      /\ queue' = queue \cup {j} /\ Op
  BY DEF Attach
<1>2. j \in JobType /\ j.by # "engine"
  BY JobFacts, BoundsOK
<1> HIDE DEF j
<1>3. Work'
  BY <1>1, <1>2, AskedWork DEF lifecycle
<1>4. WorldTyped'
  BY <1>1, SpentFacts DEF IInv, WorldTyped
<1> QED
  BY <1>1, <1>3, <1>4, Quiet DEF IInv, network

\* refresh_remote too,
LEMMA RefreshInv ==
    ASSUME IInv, Refresh PROVE IInv'
<1> DEFINE j == Job("promote", "refresh", None, {}, 0)
<1>1. /\ UNCHANGED <<lifecycle, panes, mesh, network, holder, engines, detaching>>
      /\ queue' = queue \cup {j} /\ Op
  BY DEF Refresh
<1>2. j \in JobType /\ j.by # "engine"
  BY JobFacts, BoundsOK
<1> HIDE DEF j
<1>3. Work'
  BY <1>1, <1>2, AskedWork DEF lifecycle
<1>4. WorldTyped'
  BY <1>1, SpentFacts DEF IInv, WorldTyped
<1> QED
  BY <1>1, <1>3, <1>4, Quiet DEF IInv, network

\* and retry_view, for the generation it sees.
LEMMA RetryInv ==
    ASSUME IInv, NEW v \in Views, Retry(v) PROVE IInv'
<1> DEFINE j == Job("secondaries", "client", None, {v}, generation)
<1>1. /\ UNCHANGED <<lifecycle, panes, mesh, network, holder, engines, detaching>>
      /\ queue' = queue \cup {j} /\ Op
  BY DEF Retry
<1>2. j \in JobType /\ j.by # "engine"
  <2>1. generation \in 0..MaxGeneration /\ {v} \in SUBSET Views /\ None \in Views \cup {None}
    BY BoundsOK DEF IInv, StateTyped
  <2> QED
    BY <2>1, JobFacts
<1> HIDE DEF j
<1>3. Work'
  BY <1>1, <1>2, AskedWork DEF lifecycle
<1>4. WorldTyped'
  BY <1>1, SpentFacts DEF IInv, WorldTyped
<1> QED
  BY <1>1, <1>3, <1>4, Quiet DEF IInv, network

\* reconnect_session wakes the engine or begins one, which aborts the last.
LEMMA ReconnectInv ==
    ASSUME IInv, Reconnect PROVE IInv'
<1> DEFINE j == Job("resume", "manual", None, {}, 0)
<1>1. /\ UNCHANGED <<generation, incarnation, disconnected, panes, mesh, network, detaching>>
      /\ state' = "reconnecting" /\ Op
  BY DEF Reconnect
<1>2. j \in JobType /\ j.by # "engine"
  BY JobFacts, BoundsOK
<1>3. WorkOf(holder, queue \cup {j})
  BY <1>2, WorkFacts, QueuedWork
<1>4. Work'
  <2>1. CASE handle
    <3>1. /\ engine' = IF engine = "parked" THEN "decide" ELSE engine
          /\ queue' = queue \cup {j} /\ holder' = holder /\ handle' = handle
      BY <2>1 DEF Reconnect
    <3> HIDE DEF j
    <3> QED
      BY <1>1, <1>3, <3>1 DEF Work, WorkOf, WorkTyped, Current, Staged, Works
  <2>2. CASE ~handle
    <3>1. Arm(holder, queue \cup {j})
      BY <2>2 DEF Reconnect
    <3> QED
      BY <1>1, <1>3, <3>1, ArmWork
  <2> QED
    BY <2>1, <2>2
<1>5. StateTyped'
  BY <1>1 DEF IInv, StateTyped
<1>6. WorldTyped'
  BY <1>1, SpentFacts DEF IInv, WorldTyped
<1> QED
  BY <1>1, <1>4, <1>5, <1>6, Quiet DEF IInv, network

\* detach_view's bookkeeping.
LEMMA ForgetFacts ==
    ASSUME IInv, NEW v \in Views, Forget(v), generation' = generation
    PROVE  Panes' /\ Work'
<1>1. Panes'
  BY DEF IInv, Panes, PanesTyped, FeedRecorded, Forget, Mark
<1>2. Work'
  <2>1. CASE Recorded \subseteq {v}
    BY <2>1, WorkFacts, CancelWork DEF Forget
  <2>2. CASE ~(Recorded \subseteq {v})
    <3> DEFINE j == Job("promote", "detach", v, {}, 0)
    <3>1. queue' \in {queue, queue \cup {j}} /\ holder' = holder /\ UNCHANGED engines
      BY <2>2 DEF Forget
    <3>2. j \in JobType /\ j.by # "engine"
      BY JobFacts, BoundsOK
    <3>3. CASE queue' = queue
      BY <3>1, <3>3, WorkFacts, SetWork
    <3>4. CASE queue' = queue \cup {j}
      BY <3>1, <3>2, <3>4, AskedWork
    <3> QED
      BY <3>1, <3>3, <3>4
  <2> QED
    BY <2>1, <2>2
<1> QED
  BY <1>1, <1>2

LEMMA DetachInv ==
    ASSUME IInv, NEW v \in Views, Detach(v) PROVE IInv'
<1>1. UNCHANGED <<lifecycle, network>> /\ Retire({v}) /\ Op
  BY DEF Detach
<1>2. Panes' /\ Work' /\ detaching' \subseteq Views
  <2>1. CASE Forget(v) /\ UNCHANGED detaching
    BY <1>1, <2>1, ForgetFacts DEF lifecycle, IInv, WorldTyped
  <2>2. CASE detaching' = detaching \cup {v} /\ UNCHANGED <<panes, work, engines>>
    BY <1>1, <2>2, Quiet DEF lifecycle, IInv, WorldTyped
  <2> QED
    BY <2>1, <2>2 DEF Detach
<1>3. Mesh'
  BY <1>1, Quiet, RetireMesh DEF network
<1> QED
  BY <1>1, <1>2, <1>3, Quiet, SpentFacts DEF IInv

LEMMA DetachForgetInv ==
    ASSUME IInv, NEW v \in Views, DetachForget(v) PROVE IInv'
<1>1. /\ detaching' = detaching \ {v} /\ Forget(v)
      /\ UNCHANGED <<lifecycle, mesh, network, world>>
  BY DEF DetachForget
<1>2. Panes' /\ Work'
  BY <1>1, ForgetFacts DEF lifecycle
<1>3. WorldTyped'
  BY <1>1, SpentFacts DEF IInv, WorldTyped
<1> QED
  BY <1>1, <1>2, <1>3, Quiet DEF IInv, network

-----------------------------------------------------------------------------
(* Jobs take the mutex. *)

LEMMA AttachBeginInv ==
    ASSUME IInv, NEW j \in queue, AttachBegin(j) PROVE IInv'
<1>1. /\ UNCHANGED <<lifecycle, panes, mesh, network, engines, detaching, world>>
      /\ holder = None /\ j.kind = "attach" /\ queue' = queue \ {j}
      /\ \/ holder' = None
         \/ holder' = [Held(j, "retire") EXCEPT !.resuming = state # "live"]
  BY DEF AttachBegin
<1>2. j \in JobType /\ j.by # "engine" /\ WorkOf(holder, queue)
  BY <1>1, WorkFacts
<1>3. CASE holder' = None
  <2>1. WorkOf(None, queue \ {j})
    BY <1>1, <1>2, EngineJobFacts DEF WorkOf, WorkTyped, Current, Staged, Works
  <2>2. Work'
    BY <1>1, <1>3, <2>1, SetWork DEF lifecycle
  <2> QED
    BY <1>1, <2>2, Quiet DEF IInv, network
<1>4. CASE holder' = [Held(j, "retire") EXCEPT !.resuming = state # "live"]
  <2> DEFINE anew == state # "live"
  <2>1. holder' \in HolderType /\ holder'.job = j /\ holder'.pc = "retire"
    <3>1. anew \in BOOLEAN /\ holder' = [Held(j, "retire") EXCEPT !.resuming = anew]
      BY <1>4
    <3>2. Held(j, "retire") \in HolderType /\ Held(j, "retire").job = j
          /\ Held(j, "retire").pc = "retire"
      BY <1>2, HeldFacts
    <3> HIDE DEF anew
    <3> QED
      BY <3>1, <3>2 DEF HolderType
  <2>2. Staged(holder)'
    BY <1>1, <2>1 DEF Staged
  <2>3. Work'
    BY <1>1, <1>2, <2>1, <2>2, BeginsWork
  <2> QED
    BY <1>1, <2>3, Quiet DEF IInv, network
<1> QED
  BY <1>1, <1>3, <1>4

LEMMA AttachRetireInv ==
    ASSUME IInv, AttachRetire PROVE IInv'
<1> DEFINE v == holder.view
           recorded == [records EXCEPT ![v] = IF @ = "none" THEN "pending" ELSE @]
           chosen == IF feed # None THEN feed ELSE Elected(recorded)
<1>1. /\ holder # None /\ holder.pc = "retire" /\ Retire({v}) /\ records' = recorded /\ feed' = chosen
      /\ UNCHANGED <<incarnation, disconnected, network, queue, engines, detaching, world>>
      /\ holder' = [holder EXCEPT !.pc = "connect", !.feed = chosen \in {v, None}]
      /\ \/ Advance /\ state' = "reconnecting"
         \/ UNCHANGED <<generation, state>>
  BY DEF AttachRetire, At
<1>2. StateTyped'
  <2>1. generation' \in 1..MaxGeneration /\ state' \in {state, "reconnecting"}
    BY <1>1, AdvanceFacts DEF IInv, StateTyped
  <2> QED
    BY <1>1, <2>1 DEF IInv, StateTyped
<1>3. Panes'
  <2>1. /\ recorded \in [Views -> {"none", "pending", "attached", "failed"}]
        /\ \A w \in Views : recorded[w] = "none" => records[w] = "none"
    BY DEF IInv, Panes, PanesTyped
  <2>2. /\ chosen \in Views \cup {None}
        /\ chosen # None => recorded[chosen] # "none"
    <3>1. CASE feed # None
      BY <2>1, <3>1 DEF IInv, Panes, PanesTyped, FeedRecorded
    <3>2. CASE feed = None
      <4> HIDE DEF recorded
      <4> QED
        BY <3>2, ElectedFacts
    <3> QED
      BY <3>1, <3>2
  <2> HIDE DEF recorded, chosen
  <2> QED
    BY <1>1, <2>1, <2>2 DEF Panes, PanesTyped, FeedRecorded
<1>4. Mesh'
  BY <1>1, Quiet, RetireMesh DEF network
<1>5. Work'
  <2> DEFINE takes == chosen \in {v, None}
  <2>1. /\ holder \in HolderType /\ takes \in BOOLEAN
        /\ holder' = [holder EXCEPT !.pc = "connect", !.feed = takes]
    BY <1>1, WorkFacts
  <2> HIDE DEF takes, chosen
  <2>2. holder' \in HolderType /\ holder'.job = holder.job /\ holder'.pc = "connect"
    BY <2>1 DEF HolderType
  <2>3. Staged(holder)'
    BY <1>1, <2>2, WorkFacts DEF WorkOf, Staged
  <2> QED
    BY <1>1, <2>2, <2>3, HeldWork
<1> QED
  BY <1>1, <1>2, <1>3, <1>4, <1>5, Quiet DEF IInv, network

LEMMA ResumeBeginInv ==
    ASSUME IInv, NEW j \in queue, ResumeBegin(j) PROVE IInv'
<1>1. UNCHANGED <<panes, network, detaching, world>> /\ holder = None
  BY DEF ResumeBegin
<1>2. j \in JobType
  BY WorkFacts
<1>3. CASE /\ UNCHANGED state /\ Released(j, queue \ {j})
           /\ UNCHANGED <<generation, incarnation, disconnected, mesh>>
  <2>1. Work'
    BY <1>1, <1>2, <1>3, ReleasedWork
  <2> QED
    BY <1>1, <1>3, <2>1, Quiet DEF IInv, network, lifecycle
<1>4. CASE /\ Advance /\ Retire(Views)
           /\ holder' = Held(j, "dial") /\ queue' = queue \ {j}
           /\ UNCHANGED <<state, incarnation, disconnected, engines>>
  <2>1. holder' \in HolderType /\ holder'.job = j /\ holder'.pc = "dial"
    BY <1>2, <1>4, HeldFacts
  <2>2. Staged(holder)'
    BY <2>1 DEF Staged
  <2>3. Work'
    BY <1>1, <1>4, <2>1, <2>2, BeginsWork
  <2>4. StateTyped'
    BY <1>4, AdvanceFacts DEF IInv, StateTyped
  <2>5. Mesh'
    BY <1>1, <1>4, Quiet, RetireMesh DEF network
  <2> QED
    BY <1>1, <2>3, <2>4, <2>5, Quiet DEF IInv
<1> QED
  BY <1>3, <1>4 DEF ResumeBegin

LEMMA PromoteBeginInv ==
    ASSUME IInv, NEW j \in queue, PromoteBegin(j) PROVE IInv'
<1> DEFINE from == IF state = "ended" THEN "ended" ELSE "synchronizing"
<1>1. /\ UNCHANGED <<incarnation, disconnected, network, detaching, world>> /\ holder = None
      /\ Advance /\ records' = Pended /\ Retire(Views)
      /\ Establish(Held(j, "connect"), Pended, from, queue \ {j})
  BY DEF PromoteBegin
<1> HIDE DEF from
<1>2. Held(j, "connect") \in HolderType /\ Held(j, "connect").job = j /\ j \in JobType
  BY WorkFacts, HeldFacts
<1>3. /\ Work' /\ feed' \in Views \cup {None}
      /\ feed' # None => Pended[feed'] # "none"
      /\ state' \in {from, "ended", "suspended"}
  BY <1>1, <1>2, EstablishFacts
<1>4. Panes'
  <2>1. Pended \in [Views -> {"none", "pending", "attached", "failed"}]
    BY DEF IInv, Panes, PanesTyped, Pended
  <2> QED
    BY <1>1, <1>3, <2>1 DEF Panes, PanesTyped, FeedRecorded
<1>5. StateTyped'
  BY <1>1, <1>3, AdvanceFacts DEF IInv, StateTyped, from
<1>6. Mesh'
  BY <1>1, Quiet, RetireMesh DEF network
<1>7. Network' /\ WorldTyped'
  BY <1>1, Quiet
<1> QED
  BY <1>3, <1>4, <1>5, <1>6, <1>7 DEF IInv

LEMMA SecondariesBeginInv ==
    ASSUME IInv, NEW j \in queue, SecondariesBegin(j) PROVE IInv'
<1>1. /\ UNCHANGED <<lifecycle, panes, mesh, network, detaching, world>>
      /\ holder = None /\ j.kind = "secondaries" /\ Secondaries(j, j.todo, queue \ {j})
  BY DEF SecondariesBegin
<1>2. Work'
  BY <1>1, WorkFacts, SecondariesWork DEF lifecycle
<1> QED
  BY <1>1, <1>2, Quiet DEF IInv, network

-----------------------------------------------------------------------------
(* The job that holds the mutex. *)

\* An attempt gets on to its next stage or to a verdict, and may close its
\* connection.
LEMMA GoesInv ==
    ASSUME IInv, holder # None, NEW pc \in Verdicts, Goes(pc),
           UNCHANGED <<lifecycle, panes, mesh, detaching>>, Fault \/ UNCHANGED world,
           UNCHANGED network \/ \E c \in Nat : Invalidate(c)
    PROVE  IInv'
<1>1. Network' /\ Onward
  BY Quiet, InvalidateFacts DEF network
<1>2. Work'
  BY GoesWork DEF lifecycle, Verdicts
<1>3. WorldTyped'
  BY SpentFacts DEF IInv, WorldTyped
<1> QED
  BY <1>1, <1>2, <1>3, Quiet DEF IInv

\* The connection of an attempt is a number, and its view may be None.
LEMMA HolderFacts ==
    ASSUME IInv, holder # None
    PROVE  /\ holder \in HolderType /\ holder.job \in JobType
           /\ holder.connection \in Nat /\ holder.connection \in 0..MaxConnections
           /\ Staged(holder) /\ Current(holder)
  BY WorkFacts, BoundsOK DEF HolderType, WorkOf

LEMMA ResumeDialInv ==
    ASSUME IInv, NEW c \in Connections, ResumeDial(c) PROVE IInv'
<1>1. /\ holder # None /\ Connect(c) /\ incarnation' = c
      /\ holder' = [holder EXCEPT !.pc = "list", !.connection = c]
      /\ UNCHANGED <<state, generation, disconnected, panes, mesh, queue, engines,
                     detaching, world>>
  BY DEF ResumeDial, At
<1>2. Network' /\ Onward
  BY <1>1, ConnectFacts
<1>3. StateTyped'
  BY <1>1, BoundsOK DEF IInv, StateTyped, Connections
<1>4. Work'
  <2>1. /\ holder' \in HolderType /\ holder'.job = holder.job /\ holder'.pc = "list"
    <3>1. holder \in HolderType /\ c \in 0..MaxConnections
      BY <1>1, HolderFacts, BoundsOK DEF Connections
    <3> QED
      BY <1>1, <3>1 DEF HolderType
  <2>2. Staged(holder)'
    BY <2>1 DEF Staged
  <2> QED
    BY <1>1, <2>1, <2>2, HeldWork
<1> QED
  BY <1>1, <1>2, <1>3, <1>4, Quiet DEF IInv

LEMMA DialFailsInv ==
    ASSUME IInv, DialFails PROVE IInv'
<1> DEFINE pc == IF holder.pc = "dial" THEN "abandoned" ELSE "failed"
<1>1. /\ holder # None /\ Fault /\ Goes(pc)
      /\ UNCHANGED <<lifecycle, panes, mesh, network, detaching>>
  BY DEF DialFails, At
<1>2. pc \in Verdicts
  BY DEF Verdicts
<1> HIDE DEF pc
<1> QED
  BY <1>1, <1>2, GoesInv

LEMMA ResumeListedInv ==
    ASSUME IInv, ResumeListed PROVE IInv'
<1>1. /\ holder # None /\ Establish(holder, records, state, queue)
      /\ UNCHANGED <<generation, incarnation, disconnected, records, mesh, network,
                     detaching, world>>
  BY DEF ResumeListed, At
<1>2. /\ Work' /\ feed' \in Views \cup {None}
      /\ feed' # None => records[feed'] # "none"
      /\ state' \in {state, "ended", "suspended"}
  BY <1>1, HolderFacts, EstablishFacts
<1>3. Panes' /\ StateTyped'
  BY <1>1, <1>2 DEF IInv, Panes, PanesTyped, FeedRecorded, StateTyped
<1> QED
  BY <1>1, <1>2, <1>3, Quiet DEF IInv, network

LEMMA ResumeUnlistedInv ==
    ASSUME IInv, ResumeUnlisted PROVE IInv'
<1>1. /\ holder # None /\ UNCHANGED <<lifecycle, panes, mesh, detaching>>
      /\ Fault \/ UNCHANGED world
      /\ \/ Goes("ended") /\ UNCHANGED network
         \/ Goes("abandoned") /\ Invalidate(holder.connection)
  BY DEF ResumeUnlisted, At, world
<1> QED
  BY <1>1, HolderFacts, GoesInv DEF Verdicts

\* Ask is where an attempt gets its generation: the current one.
LEMMA AskInv ==
    ASSUME IInv, NEW c \in Connections, Ask(c) PROVE IInv'
<1>1. /\ holder # None /\ holder.pc = "connect" /\ Connect(c)
      /\ records' = [records EXCEPT ![holder.view] = "pending"]
      /\ holder' = [holder EXCEPT !.pc = "asked", !.connection = c,
                                  !.generation = generation]
      /\ UNCHANGED <<lifecycle, feed, mesh, queue, engines, detaching, world>>
  BY DEF Ask, At, Mark
<1>2. Network' /\ Onward
  BY <1>1, ConnectFacts
<1>3. Panes'
  BY <1>1, MarkFacts
<1>4. Work'
  <2>1. generation' = generation /\ generation \in 0..MaxGeneration
    BY <1>1, BoundsOK DEF lifecycle, IInv, StateTyped
  <2>2. /\ holder' \in HolderType /\ holder'.job = holder.job /\ holder'.pc = "asked"
        /\ holder'.generation = generation /\ holder'.feed = holder.feed
    <3>1. holder \in HolderType /\ c \in 0..MaxConnections
      BY <1>1, HolderFacts, BoundsOK DEF Connections
    <3> QED
      BY <1>1, <2>1, <3>1 DEF HolderType
  <2>3. Staged(holder)'
    BY <1>1, <2>2, HolderFacts DEF Staged
  <2> QED
    BY <1>1, <2>1, <2>2, <2>3, HeldWork
<1> QED
  BY <1>1, <1>2, <1>3, <1>4, Quiet DEF IInv

LEMMA RefusedInv ==
    ASSUME IInv, Refused PROVE IInv'
<1>1. /\ holder # None /\ UNCHANGED <<lifecycle, panes, mesh, detaching>>
      /\ Fault \/ UNCHANGED world
      /\ UNCHANGED network \/ Invalidate(holder.connection)
      /\ \/ Goes("failed") \/ Goes("ended") \/ Goes("superseded") \/ Goes("invalid")
         \/ Goes("rejected")
  BY DEF Refused, At, world
<1> QED
  BY <1>1, HolderFacts, GoesInv DEF Verdicts

LEMMA StreamFailsInv ==
    ASSUME IInv, StreamFails PROVE IInv'
<1>1. /\ holder # None /\ UNCHANGED <<lifecycle, panes, mesh, network, detaching>>
      /\ Fault \/ UNCHANGED world
      /\ Goes("failed")
  BY DEF StreamFails, At, world
<1> QED
  BY <1>1, GoesInv DEF Verdicts

\* An entry that is published names a generation, a connection and a reader.
LEMMA PublishedFacts ==
    ASSUME IInv, holder # None, holder.connection \in up, generation = holder.generation,
           NEW n \in Nat, NEW s, s \in Seq(ReaderType), n <= Len(s), Len(readers) <= Len(s),
           readers' = s, Publish(n)
    PROVE  MeshTyped'
<1> DEFINE entry == [generation |-> holder.generation, incarnation |-> holder.connection,
                     reader |-> n]
<1>1. entries \in [Views -> {None} \cup EntryType] /\ Len(readers) \in Nat
  BY DEF IInv, Mesh, MeshTyped
<1>2. Len(s) \in Nat
  OBVIOUS
<1>3. \A e \in EntryType : e \in EntryType'
  <2>1. 0..Len(readers) \subseteq 0..Len(s)
    BY <1>1, <1>2
  <2> QED
    BY <2>1 DEF EntryType
<1>4. entry \in EntryType'
  <2>1. /\ holder.generation \in 1..MaxGeneration /\ holder.connection \in 1..MaxConnections
        /\ n \in 0..Len(s)
    <3>1. up \subseteq 1..MaxConnections
      BY BoundsOK DEF IInv, Network, NetworkTyped
    <3>2. n \in 0..Len(s)
      BY <1>2
    <3>3. generation \in 1..MaxGeneration
      BY DEF IInv, StateTyped
    <3> QED
      BY <3>1, <3>2, <3>3
  <2> QED
    BY <2>1 DEF EntryType
<1>5. entries' = [entries EXCEPT ![holder.view] = entry]
  BY DEF Publish
<1> HIDE DEF entry
<1>6. entries' \in [Views -> {None} \cup EntryType']
  BY <1>1, <1>3, <1>4, <1>5
<1> QED
  BY <1>6 DEF MeshTyped, ReaderType

LEMMA AnsweredInv ==
    ASSUME IInv, Answered PROVE IInv'
<1>1. /\ holder # None /\ holder.pc = "asked" /\ holder.connection \in up
      /\ incarnation' = holder.connection
      /\ UNCHANGED <<state, generation, disconnected, feed, network, detaching, world>>
  BY DEF Answered, At
<1>2. StateTyped'
  BY <1>1, HolderFacts DEF IInv, StateTyped
<1>3. Network' /\ Onward /\ WorldTyped'
  BY <1>1, Quiet DEF network
<1>4. CASE UNCHANGED <<records, mesh>> /\ (Goes("stream") \/ Goes("failed"))
  <2>1. Work'
    BY <1>1, <1>4, GoesWork DEF Verdicts
  <2> QED
    BY <1>1, <1>2, <1>3, <1>4, <2>1, Quiet DEF IInv, panes
<1>5. CASE /\ ~holder.feed /\ generation = holder.generation
           /\ Publish(0) /\ readers' = Cancelled({holder.view})
           /\ Mark(holder.view, "attached")
           /\ IF holder.job.kind = "attach"
              THEN UNCHANGED <<queue, engines>> /\ holder' = None
              ELSE Secondaries(holder.job, holder.job.todo, queue)
  <2>1. Panes'
    BY <1>1, <1>5, MarkFacts DEF Mark
  <2>2. Mesh'
    <3> DEFINE s == Cancelled({holder.view})
    <3>1. /\ s \in Seq(ReaderType) /\ Len(s) = Len(readers) /\ DOMAIN s = DOMAIN readers
          /\ \A r \in DOMAIN readers : /\ s[r].incarnation = readers[r].incarnation
                                       /\ s[r].pc = readers[r].pc
      BY CancelledFacts DEF IInv
    <3> HIDE DEF s
    <3>2. Len(readers) \in Nat /\ readers' = s
      BY <1>5 DEF s, IInv, Mesh, MeshTyped
    <3>3. MeshTyped'
      <4>1. 0 \in Nat /\ 0 <= Len(s) /\ Len(readers) <= Len(s)
        BY <3>1, <3>2
      <4>2. Publish(0) /\ generation = holder.generation
        BY <1>5
      <4> QED
        BY <1>1, <3>1, <3>2, <4>1, <4>2, PublishedFacts
    <3>4. Dialed'
      BY <1>3, <3>1, <3>2, OnwardFacts DEF Dialed
    <3> QED
      BY <3>3, <3>4 DEF Mesh
  <2>3. Work'
    <3>1. CASE holder.job.kind = "attach"
      <4>1. holder.job.by # "engine"
        BY <1>1, <3>1, WorkFacts
      <4> QED
        BY <1>1, <1>5, <3>1, <4>1, FreedWork
    <3>2. CASE holder.job.kind # "attach"
      <4>1. holder.job \in JobType /\ holder.job.kind = "secondaries"
        BY <1>1, <1>5, <3>2, HolderFacts DEF Staged, JobType
      <4> QED
        BY <1>1, <1>5, <3>2, <4>1, SecondariesWork
    <3> QED
      BY <3>1, <3>2
  <2> QED
    BY <1>2, <1>3, <2>1, <2>2, <2>3 DEF IInv
<1> QED
  BY <1>4, <1>5 DEF Answered

\* A reader that is spawned has the connection of its attempt.
LEMMA StreamsInv ==
    ASSUME IInv, Streams PROVE IInv'
<1> DEFINE awaits == holder.job.kind # "attach" \/ holder.resuming
           reader == [generation |-> generation, incarnation |-> holder.connection,
                      cancelled |-> FALSE, synchronized |-> FALSE, pc |-> "reading"]
<1>1. /\ holder # None /\ holder.connection \in up
      /\ UNCHANGED <<generation, incarnation, disconnected, feed, network, detaching, world>>
  BY DEF Streams, At
<1>2. Network' /\ Onward /\ WorldTyped'
  BY <1>1, Quiet DEF network
<1>3. CASE Goes("failed") /\ UNCHANGED <<state, records, mesh>>
  <2>1. Work'
    BY <1>1, <1>3, GoesWork DEF Verdicts
  <2> QED
    BY <1>1, <1>2, <1>3, <2>1, Quiet DEF IInv, panes, lifecycle
<1>4. CASE /\ generation = holder.generation
           /\ Publish(Len(readers) + 1)
           /\ readers' = Append(Cancelled({holder.view}), reader)
           /\ Mark(holder.view, "attached")
           /\ state' = IF state = "ended" THEN state
                       ELSE IF awaits THEN "synchronizing" ELSE "live"
           /\ holder' = IF awaits
                        THEN [holder EXCEPT !.pc = "snapshot", !.reader = Len(readers) + 1]
                        ELSE None
           /\ UNCHANGED <<queue, engines>>
  <2>1. Panes'
    BY <1>1, <1>4, MarkFacts DEF Mark
  <2>2. StateTyped'
    BY <1>1, <1>4 DEF IInv, StateTyped
  <2>3. Len(readers) \in Nat
    BY DEF IInv, Mesh, MeshTyped
  <2>4. Mesh'
    <3> DEFINE s == Cancelled({holder.view})
    <3>1. /\ s \in Seq(ReaderType) /\ Len(s) = Len(readers) /\ DOMAIN s = DOMAIN readers
          /\ \A r \in DOMAIN readers : /\ s[r].incarnation = readers[r].incarnation
                                       /\ s[r].pc = readers[r].pc
      BY CancelledFacts DEF IInv
    <3>2. /\ reader \in ReaderType /\ reader.pc = "reading"
          /\ reader.incarnation \in 1..dialed'
      <4>1. holder.connection \in 1..dialed /\ dialed' = dialed
        BY <1>1 DEF IInv, Network, NetworkTyped, network
      <4>2. generation \in 0..MaxGeneration /\ holder.connection \in 0..MaxConnections
        BY <1>1, BoundsOK, HolderFacts DEF IInv, StateTyped
      <4> QED
        BY <4>1, <4>2 DEF ReaderType
    <3>3. readers' = Append(s, reader)
      BY <1>4
    <3> HIDE DEF s, reader
    <3>4. /\ readers' \in Seq(ReaderType) /\ Len(readers') = Len(readers) + 1
          /\ DOMAIN readers' = DOMAIN readers \cup {Len(readers) + 1}
          /\ \A r \in DOMAIN readers : readers'[r] = s[r]
          /\ readers'[Len(readers) + 1] = reader
      BY <2>3, <3>1, <3>2, <3>3
    <3>5. MeshTyped'
      <4> DEFINE n == Len(readers) + 1
                 t == Append(s, reader)
      <4>1. n \in Nat /\ n <= Len(t) /\ Len(readers) <= Len(t) /\ t \in Seq(ReaderType)
        BY <2>3, <3>3, <3>4
      <4>2. Publish(n) /\ generation = holder.generation /\ readers' = t
        BY <1>4, <3>3
      <4> HIDE DEF n, t
      <4> QED
        BY <1>1, <4>1, <4>2, PublishedFacts
    <3>6. Dialed'
      <4>1. \A r \in DOMAIN readers :
                /\ readers'[r].incarnation <= dialed'
                /\ readers'[r].pc # "gone" => readers'[r].incarnation > 0
                /\ readers'[r].pc = "verdict" => readers'[r].incarnation \notin up'
        BY <1>2, <3>1, <3>4, OnwardFacts
      <4>2. reader.incarnation <= dialed' /\ reader.incarnation > 0
        BY <1>2, <3>2 DEF Onward
      <4> QED
        BY <3>2, <3>4, <4>1, <4>2 DEF Dialed
    <3> QED
      BY <3>5, <3>6 DEF Mesh
  <2>5. Work'
    <3>1. CASE awaits
      <4>1. /\ holder' \in HolderType /\ holder'.job = holder.job
            /\ holder'.pc = "snapshot"
        <5>1. /\ holder \in HolderType /\ Len(readers) + 1 \in Nat
              /\ holder' = [holder EXCEPT !.pc = "snapshot", !.reader = Len(readers) + 1]
          BY <1>1, <1>4, <2>3, <3>1, HolderFacts
        <5> QED
          BY <5>1 DEF HolderType
      <4>2. Staged(holder)'
        BY <4>1 DEF Staged
      <4> QED
        BY <1>1, <1>4, <4>1, <4>2, HeldWork
    <3>2. CASE ~awaits
      <4>1. holder.job.by # "engine"
        BY <1>1, <3>2, WorkFacts
      <4> QED
        BY <1>1, <1>4, <3>2, <4>1, FreedWork
    <3> QED
      BY <3>1, <3>2
  <2> QED
    BY <1>2, <2>1, <2>2, <2>4, <2>5 DEF IInv
<1> QED
  BY <1>3, <1>4 DEF Streams

\* The snapshot is there; a recovery sends for the other panes.
LEMMA SynchronizedInv ==
    ASSUME IInv, Synchronized PROVE IInv'
<1> DEFINE others == Recorded \ {holder.view}
           job == Job("secondaries", "runtime", None, others, generation)
           next == IF holder.job.kind = "attach" \/ others = {} THEN queue
                   ELSE queue \cup {job}
<1>1. /\ holder # None /\ Released(holder.job, next)
      /\ state' = IF state = "ended" THEN state ELSE "live"
      /\ UNCHANGED <<generation, incarnation, disconnected, panes, mesh, network,
                     detaching, world>>
  BY DEF Synchronized, At
<1>2. job \in JobType /\ job.by = "runtime"
  <2>1. others \in SUBSET Views /\ generation \in 0..MaxGeneration /\ None \in Views \cup {None}
    BY BoundsOK DEF Recorded, IInv, StateTyped
  <2> HIDE DEF others
  <2> QED
    BY <2>1, JobFacts
<1> HIDE DEF others, job
<1>3. /\ next \in SUBSET JobType /\ queue \subseteq next
      /\ \A i \in next : i.by = "engine" => i \in queue
  BY <1>2, WorkFacts
<1> HIDE DEF next
<1>4. Work'
  BY <1>1, <1>3, HolderFacts, ReleasedQueue
<1>5. StateTyped'
  BY <1>1 DEF IInv, StateTyped
<1> QED
  BY <1>1, <1>4, <1>5, Quiet DEF IInv, network

\* It does not come: a new generation, and a session at rest.
LEMMA UnsynchronizedInv ==
    ASSUME IInv, Unsynchronized PROVE IInv'
<1>1. /\ holder # None
      /\ Fault \/ UNCHANGED world
      /\ Advance /\ Retire(Views) /\ records' = Pended
      /\ state' = IF state = "ended" THEN state ELSE "suspended"
      /\ UNCHANGED <<incarnation, disconnected, feed, network, detaching>>
      /\ Released(holder.job, queue) \/ Goes("abandoned")
  BY DEF Unsynchronized, At, world
<1>2. StateTyped'
  BY <1>1, AdvanceFacts DEF IInv, StateTyped
<1>3. Panes' /\ Mesh' /\ WorldTyped'
  BY <1>1, PendedFacts, RetireMesh, Quiet, SpentFacts DEF network, IInv, WorldTyped
<1>4. Work'
  <2>1. CASE Released(holder.job, queue)
    BY <1>1, <2>1, HolderFacts, ReleasedWork
  <2>2. CASE Goes("abandoned")
    <3>1. holder' = [holder EXCEPT !.pc = "abandoned"] /\ queue' = queue /\ UNCHANGED engines
      BY <2>2 DEF Goes
    <3>2. /\ holder' \in HolderType /\ holder'.job = holder.job
          /\ holder'.pc = "abandoned"
      BY <1>1, <3>1, HolderFacts DEF HolderType, Verdicts
    <3>3. Staged(holder)'
      BY <3>2 DEF Staged
    <3> QED
      BY <1>1, <3>1, <3>2, <3>3, HeldWork
  <2> QED
    BY <1>1, <2>1, <2>2
<1> QED
  BY <1>1, <1>2, <1>3, <1>4, Quiet DEF IInv

-----------------------------------------------------------------------------
(* What is made of a verdict. *)

\* A terminal verdict: no engine is left to come back to it.
LEMMA VerdictEndsInv ==
    ASSUME IInv, VerdictEnds PROVE IInv'
<1> DEFINE h == IF holder.job.by = "engine" THEN holder ELSE None
<1>1. /\ holder # None /\ End(h, queue)
      /\ UNCHANGED <<generation, incarnation, disconnected, feed, mesh, network,
                     detaching, world>>
  BY DEF VerdictEnds, At
<1>2. CASE holder.job.by = "engine"
  <2>1. StateTyped' /\ Panes' /\ Work'
    BY <1>1, <1>2, WorkFacts, EndFacts
  <2> QED
    BY <1>1, <2>1, Quiet DEF IInv, network
<1>3. CASE holder.job.by # "engine"
  <2>1. WorkOf(None, queue)
    BY <1>1, <1>3, WorkFacts DEF WorkOf, WorkTyped, Current, Staged, Works
  <2>2. StateTyped' /\ Panes' /\ Work'
    BY <1>1, <1>3, <2>1, EndFacts
  <2> QED
    BY <1>1, <2>2, Quiet DEF IInv, network
<1> QED
  BY <1>2, <1>3

LEMMA ReelectsInv ==
    ASSUME IInv, Reelects PROVE IInv'
<1>1. /\ holder # None /\ records' = Marked /\ Establish(holder, Marked, state, queue)
      /\ UNCHANGED <<generation, incarnation, disconnected, mesh, network, detaching, world>>
  BY DEF Reelects
<1>2. /\ Work' /\ feed' \in Views \cup {None}
      /\ feed' # None => Marked[feed'] # "none"
      /\ state' \in {state, "ended", "suspended"}
  BY <1>1, HolderFacts, EstablishFacts
<1>3. Panes'
  BY <1>1, <1>2, MarkedFacts DEF Panes, PanesTyped, FeedRecorded
<1>4. StateTyped'
  BY <1>1, <1>2 DEF IInv, StateTyped
<1> QED
  BY <1>1, <1>2, <1>3, <1>4, Quiet DEF IInv, network

LEMMA SupersededInv ==
    ASSUME IInv, Superseded PROVE IInv'
<1>1. /\ holder # None /\ UNCHANGED state /\ Released(holder.job, queue)
      /\ UNCHANGED <<generation, incarnation, disconnected, panes, mesh, network,
                     detaching, world>>
  BY DEF Superseded
<1>2. Work'
  BY <1>1, HolderFacts, ReleasedWork
<1> QED
  BY <1>1, <1>2, Quiet DEF IInv, network, lifecycle

\* The cached connection is given up, or the network stays as it is.
LEMMA GivenUpFacts ==
    ASSUME IInv, UNCHANGED network \/ Invalidate(cached)
    PROVE  Network' /\ Onward
  BY Quiet, InvalidateFacts DEF network

LEMMA ResumeFailsInv ==
    ASSUME IInv, ResumeFails PROVE IInv'
<1>1. /\ holder # None /\ UNCHANGED state /\ Released(holder.job, queue)
      /\ records' = Marked
      /\ UNCHANGED network \/ Invalidate(cached)
      /\ UNCHANGED <<generation, incarnation, disconnected, feed, mesh, detaching, world>>
  BY DEF ResumeFails
<1>2. Work'
  BY <1>1, HolderFacts, ReleasedWork
<1>3. Panes' /\ Network' /\ Onward
  BY <1>1, MarkedFacts, GivenUpFacts
<1> QED
  BY <1>1, <1>2, <1>3, Quiet DEF IInv, lifecycle

\* A failed promotion leaves its session to an engine that is begun anew.
LEMMA PromoteFailsInv ==
    ASSUME IInv, PromoteFails PROVE IInv'
<1>1. /\ holder # None /\ holder.job.kind = "promote"
      /\ records' = Marked
      /\ UNCHANGED network \/ Invalidate(cached)
      /\ state' \in {"suspended", "reconnecting"}
      /\ engine' = "decide" /\ handle' = TRUE
      /\ holder' = None /\ queue' = Unqueued(queue)
      /\ UNCHANGED <<generation, incarnation, disconnected, feed, mesh, detaching, world>>
  BY DEF PromoteFails
<1>2. Work'
  <2>1. holder.job.by # "engine"
    BY <1>1, WorkFacts
  <2>2. WorkOf(None, queue)
    BY <1>1, <2>1, WorkFacts DEF WorkOf, WorkTyped, Current, Staged, Works
  <2>3. Dropped(None) = None
    BY DEF Dropped
  <2> QED
    BY <1>1, <2>2, <2>3, BegunWork
<1>3. Panes' /\ Network' /\ Onward
  BY <1>1, MarkedFacts, GivenUpFacts
<1>4. StateTyped'
  BY <1>1 DEF IInv, StateTyped
<1> QED
  BY <1>1, <1>2, <1>3, <1>4, Quiet DEF IInv

LEMMA AttachRetriesInv ==
    ASSUME IInv, AttachRetries PROVE IInv'
<1>1. /\ holder # None /\ holder.job.kind = "attach" /\ Invalidate(cached)
      /\ holder' = [holder EXCEPT !.pc = "connect", !.again = TRUE]
      /\ UNCHANGED <<lifecycle, panes, mesh, queue, engines, detaching, world>>
  BY DEF AttachRetries
<1>2. Network' /\ Onward
  BY <1>1, GivenUpFacts
<1>3. Work'
  <2>1. /\ holder' \in HolderType /\ holder'.job = holder.job
        /\ holder'.pc = "connect"
    BY <1>1, HolderFacts DEF HolderType
  <2>2. Staged(holder)'
    BY <1>1, <2>1 DEF Staged
  <2> QED
    BY <1>1, <2>1, <2>2, HeldWork
<1> QED
  BY <1>1, <1>2, <1>3, Quiet DEF IInv

LEMMA AttachFailsInv ==
    ASSUME IInv, AttachFails PROVE IInv'
<1>1. /\ holder # None /\ Released(holder.job, queue) /\ records' = Marked
      /\ state' = IF state = "reconnecting" THEN "suspended" ELSE state
      /\ UNCHANGED <<generation, incarnation, disconnected, feed, mesh, network,
                     detaching, world>>
  BY DEF AttachFails
<1>2. Work'
  BY <1>1, HolderFacts, ReleasedWork
<1>3. Panes' /\ StateTyped'
  BY <1>1, MarkedFacts DEF IInv, StateTyped
<1> QED
  BY <1>1, <1>2, <1>3, Quiet DEF IInv, network

LEMMA SecondaryFailsInv ==
    ASSUME IInv, SecondaryFails PROVE IInv'
<1>1. /\ holder # None /\ holder.job.kind = "secondaries"
      /\ Secondaries(holder.job, holder.job.todo, queue)
      /\ records' = records \/ records' = Marked
      /\ UNCHANGED <<lifecycle, feed, mesh, network, detaching, world>>
  BY DEF SecondaryFails
<1>2. Work'
  BY <1>1, HolderFacts, SecondariesWork DEF lifecycle
<1>3. Panes'
  BY <1>1, MarkedFacts, PendedFacts
<1> QED
  BY <1>1, <1>2, <1>3, Quiet DEF IInv, network

-----------------------------------------------------------------------------
(* reconnect_engine. *)

\* The engine is somewhere else, and has no job before or after.
LEMMA EngineWork ==
    ASSUME IInv, engine \notin {"none", "working"},
           engine' \in {"decide", "waiting", "parked", "returned"},
           UNCHANGED <<work, handle, generation>>
    PROVE  Work'
  BY DEF IInv, Work, WorkOf, WorkTyped, Current, Staged, Works, work

LEMMA EngineLooksInv ==
    ASSUME IInv, EngineLooks PROVE IInv'
<1>1. /\ engine = "decide" /\ engine' \in {"returned", "parked", "waiting"}
      /\ state' \in {state, "suspended", "reconnecting"}
      /\ UNCHANGED <<generation, incarnation, disconnected, panes, mesh, network, work,
                     handle, detaching, world>>
  BY DEF EngineLooks
<1>2. Work' /\ StateTyped'
  BY <1>1, EngineWork DEF IInv, StateTyped
<1> QED
  BY <1>1, <1>2, Quiet DEF IInv, network

\* It asks for the mutex, and has its one job.
LEMMA EngineDialsInv ==
    ASSUME IInv, EngineDials PROVE IInv'
<1>1. /\ engine = "waiting"
      /\ \/ engine' = "decide" /\ UNCHANGED queue
         \/ engine' = "working" /\ queue' = queue \cup {EngineJob}
      /\ Fault \/ UNCHANGED world
      /\ UNCHANGED <<lifecycle, panes, mesh, network, holder, handle, detaching>>
  BY DEF EngineDials, EngineJob
<1>2. Work'
  <2>1. CASE engine' = "decide" /\ UNCHANGED queue
    BY <1>1, <2>1, EngineWork DEF work, lifecycle
  <2>2. CASE engine' = "working" /\ queue' = queue \cup {EngineJob}
    <3>1. /\ WorkOf(holder, queue) /\ holder' = holder /\ handle' = handle
          /\ generation' = generation
      BY <1>1, WorkFacts DEF lifecycle
    <3>2. holder # None => holder.job.by # "engine"
      BY <1>1, <3>1 DEF WorkOf, Works
    <3> QED
      BY <1>1, <2>2, <3>1, <3>2, EngineJobFacts
         DEF Work, WorkOf, WorkTyped, Current, Staged, Works
  <2> QED
    BY <1>1, <2>1, <2>2
<1>3. WorldTyped'
  BY <1>1, SpentFacts DEF IInv, WorldTyped
<1> QED
  BY <1>1, <1>2, <1>3, Quiet DEF IInv, network

LEMMA EngineWakesInv ==
    ASSUME IInv, EngineWakes PROVE IInv'
<1>1. /\ engine = "parked" /\ engine' = "decide"
      /\ UNCHANGED <<lifecycle, panes, mesh, network, work, handle, detaching, world>>
  BY DEF EngineWakes
<1>2. Work'
  BY <1>1, EngineWork DEF lifecycle
<1> QED
  BY <1>1, <1>2, Quiet DEF IInv, network

-----------------------------------------------------------------------------
(* The feed's reader, and the heartbeat of a connection. *)

LEMMA ReaderPublishesInv ==
    ASSUME IInv, NEW r \in DOMAIN readers, ReaderPublishes(r) PROVE IInv'
<1> DEFINE after == [readers[r] EXCEPT !.synchronized = TRUE]
<1>1. /\ readers' = [readers EXCEPT ![r] = after]
      /\ UNCHANGED <<lifecycle, panes, entries, network, work, engines, detaching, world>>
  BY DEF ReaderPublishes
<1>2. Onward
  BY <1>1, Quiet DEF network
<1>3. Mesh'
  <2>1. /\ readers \in Seq(ReaderType) /\ DOMAIN readers = 1..Len(readers)
        /\ Len(readers) \in Nat /\ readers[r] \in ReaderType
    BY DEF IInv, Mesh, MeshTyped
  <2>2. /\ after \in ReaderType /\ after.incarnation = readers[r].incarnation
        /\ after.pc = readers[r].pc
    BY <2>1 DEF ReaderType
  <2> HIDE DEF after
  <2>3. /\ readers' \in Seq(ReaderType) /\ Len(readers') = Len(readers)
        /\ DOMAIN readers' = DOMAIN readers
        /\ \A q \in DOMAIN readers : /\ readers'[q].incarnation = readers[q].incarnation
                                     /\ readers'[q].pc = readers[q].pc
    BY <1>1, <2>1, <2>2
  <2>4. MeshTyped'
    <3>1. entries' = entries /\ EntryType' = EntryType
      BY <1>1, <2>3 DEF EntryType
    <3> QED
      BY <2>3, <3>1 DEF IInv, Mesh, MeshTyped, ReaderType
  <2>5. Dialed'
    BY <1>2, <2>3, OnwardFacts DEF Dialed
  <2> QED
    BY <2>4, <2>5 DEF Mesh
<1> QED
  BY <1>1, <1>3, Quiet DEF IInv, lifecycle

LEMMA ReaderEndsInv ==
    ASSUME IInv, NEW r \in DOMAIN readers, ReaderEnds(r) PROVE IInv'
<1>1. /\ readers[r].pc = "reading" /\ Leaves(r, "left") /\ End(holder, queue)
      /\ UNCHANGED <<generation, incarnation, disconnected, feed, entries, network,
                     detaching, world>>
  BY DEF ReaderEnds, Reading
<1>2. StateTyped' /\ Panes' /\ Work'
  BY <1>1, WorkFacts, EndFacts
<1>3. Onward
  BY <1>1, Quiet DEF network
<1>4. Mesh'
  BY <1>1, <1>3, LeavesMesh
<1> QED
  BY <1>1, <1>2, <1>4, Quiet DEF IInv

LEMMA ReaderStopsInv ==
    ASSUME IInv, NEW r \in DOMAIN readers, ReaderStops(r) PROVE IInv'
<1>1. /\ readers[r].pc = "reading" /\ (Leaves(r, "left") \/ Leaves(r, "failed"))
      /\ UNCHANGED <<lifecycle, panes, entries, network, work, engines, detaching, world>>
  BY DEF ReaderStops, Reading
<1>2. Onward
  BY <1>1, Quiet DEF network
<1>3. Mesh'
  BY <1>1, <1>2, LeavesMesh
<1> QED
  BY <1>1, <1>3, Quiet DEF IInv, lifecycle

LEMMA ReaderErrsInv ==
    ASSUME IInv, NEW r \in DOMAIN readers, ReaderErrs(r) PROVE IInv'
<1>1. /\ readers[r].pc = "reading" /\ Leaves(r, "failed") /\ Fault
      /\ UNCHANGED <<lifecycle, panes, entries, network, work, engines, detaching>>
  BY DEF ReaderErrs, Reading
<1>2. Onward
  BY <1>1, Quiet DEF network
<1>3. Mesh' /\ WorldTyped'
  BY <1>1, <1>2, LeavesMesh, SpentFacts DEF IInv, WorldTyped
<1> QED
  BY <1>1, <1>3, Quiet DEF IInv, lifecycle

\* A reader that failed closes its connection before it draws a verdict.
LEMMA ReaderRetiresInv ==
    ASSUME IInv, NEW r \in DOMAIN readers, ReaderRetires(r) PROVE IInv'
<1>1. /\ readers[r].pc \in {"left", "failed"}
      /\ entries' = [v \in Views |-> IF entries[v] # None /\ entries[v].reader = r
                                     THEN None ELSE entries[v]]
      /\ \/ Leaves(r, "gone") /\ UNCHANGED network
         \/ Leaves(r, "verdict") /\ Invalidate(readers[r].incarnation)
      /\ UNCHANGED <<lifecycle, panes, work, engines, detaching, world>>
  BY DEF ReaderRetires
<1>2. Network' /\ Onward /\ Mesh'
  <2>1. CASE Leaves(r, "gone") /\ UNCHANGED network
    <3>1. Network' /\ Onward
      BY <2>1, Quiet DEF network
    <3> QED
      BY <1>1, <2>1, <3>1, LeavesMesh
  <2>2. CASE Leaves(r, "verdict") /\ Invalidate(readers[r].incarnation)
    <3>1. Network' /\ Onward /\ readers[r].incarnation \notin up'
      BY <2>2, InvalidateFacts
    <3> QED
      BY <1>1, <2>2, <3>1, LeavesMesh
  <2> QED
    BY <1>1, <2>1, <2>2
<1> QED
  BY <1>1, <1>2, Quiet DEF IInv, lifecycle

\* commit_disconnect, of the connection the session is bound to.
LEMMA DisconnectFacts ==
    ASSUME IInv, NEW g, NEW c \in Connections, Disconnects(g, c), Disconnect(g, c),
           UNCHANGED <<generation, incarnation, feed>>
    PROVE  StateTyped' /\ Panes'
<1>1. StateTyped'
  BY DEF IInv, StateTyped, Disconnects, Disconnect, Connections
<1>2. Panes'
  BY PendedFacts DEF Disconnect
<1> QED
  BY <1>1, <1>2

LEMMA ReaderVerdictInv ==
    ASSUME IInv, NEW r \in DOMAIN readers, ReaderVerdict(r)
    PROVE  /\ IInv'
           /\ disconnected' # disconnected =>
                 disconnected'[2] = incarnation /\ incarnation \notin up
<1> DEFINE g == readers[r].generation
           c == readers[r].incarnation
<1>1. /\ readers[r].pc = "verdict"
      /\ \/ Disconnects(g, c) /\ Disconnect(g, c) /\ Leaves(r, "arming")
         \/ Leaves(r, "gone") /\ UNCHANGED <<disconnected, records, state>>
      /\ UNCHANGED <<generation, incarnation, feed, entries, network, work, engines,
                     detaching, world>>
  BY DEF ReaderVerdict
<1>2. Onward
  BY <1>1, Quiet DEF network
<1>3. c \in Connections /\ c \notin up
  <2>1. readers[r] \in ReaderType
    BY DEF IInv, Mesh, MeshTyped
  <2>2. c \in 0..MaxConnections
    BY <2>1 DEF ReaderType
  <2> QED
    BY <1>1, <2>2, BoundsOK DEF IInv, Mesh, Dialed, Connections
<1>4. Mesh'
  BY <1>1, <1>2, LeavesMesh
<1> HIDE DEF g, c
<1>5. CASE Disconnects(g, c) /\ Disconnect(g, c)
  <2>1. StateTyped' /\ Panes'
    BY <1>1, <1>3, <1>5, DisconnectFacts
  <2>2. disconnected'[2] = incarnation /\ incarnation \notin up
    BY <1>3, <1>5 DEF Disconnects, Disconnect
  <2> QED
    BY <1>1, <1>4, <2>1, <2>2, Quiet DEF IInv
<1>6. CASE UNCHANGED <<disconnected, records, state>>
  BY <1>1, <1>4, <1>6, Quiet DEF IInv, lifecycle, panes
<1> QED
  BY <1>1, <1>5, <1>6

LEMMA ReaderArmsInv ==
    ASSUME IInv, NEW r \in DOMAIN readers, ReaderArms(r) PROVE IInv'
<1>1. /\ readers[r].pc = "arming" /\ Leaves(r, "gone") /\ Arm(holder, queue)
      /\ UNCHANGED <<lifecycle, panes, entries, network, detaching, world>>
  BY DEF ReaderArms
<1>2. Onward
  BY <1>1, Quiet DEF network
<1>3. Mesh' /\ Work'
  BY <1>1, <1>2, LeavesMesh, WorkFacts, ArmWork DEF lifecycle
<1> QED
  BY <1>1, <1>3, Quiet DEF IInv

\* A heartbeat gets on, and only to a verdict on a connection that is down.
LEMMA BeatNetwork ==
    ASSUME IInv, NEW c \in Connections, beats[c].pc # "none",
           NEW beat \in BeatType, beats' = [beats EXCEPT ![c] = beat],
           beat.pc = "verdict" => c \notin up,
           UNCHANGED <<dialed, up>>, cached' \in {0, cached}
    PROVE  Network' /\ Onward
<1>1. Network /\ Onward
  BY Quiet DEF IInv
<1>2. beats \in [Connections -> BeatType] /\ dialed \in Nat
  BY <1>1, BoundsOK DEF Network, NetworkTyped, Connections
<1>3. beats' \in [Connections -> BeatType] /\ cached' \in 0..dialed
  BY <1>1, <1>2, BoundsOK DEF Network, NetworkTyped
<1>4. Watched'
  BY <1>1, <1>2 DEF Network, Watched, Connections
<1> QED
  BY <1>1, <1>3, <1>4 DEF Network, NetworkTyped, Connections, BeatType

\* The heartbeat's state with a program counter of another kind.
LEMMA BeatFacts ==
    ASSUME IInv, NEW c \in Connections, NEW pc \in {"verdict", "arming", "stopped"}
    PROVE  /\ beats[c] \in BeatType /\ beats[c].doomed \subseteq 1..MaxGeneration
           /\ [beats[c] EXCEPT !.pc = pc] \in BeatType
           /\ [beats[c] EXCEPT !.pc = pc].pc = pc
<1>1. beats[c] \in BeatType
  BY DEF IInv, Network, NetworkTyped, Connections
<1> QED
  BY <1>1 DEF BeatType

LEMMA HeartbeatFailsInv ==
    ASSUME IInv, NEW c \in Connections, HeartbeatFails(c) PROVE IInv'
<1> DEFINE doomed == {v \in Views : entries[v] # None /\ entries[v].incarnation = c}
           beat == [pc |-> "verdict", doomed |-> {entries[v].generation : v \in doomed}]
<1>1. /\ beats[c].pc = "beating" /\ c \notin up /\ cached' \in {0, cached} /\ Retire(doomed)
      /\ beats' = [beats EXCEPT ![c] = beat]
      /\ UNCHANGED <<lifecycle, panes, dialed, up, work, engines, detaching, world>>
  BY DEF HeartbeatFails
<1>2. beat \in BeatType /\ beat.pc = "verdict"
  <2>1. ASSUME NEW v \in doomed PROVE entries[v].generation \in 1..MaxGeneration
    BY DEF IInv, Mesh, MeshTyped, EntryType
  <2> QED
    BY <2>1 DEF BeatType
<1> HIDE DEF doomed, beat
<1>3. Network' /\ Onward
  BY <1>1, <1>2, BeatNetwork
<1>4. Mesh'
  BY <1>1, <1>3, RetireMesh
<1> QED
  BY <1>1, <1>3, <1>4, Quiet DEF IInv, lifecycle

LEMMA HeartbeatStopsInv ==
    ASSUME IInv, NEW c \in Connections, HeartbeatStops(c) PROVE IInv'
<1> DEFINE beat == [beats[c] EXCEPT !.pc = "stopped"]
<1>1. /\ beats[c].pc = "beating" /\ beats' = [beats EXCEPT ![c] = beat]
      /\ UNCHANGED <<lifecycle, panes, mesh, dialed, up, cached, work, engines,
                     detaching, world>>
  BY DEF HeartbeatStops
<1>2. beat \in BeatType /\ beat.pc = "stopped"
  BY BeatFacts
<1> HIDE DEF beat
<1>3. Network' /\ Onward
  BY <1>1, <1>2, BeatNetwork
<1> QED
  BY <1>1, <1>3, Quiet DEF IInv, lifecycle

LEMMA HeartbeatVerdictInv ==
    ASSUME IInv, NEW c \in Connections, HeartbeatVerdict(c)
    PROVE  /\ IInv'
           /\ disconnected' # disconnected =>
                 disconnected'[2] = incarnation /\ incarnation \notin up
<1> DEFINE true == {g \in beats[c].doomed : Disconnects(g, c)}
           beat == [pc |-> IF true = {} THEN "stopped" ELSE "arming", doomed |-> {}]
<1>1. /\ beats[c].pc = "verdict" /\ beats' = [beats EXCEPT ![c] = beat]
      /\ \/ UNCHANGED <<disconnected, records, state>>
         \/ \E g \in true : Disconnect(g, c)
      /\ UNCHANGED <<generation, incarnation, feed, mesh, dialed, up, cached, work,
                     engines, detaching, world>>
  BY DEF HeartbeatVerdict
<1>2. beat \in BeatType /\ beat.pc # "verdict"
  BY DEF BeatType
<1>3. \A g \in true : Disconnects(g, c)
  OBVIOUS
<1> HIDE DEF true, beat
<1>4. Network' /\ Onward
  BY <1>1, <1>2, BeatNetwork
<1>5. c \notin up
  BY <1>1 DEF IInv, Network, Watched
<1>6. CASE \E g \in true : Disconnect(g, c)
  <2>1. PICK g \in true : Disconnects(g, c) /\ Disconnect(g, c)
    BY <1>3, <1>6
  <2>2. StateTyped' /\ Panes'
    BY <1>1, <2>1, DisconnectFacts
  <2>3. disconnected'[2] = incarnation /\ incarnation \notin up
    BY <1>5, <2>1 DEF Disconnects, Disconnect
  <2> QED
    BY <1>1, <1>4, <2>2, <2>3, Quiet DEF IInv
<1>7. CASE UNCHANGED <<disconnected, records, state>>
  BY <1>1, <1>4, <1>7, Quiet DEF IInv, lifecycle, panes
<1> QED
  BY <1>1, <1>6, <1>7

LEMMA HeartbeatArmsInv ==
    ASSUME IInv, NEW c \in Connections, HeartbeatArms(c) PROVE IInv'
<1> DEFINE beat == [beats[c] EXCEPT !.pc = "stopped"]
<1>1. /\ beats[c].pc = "arming" /\ beats' = [beats EXCEPT ![c] = beat]
      /\ Arm(holder, queue)
      /\ UNCHANGED <<lifecycle, panes, mesh, dialed, up, cached, detaching, world>>
  BY DEF HeartbeatArms
<1>2. beat \in BeatType /\ beat.pc = "stopped"
  BY BeatFacts
<1> HIDE DEF beat
<1>3. Network' /\ Onward
  BY <1>1, <1>2, BeatNetwork
<1>4. Work'
  BY <1>1, WorkFacts, ArmWork DEF lifecycle
<1> QED
  BY <1>1, <1>3, <1>4, Quiet DEF IInv

LEMMA HostShutdownInv ==
    ASSUME IInv, NEW c \in Connections, HostShutdown(c) PROVE IInv'
<1> DEFINE beat == [beats[c] EXCEPT !.pc = "stopped"]
<1>1. /\ beats[c].pc = "beating" /\ beats' = [beats EXCEPT ![c] = beat]
      /\ \/ End(holder, queue)
         \/ UNCHANGED <<state, records, work, engines>>
      /\ UNCHANGED <<generation, incarnation, disconnected, feed, mesh, dialed, up,
                     cached, detaching, world>>
  BY DEF HostShutdown
<1>2. beat \in BeatType /\ beat.pc = "stopped"
  BY BeatFacts
<1> HIDE DEF beat
<1>3. Network' /\ Onward
  BY <1>1, <1>2, BeatNetwork
<1>4. CASE End(holder, queue)
  <2>1. StateTyped' /\ Panes' /\ Work'
    BY <1>1, <1>4, WorkFacts, EndFacts
  <2> QED
    BY <1>1, <1>3, <2>1, Quiet DEF IInv
<1>5. CASE UNCHANGED <<state, records, work, engines>>
  BY <1>1, <1>3, <1>5, Quiet DEF IInv, lifecycle, panes
<1> QED
  BY <1>1, <1>4, <1>5

-----------------------------------------------------------------------------
(* The network and the host. *)

LEMMA LossInv ==
    ASSUME IInv, NEW c \in Connections, Loss(c) PROVE IInv'
<1>1. /\ up' = up \ {c} /\ Fault
      /\ UNCHANGED <<lifecycle, panes, mesh, dialed, cached, beats, work, engines, detaching>>
  BY DEF Loss
<1>2. Onward /\ Network'
  BY <1>1, BoundsOK DEF IInv, Network, NetworkTyped, Watched, Onward, Connections
<1>3. WorldTyped'
  BY <1>1, SpentFacts DEF IInv, WorldTyped
<1> QED
  BY <1>1, <1>2, <1>3, Quiet DEF IInv, lifecycle

LEMMA HostEndsInv ==
    ASSUME IInv, HostEnds PROVE IInv'
<1>1. /\ gone' = TRUE /\ faults < MaxFaults /\ faults' = faults + 1
      /\ UNCHANGED <<lifecycle, panes, mesh, network, work, engines, detaching, ops>>
  BY DEF HostEnds
<1>2. WorldTyped'
  BY <1>1, BoundsOK DEF IInv, WorldTyped
<1> QED
  BY <1>1, <1>2, Quiet DEF IInv, lifecycle, network

-----------------------------------------------------------------------------
(* The theorems. *)

LEMMA InitIInv == Init => IInv
<1> SUFFICES ASSUME Init PROVE IInv
  OBVIOUS
<1>1. StateTyped /\ Panes
  BY BoundsOK DEF Init, StateTyped, Panes, PanesTyped, FeedRecorded
<1>2. Mesh
  <2>1. entries \in [Views -> {None} \cup EntryType] /\ readers = <<>>
    BY DEF Init
  <2>2. readers \in Seq(ReaderType) /\ DOMAIN readers = {}
    BY <2>1
  <2> QED
    BY <2>1, <2>2 DEF Mesh, MeshTyped, Dialed
<1>3. Network
  <2>1. /\ dialed \in {0, 1} /\ up = 1..dialed /\ cached = dialed
        /\ beats = [c \in Connections |->
                       [pc |-> IF c = dialed THEN "beating" ELSE "none", doomed |-> {}]]
    BY DEF Init, Connections
  <2>2. dialed \in 0..MaxConnections /\ up \subseteq 1..dialed /\ cached \in 0..dialed
    BY <2>1, BoundsOK
  <2>3. beats \in [Connections -> BeatType]
    BY <2>1 DEF BeatType
  <2>4. Watched
    BY <2>1, BoundsOK DEF Watched, Connections
  <2> QED
    BY <2>2, <2>3, <2>4 DEF Network, NetworkTyped, Connections
<1>4. Work
  <2>1. /\ holder = None /\ engine = "none" /\ handle = FALSE
        /\ \A j \in queue : \E v \in Opened : j = Job("attach", "client", v, {}, 0)
    BY DEF Init, Job
  <2>2. \A j \in queue : j \in JobType /\ j.by = "client"
    BY <2>1, JobFacts, ViewsOK, BoundsOK
  <2> QED
    BY <2>1, <2>2, EngineJobFacts
       DEF Work, WorkOf, WorkTyped, Current, Staged, Works
<1>5. WorldTyped
  <2>1. 0 \in 0..MaxFaults /\ 0 \in 0..MaxOps
    BY BoundsOK
  <2> QED
    BY <2>1 DEF Init, WorldTyped
<1> QED
  BY <1>1, <1>2, <1>3, <1>4, <1>5 DEF IInv

\* Only a verdict, of a reader or of a heartbeat, tears a session down.
Verdict ==
    \/ \E r \in DOMAIN readers : ReaderVerdict(r)
    \/ \E c \in Connections : HeartbeatVerdict(c)

LEMMA OthersKeep ==
    ASSUME Next, ~Verdict PROVE disconnected' = disconnected
<1>1. CASE Commands
  BY <1>1 DEF Commands, Attach, Retry, Detach, Refresh, Reconnect, lifecycle
<1>2. CASE Acquires
  BY <1>2 DEF Acquires, AttachBegin, ResumeBegin, PromoteBegin, SecondariesBegin, lifecycle
<1>3. CASE Proceeds
  BY <1>3 DEF Proceeds, AttachRetire, ResumeDial, Ask, ResumeListed, ResumeUnlisted,
              Refused, Answered, Streams, StreamFails, Synchronized, Unsynchronized,
              VerdictEnds, Reelects, Superseded, ResumeFails, PromoteFails,
              AttachRetries, AttachFails, SecondaryFails, lifecycle
<1>4. CASE DialFails \/ (\E v \in Views : DetachForget(v)) \/ Engine \/ EngineWakes
  BY <1>4 DEF DialFails, DetachForget, Engine, EngineLooks, EngineDials, EngineWakes,
              lifecycle
<1>5. CASE \E r \in DOMAIN readers : ReaderPublishes(r) \/ ReaderErrs(r) \/ Reader(r)
  BY <1>5 DEF Verdict, ReaderPublishes, ReaderErrs, Reader, ReaderEnds, ReaderStops,
              ReaderRetires, ReaderArms, lifecycle
<1>6. CASE (\E c \in Connections : Heartbeat(c) \/ Loss(c)) \/ HostEnds
  BY <1>6 DEF Verdict, Heartbeat, HeartbeatFails, HeartbeatStops, HeartbeatArms,
              HostShutdown, Loss, HostEnds, lifecycle
<1> QED
  BY <1>1, <1>2, <1>3, <1>4, <1>5, <1>6 DEF Next

LEMMA NextIInv ==
    ASSUME IInv, [Next]_vars PROVE IInv'
<1>1. CASE Commands
  BY <1>1, AttachInv, RetryInv, DetachInv, RefreshInv, ReconnectInv DEF Commands
<1>2. CASE Acquires
  BY <1>2, AttachBeginInv, ResumeBeginInv, PromoteBeginInv, SecondariesBeginInv DEF Acquires
<1>3. CASE Proceeds
  BY <1>3, AttachRetireInv, ResumeDialInv, AskInv, ResumeListedInv, ResumeUnlistedInv,
     RefusedInv, AnsweredInv, StreamsInv, StreamFailsInv, SynchronizedInv,
     UnsynchronizedInv, VerdictEndsInv, ReelectsInv, SupersededInv, ResumeFailsInv,
     PromoteFailsInv, AttachRetriesInv, AttachFailsInv, SecondaryFailsInv DEF Proceeds
<1>4. CASE DialFails \/ (\E v \in Views : DetachForget(v)) \/ Engine \/ EngineWakes
  BY <1>4, DialFailsInv, DetachForgetInv, EngineLooksInv, EngineDialsInv, EngineWakesInv
     DEF Engine
<1>5. CASE \E r \in DOMAIN readers : ReaderPublishes(r) \/ ReaderErrs(r) \/ Reader(r)
  BY <1>5, ReaderPublishesInv, ReaderErrsInv, ReaderEndsInv, ReaderStopsInv,
     ReaderRetiresInv, ReaderVerdictInv, ReaderArmsInv DEF Reader
<1>6. CASE (\E c \in Connections : Heartbeat(c) \/ Loss(c)) \/ HostEnds
  BY <1>6, HeartbeatFailsInv, HeartbeatStopsInv, HeartbeatVerdictInv, HeartbeatArmsInv,
     HostShutdownInv, LossInv, HostEndsInv DEF Heartbeat
<1>7. CASE UNCHANGED vars
  <2>1. Onward
    BY <1>7, Quiet DEF vars, network
  <2> QED
    BY <1>7, <2>1, Quiet DEF IInv, vars, lifecycle
<1> QED
  BY <1>1, <1>2, <1>3, <1>4, <1>5, <1>6, <1>7 DEF Next

\* The inductive invariant holds in every reachable state.
THEOREM Inductive == Spec => []IInv
  BY InitIInv, NextIInv, PTL DEF Spec

\* Every variable keeps its type: an entry that is published has a generation
\* that has begun, a connection that was dialed and a reader that was spawned.
THEOREM TypeCorrect == Spec => []TypeOK
<1>1. IInv => TypeOK
  BY DEF IInv, StateTyped, Panes, PanesTyped, Mesh, MeshTyped, Network, NetworkTyped,
         Work, WorkOf, WorkTyped, WorldTyped, TypeOK
<1> QED
  BY <1>1, Inductive, PTL

\* No attempt on the wire belongs to a generation that is over: the attempts
\* mutex is enough, whatever is queued behind it (attach_view, resume_once,
\* reestablish_feed).
THEOREM AttemptsAlwaysCurrent == Spec => []AttemptsAreCurrent
<1>1. IInv => AttemptsAreCurrent
  BY DEF IInv, Work, WorkOf, Current, AttemptsAreCurrent
<1> QED
  BY <1>1, Inductive, PTL

\* A verdict that arrives late never tears down the connection that replaced
\* the one it is about (commit_disconnect).
THEOREM OnlyTheBoundConnection == Spec => OnlyItsConnection
<1>1. IInv /\ [Next]_vars =>
          [disconnected' # disconnected =>
              disconnected'[2] = incarnation /\ incarnation \notin up]_vars
  <2> SUFFICES ASSUME IInv, [Next]_vars, disconnected' # disconnected
               PROVE  disconnected'[2] = incarnation /\ incarnation \notin up
    OBVIOUS
  <2>1. Next
    BY DEF vars, lifecycle
  <2>2. Verdict
    BY <2>1, OthersKeep
  <2> QED
    BY <2>2, ReaderVerdictInv, HeartbeatVerdictInv DEF Verdict
<1> QED
  BY <1>1, Inductive, PTL DEF Spec, OnlyItsConnection

\* The feed is never a pane that has been forgotten (elect_feed, detach_view).
THEOREM FeedAlwaysRecorded == Spec => []FeedRecorded
<1>1. IInv => FeedRecorded
  BY DEF IInv, Panes
<1> QED
  BY <1>1, Inductive, PTL

\* An engine that is cancelled or replaced leaves no job behind, and none works
\* for another's (arm_reconnect, cancel_engine).
THEOREM EngineHasOneJob == Spec => []EngineWorks
<1>1. IInv => EngineWorks
  BY DEF IInv, Work, WorkOf, EngineWorks
<1> QED
  BY <1>1, Inductive, PTL

-----------------------------------------------------------------------------
(* One feed at a time, but for the two overlaps that remote_feeds finds.   *)

\* detach_view forgets a pane that a job has attached as the feed, or is still
\* attaching, since its entry was retired.
Overlap == \E v \in Views :
    /\ DetachForget(v) \/ (Detach(v) /\ entries[v] = None)
    /\ \/ entries'[v] # None /\ entries'[v].reader # 0
       \/ holder' # None /\ holder'.feed /\ holder'.view = v

\* attach_view finds every pane refused, and attaches its own without a feed
\* on record.
Unrecorded == AttachRetire /\ feed' = None

\* A reader of the generation that is current, whatever connection it reads.
Active(r) ==
    /\ readers[r].pc = "reading" /\ ~readers[r].cancelled
    /\ readers[r].generation = generation

\* Such a reader is the feed's.
Owned == \A r \in DOMAIN readers : Active(r) =>
    feed # None /\ entries[feed] # None /\ entries[feed].reader = r

\* An attempt that opens a state stream, or will try to again, is the feed's.
Streaming(h) ==
    /\ h.feed
    /\ \/ h.pc \in {"connect", "asked", "stream"}
       \/ h.pc = "failed" /\ h.job.kind = "attach"
Named == holder # None /\ Streaming(holder) => feed # None /\ holder.view = feed

\* A resume or a promotion has none beside it until its own is open.
Recovering(h) == h.job.kind \in {"resume", "promote"} /\ h.pc # "snapshot"
Alone == holder # None /\ Recovering(holder) => \A r \in DOMAIN readers : ~Active(r)

\* Who dials and lists resumes, and who streams is to be the feed.
Early(h) ==
    /\ h.pc \in {"dial", "list"} => h.job.kind = "resume"
    /\ h.pc = "stream" => h.feed
Begun == holder # None => Early(holder)

FeedInv == Owned /\ Named /\ Alone /\ Begun

\* What a step leaves of the current readers, each with the feed's entry;
\* and that it leaves none.
Thins ==
    \A r \in DOMAIN readers' : Active(r)' =>
        /\ r \in DOMAIN readers /\ Active(r)
        /\ feed # None => feed' = feed /\ entries'[feed] = entries[feed]
Still == \A r \in DOMAIN readers' : ~Active(r)'

\* What the mutex's holder may become, with the feed as it is and the readers
\* there are.
Kept(h) ==
    /\ Streaming(h) => Streaming(holder) /\ h.view = holder.view
    /\ Recovering(h) => Recovering(holder)
    /\ Early(h)
Bare(h) == ~h.feed /\ ~Recovering(h) /\ Early(h)

LEMMA ThinsOwned ==
    ASSUME Owned, Thins PROVE Owned'
  BY DEF Owned, Thins

LEMMA KeptInv ==
    ASSUME FeedInv, Thins, feed' = feed,
           holder' = None \/ Bare(holder)' \/ (holder # None /\ Kept(holder'))
    PROVE  FeedInv'
<1>1. Owned'
  BY ThinsOwned DEF FeedInv
<1>2. Named'
  BY DEF FeedInv, Named, Kept, Bare, Streaming
<1>3. Alone'
  BY DEF FeedInv, Alone, Kept, Bare, Recovering, Thins
<1>4. Begun'
  BY DEF FeedInv, Begun, Kept, Bare, Early
<1> QED
  BY <1>1, <1>2, <1>3, <1>4 DEF FeedInv

\* With the holder as it was, or aborted.
LEMMA SameInv ==
    ASSUME FeedInv, Thins, feed' = feed, holder' \in {None, holder} PROVE FeedInv'
<1>1. holder' = None \/ (holder # None /\ Kept(holder'))
  BY DEF FeedInv, Begun, Kept
<1> QED
  BY <1>1, KeptInv

LEMMA GoesOnInv ==
    ASSUME FeedInv, Thins, feed' = feed, holder # None, holder' # None,
           holder'.job = holder.job, holder'.feed = holder.feed, holder'.view = holder.view,
           holder.pc # "snapshot", holder'.pc \notin {"dial", "stream"},
           holder'.pc = "list" => holder.pc = "dial",
           holder'.pc \in {"connect", "asked"} => Streaming(holder) \/ ~holder.feed,
           holder'.pc = "failed" => holder.pc \in {"connect", "asked", "stream"} \/ ~holder.feed
    PROVE  FeedInv'
<1>1. Kept(holder')
  BY DEF FeedInv, Begun, Kept, Streaming, Recovering, Early
<1> QED
  BY <1>1, KeptInv

\* With no reader left, the feed may be another.
LEMMA StillInv ==
    ASSUME Still, holder' # None => Early(holder'),
           holder' # None /\ Streaming(holder') => feed' # None /\ holder'.view = feed'
    PROVE  FeedInv'
  BY DEF Still, FeedInv, Owned, Named, Alone, Begun, Active

\* Tables that are left alone.
LEMMA LeftAlone ==
    ASSUME UNCHANGED <<mesh, generation, feed>> PROVE Thins
  BY DEF Thins, Active, mesh

\* A job that an abort takes from the mutex.
LEMMA AbortKeeps ==
    ASSUME NEW h \in {None, holder}, NEW q, Arm(h, q) \/ Cancel(h, q) \/ End(h, q)
    PROVE  holder' \in {None, holder}
  BY DEF Arm, Cancel, End, Dropped

\* Readers whose entry is retired are cancelled; the others are as they were.
LEMMA RetiredReaders ==
    ASSUME Mesh, NEW vs
    PROVE  /\ DOMAIN Cancelled(vs) = DOMAIN readers
           /\ \A r \in DOMAIN readers : /\ Cancelled(vs)[r].pc = readers[r].pc
                                        /\ Cancelled(vs)[r].generation = readers[r].generation
                                        /\ ~Cancelled(vs)[r].cancelled =>
                                              /\ ~readers[r].cancelled
                                              /\ \A v \in vs : entries[v] # None
                                                               => entries[v].reader # r
<1>1. \A r \in DOMAIN readers : readers[r] \in ReaderType
  BY DEF Mesh, MeshTyped
<1>2. \A x \in ReaderType : /\ [x EXCEPT !.cancelled = TRUE].cancelled
                            /\ [x EXCEPT !.cancelled = TRUE].generation = x.generation
                            /\ [x EXCEPT !.cancelled = TRUE].pc = x.pc
  BY DEF ReaderType
<1> DEFINE hit(r) == \E v \in vs : entries[v] # None /\ entries[v].reader = r
<1>3. Cancelled(vs) = [r \in DOMAIN readers |->
          IF hit(r) THEN [readers[r] EXCEPT !.cancelled = TRUE] ELSE readers[r]]
  BY DEF Cancelled
<1>4. \A r \in DOMAIN readers : ~hit(r) => \A v \in vs : entries[v] # None
                                                           => entries[v].reader # r
  OBVIOUS
<1> HIDE DEF hit
<1> QED
  BY <1>1, <1>2, <1>3, <1>4

\* Retired panes take their readers with them, so the feed's, if it is left
\* one, is not among them.
LEMMA RetireThins ==
    ASSUME IInv, FeedInv, NEW vs, Retire(vs), generation' = generation, feed # None => feed' = feed
    PROVE  Thins
<1>1. Mesh /\ feed \in Views \cup {None} /\ Owned
  BY DEF IInv, Panes, PanesTyped, FeedInv
<1>2. /\ entries' = [v \in Views |-> IF v \in vs THEN None ELSE entries[v]]
      /\ readers' = Cancelled(vs)
  BY DEF Retire
<1> SUFFICES ASSUME NEW r \in DOMAIN readers', Active(r)'
             PROVE  /\ r \in DOMAIN readers /\ Active(r)
                    /\ feed # None => feed' = feed /\ entries'[feed] = entries[feed]
  BY DEF Thins
<1>3. /\ r \in DOMAIN readers /\ Active(r)
      /\ \A v \in vs : entries[v] # None => entries[v].reader # r
  BY <1>1, <1>2, RetiredReaders DEF Active
<1>4. feed \notin vs
  BY <1>1, <1>3 DEF Owned
<1> QED
  BY <1>1, <1>2, <1>3, <1>4

\* A generation that begins leaves no reader of it.
LEMMA AdvanceStill ==
    ASSUME IInv, Advance, NEW vs, Retire(vs) PROVE Still
<1>1. \A r \in DOMAIN readers : readers[r].generation # generation'
  BY AdvanceFacts DEF InUse
<1>2. readers' = Cancelled(vs) /\ Mesh
  BY DEF Retire, IInv
<1> QED
  BY <1>1, <1>2, RetiredReaders DEF Still, Active

\* Whoever is elected is attached as the feed.
LEMMA EstablishInv ==
    ASSUME IInv, Still, NEW h \in HolderType, NEW recs, NEW from, NEW waiting,
           Establish(h, recs, from, waiting)
    PROVE  FeedInv'
<1>1. CASE Elected(recs) = None
  <2>1. holder' = None
    BY <1>1 DEF Establish, Released
  <2> QED
    BY <2>1, StillInv
<1>2. CASE Elected(recs) # None
  <2>1. feed' = Elected(recs)
        /\ holder' = [h EXCEPT !.pc = "connect", !.feed = TRUE, !.view = Elected(recs)]
    BY <1>2 DEF Establish
  <2>2. holder'.pc = "connect" /\ holder'.view = feed'
    BY <2>1 DEF HolderType
  <2> QED
    BY <1>2, <2>1, <2>2, StillInv DEF Early
<1> QED
  BY <1>1, <1>2

\* The secondaries are none of them the feed.
LEMMA SecondariesBare ==
    ASSUME NEW j \in JobType, j.kind = "secondaries", NEW waiting,
           Secondaries(j, j.todo, waiting)
    PROVE  holder' = None \/ Bare(holder)'
<1>1. CASE Released(j, waiting)
  BY <1>1 DEF Released
<1>2. CASE holder' = [Held([j EXCEPT !.todo = j.todo \ {Min(j.todo)}], "connect")
                          EXCEPT !.view = Min(j.todo)]
  <2> DEFINE rest == [j EXCEPT !.todo = j.todo \ {Min(j.todo)}]
  <2>1. rest.kind = "secondaries"
    BY DEF JobType
  <2> HIDE DEF rest
  <2>2. holder' = [Held(rest, "connect") EXCEPT !.view = Min(j.todo)]
    BY <1>2 DEF rest
  <2>3. holder'.job = rest /\ holder'.pc = "connect" /\ ~holder'.feed
    BY <2>2 DEF Held
  <2> QED
    BY <2>1, <2>3 DEF Bare, Recovering, Early
<1> QED
  BY <1>1, <1>2 DEF Secondaries

\* What only asks, or looks.
LEMMA AsksFeed ==
    ASSUME FeedInv, (\E v \in Views : Attach(v) \/ Retry(v)) \/ Refresh \/ Reconnect
    PROVE  FeedInv'
<1>1. UNCHANGED <<mesh, generation, feed>>
  BY DEF Attach, Retry, Refresh, Reconnect, lifecycle, panes
<1>2. holder' \in {None, holder}
  <2>1. CASE Reconnect
    BY <2>1, AbortKeeps DEF Reconnect
  <2>2. CASE (\E v \in Views : Attach(v) \/ Retry(v)) \/ Refresh
    BY <2>2 DEF Attach, Retry, Refresh
  <2> QED
    BY <2>1, <2>2
<1> QED
  BY <1>1, <1>2, LeftAlone, SameInv DEF panes

\* A pane that is forgotten has no current reader and is in no attempt, but
\* for the overlap.
LEMMA ForgetFeed ==
    ASSUME FeedInv, NEW v \in Views, Forget(v), Thins,
           feed = v => Still,
           ~(holder' # None /\ holder'.feed /\ holder'.view = v)
    PROVE  FeedInv'
<1>1. feed' = IF feed = v THEN None ELSE feed
  BY DEF Forget
<1>2. holder' \in {None, holder}
  BY AbortKeeps DEF Forget
<1>3. CASE feed # v
  BY <1>1, <1>2, <1>3, SameInv
<1>4. CASE feed = v
  <2>1. Still
    BY <1>4
  <2>2. holder' # None => holder' = holder /\ Early(holder') /\ ~Streaming(holder')
    BY <1>2, <1>4 DEF FeedInv, Named, Begun, Streaming
  <2> QED
    BY <2>1, <2>2, StillInv
<1> QED
  BY <1>3, <1>4

LEMMA DetachFeed ==
    ASSUME IInv, FeedInv, NEW v \in Views, Detach(v), ~Overlap PROVE FeedInv'
<1>1. Retire({v}) /\ generation' = generation
  BY DEF Detach, lifecycle
<1>2. CASE entries[v] = None
  <2>1. Forget(v)
    BY <1>2 DEF Detach
  <2>2. /\ \A r \in DOMAIN readers' : Active(r)' => r \in DOMAIN readers /\ Active(r)
        /\ entries' = entries
    <3>1. entries' = [w \in Views |-> IF w \in {v} THEN None ELSE entries[w]]
          /\ readers' = Cancelled({v})
      BY <1>1 DEF Retire
    <3>2. Mesh /\ entries \in [Views -> {None} \cup EntryType]
      BY DEF IInv, Mesh, MeshTyped
    <3>3. entries' = entries
      BY <1>2, <3>1, <3>2
    <3> QED
      BY <1>1, <3>1, <3>2, <3>3, RetiredReaders DEF Active
  <2>3. feed = v => Still
    BY <1>2, <2>2 DEF FeedInv, Owned, Still
  <2>4. Thins
    BY <2>1, <2>2, <2>3 DEF Thins, Still, Forget
  <2>5. ~(holder' # None /\ holder'.feed /\ holder'.view = v)
    BY <1>2 DEF Overlap
  <2> QED
    BY <2>1, <2>3, <2>4, <2>5, ForgetFeed
<1>3. CASE entries[v] # None
  <2>1. UNCHANGED <<panes, work>>
    BY <1>3 DEF Detach
  <2>2. Thins
    BY <1>1, <2>1, RetireThins DEF panes
  <2> QED
    BY <2>1, <2>2, SameInv DEF panes, work
<1> QED
  BY <1>2, <1>3

LEMMA DetachForgetFeed ==
    ASSUME IInv, FeedInv, NEW v \in Views, DetachForget(v), ~Overlap PROVE FeedInv'
<1>1. Forget(v) /\ UNCHANGED <<mesh, generation>>
  BY DEF DetachForget, lifecycle
<1>2. /\ ~(entries'[v] # None /\ entries'[v].reader # 0)
      /\ ~(holder' # None /\ holder'.feed /\ holder'.view = v)
  BY DEF Overlap
<1>3. feed = v => Still
  <2> SUFFICES ASSUME feed = v, NEW r \in DOMAIN readers', Active(r)' PROVE FALSE
    BY DEF Still
  <2>1. r \in DOMAIN readers /\ Active(r)
    BY <1>1 DEF Active, mesh
  <2>2. r # 0
    BY <2>1 DEF IInv, Mesh, MeshTyped
  <2> QED
    BY <1>1, <1>2, <2>1, <2>2 DEF FeedInv, Owned, mesh
<1>4. Thins
  BY <1>1, <1>3 DEF Thins, Still, Active, Forget, mesh
<1> QED
  BY <1>1, <1>2, <1>3, <1>4, ForgetFeed

LEMMA AttachBeginFeed ==
    ASSUME IInv, FeedInv, NEW j \in queue, AttachBegin(j) PROVE FeedInv'
<1>1. /\ UNCHANGED <<mesh, generation, feed>> /\ j.kind = "attach"
      /\ holder' = None \/ holder' = [Held(j, "retire") EXCEPT !.resuming = state # "live"]
  BY DEF AttachBegin, lifecycle, panes
<1>2. CASE holder' = [Held(j, "retire") EXCEPT !.resuming = state # "live"]
  <2>1. holder'.job = j /\ holder'.pc = "retire" /\ ~holder'.feed
    BY <1>2 DEF Held
  <2>2. Bare(holder)'
    BY <1>1, <2>1 DEF Bare, Recovering, Early
  <2> QED
    BY <1>1, <2>2, LeftAlone, KeptInv
<1> QED
  BY <1>1, <1>2, LeftAlone, SameInv

\* The first pane takes the feed, if the feed is left on record.
LEMMA AttachRetireFeed ==
    ASSUME IInv, FeedInv, AttachRetire, ~Unrecorded PROVE FeedInv'
<1> DEFINE v == holder.view
           recorded == [records EXCEPT ![v] = IF @ = "none" THEN "pending" ELSE @]
           chosen == IF feed # None THEN feed ELSE Elected(recorded)
<1>1. /\ holder # None /\ holder.pc = "retire" /\ Retire({v}) /\ feed' = chosen
      /\ holder' = [holder EXCEPT !.pc = "connect", !.feed = chosen \in {v, None}]
      /\ Advance \/ generation' = generation
  BY DEF AttachRetire, At
<1>2. feed' # None /\ (feed # None => feed' = feed)
  BY <1>1 DEF Unrecorded
<1>3. holder.job.kind = "attach" /\ holder \in HolderType
  BY <1>1, HolderFacts DEF Staged
<1>4. /\ holder'.pc = "connect" /\ holder'.job = holder.job /\ holder'.view = v
      /\ holder'.feed <=> chosen \in {v, None}
  BY <1>1, <1>3 DEF HolderType
<1> HIDE DEF chosen
<1>5. Early(holder') /\ ~Recovering(holder') /\ (Streaming(holder') => holder'.view = feed')
  BY <1>1, <1>2, <1>3, <1>4 DEF Early, Recovering, Streaming
<1>6. CASE Advance
  BY <1>1, <1>2, <1>5, <1>6, AdvanceStill, StillInv
<1>7. CASE generation' = generation
  <2>1. Thins
    BY <1>1, <1>2, <1>7, RetireThins
  <2>2. Owned'
    BY <2>1, ThinsOwned DEF FeedInv
  <2> QED
    BY <1>2, <1>5, <2>2 DEF FeedInv, Named, Alone, Begun
<1> QED
  BY <1>1, <1>6, <1>7

LEMMA ResumeBeginFeed ==
    ASSUME IInv, FeedInv, NEW j \in queue, ResumeBegin(j) PROVE FeedInv'
<1>1. UNCHANGED panes /\ j.kind = "resume"
  BY DEF ResumeBegin
<1>2. CASE Released(j, queue \ {j}) /\ UNCHANGED <<generation, mesh>>
  BY <1>1, <1>2, LeftAlone, SameInv DEF Released, panes
<1>3. CASE Advance /\ Retire(Views) /\ holder' = Held(j, "dial")
  <2>1. holder'.job = j /\ holder'.pc = "dial" /\ ~holder'.feed
    BY <1>3 DEF Held
  <2> QED
    BY <1>1, <1>3, <2>1, AdvanceStill, StillInv DEF Early, Streaming
<1> QED
  BY <1>2, <1>3 DEF ResumeBegin

LEMMA PromoteBeginFeed ==
    ASSUME IInv, FeedInv, NEW j \in queue, PromoteBegin(j) PROVE FeedInv'
<1>1. /\ Advance /\ Retire(Views)
      /\ \E from : Establish(Held(j, "connect"), Pended, from, queue \ {j})
  BY DEF PromoteBegin
<1>2. Held(j, "connect") \in HolderType
  BY HeldFacts, WorkFacts
<1> QED
  BY <1>1, <1>2, AdvanceStill, EstablishInv

LEMMA SecondariesBeginFeed ==
    ASSUME IInv, FeedInv, NEW j \in queue, SecondariesBegin(j) PROVE FeedInv'
<1>1. /\ UNCHANGED <<mesh, generation, feed>> /\ j.kind = "secondaries"
      /\ Secondaries(j, j.todo, queue \ {j})
  BY DEF SecondariesBegin, lifecycle, panes
<1>2. holder' = None \/ Bare(holder)'
  BY <1>1, WorkFacts, SecondariesBare
<1> QED
  BY <1>1, <1>2, LeftAlone, KeptInv

-----------------------------------------------------------------------------
(* The job that has the mutex. *)

\* A step that only moves it on, in the ways of GoesOnInv.
LEMMA MovesFeed ==
    ASSUME IInv, FeedInv, UNCHANGED <<mesh, generation, feed>>, holder # None, NEW pc \in Verdicts,
           Goes(pc), holder.pc # "snapshot",
           pc = "failed" => holder.pc \in {"connect", "asked", "stream"} \/ ~holder.feed
    PROVE  FeedInv'
<1>1. holder' = [holder EXCEPT !.pc = pc] /\ holder \in HolderType
  BY HolderFacts DEF Goes
<1>2. /\ holder' # None /\ holder'.pc = pc /\ holder'.job = holder.job
      /\ holder'.feed = holder.feed /\ holder'.view = holder.view
  <2>1. holder' \in HolderType
    BY <1>1 DEF HolderType, Verdicts
  <2> QED
    BY <1>1, <2>1, NoneHolds DEF HolderType
<1> QED
  BY <1>2, LeftAlone, GoesOnInv DEF Verdicts

LEMMA ResumeDialFeed ==
    ASSUME IInv, FeedInv, NEW c \in Connections, ResumeDial(c) PROVE FeedInv'
<1>1. /\ holder # None /\ holder.pc = "dial" /\ UNCHANGED <<mesh, generation, feed>>
      /\ holder' = [holder EXCEPT !.pc = "list", !.connection = c]
  BY DEF ResumeDial, At, panes
<1>2. holder \in HolderType
  BY <1>1, HolderFacts
<1>3. /\ holder'.pc = "list" /\ holder'.job = holder.job
      /\ holder'.feed = holder.feed /\ holder'.view = holder.view
  BY <1>1, <1>2 DEF HolderType
<1>4. Kept(holder')
  BY <1>1, <1>3 DEF FeedInv, Begun, Early, Kept, Streaming, Recovering
<1> QED
  BY <1>1, <1>4, LeftAlone, KeptInv

LEMMA AskFeed ==
    ASSUME IInv, FeedInv, NEW c \in Connections, Ask(c) PROVE FeedInv'
<1>1. /\ holder # None /\ holder.pc = "connect" /\ UNCHANGED <<mesh, generation, feed>>
      /\ holder' = [holder EXCEPT !.pc = "asked", !.connection = c, !.generation = generation]
  BY DEF Ask, At, lifecycle
<1>2. holder \in HolderType
  BY <1>1, HolderFacts
<1>3. /\ holder'.pc = "asked" /\ holder'.job = holder.job
      /\ holder'.feed = holder.feed /\ holder'.view = holder.view
  BY <1>1, <1>2 DEF HolderType
<1>4. Kept(holder')
  BY <1>1, <1>3 DEF Early, Kept, Streaming, Recovering
<1> QED
  BY <1>1, <1>4, LeftAlone, KeptInv

\* What goes wrong short of the stream.
LEMMA FaultsFeed ==
    ASSUME IInv, FeedInv, DialFails \/ ResumeUnlisted \/ Refused \/ StreamFails PROVE FeedInv'
<1>1. UNCHANGED <<mesh, generation, feed>> /\ holder # None
  BY DEF DialFails, ResumeUnlisted, Refused, StreamFails, At, lifecycle, panes
<1>2. CASE DialFails
  <2>1. \/ holder.pc = "dial" /\ Goes("abandoned")
        \/ holder.pc = "connect" /\ Goes("failed")
    BY <1>2 DEF DialFails, At
  <2> QED
    BY <1>1, <2>1, MovesFeed DEF Verdicts
<1>3. CASE ResumeUnlisted
  <2>1. holder.pc = "list" /\ (Goes("ended") \/ Goes("abandoned"))
    BY <1>3 DEF ResumeUnlisted, At
  <2> QED
    BY <1>1, <2>1, MovesFeed DEF Verdicts
<1>4. CASE Refused
  <2>1. holder.pc = "asked" /\ \E pc \in Verdicts : Goes(pc)
    BY <1>4 DEF Refused, At, Verdicts
  <2> QED
    BY <1>1, <2>1, MovesFeed
<1>5. CASE StreamFails
  <2>1. holder.pc = "stream" /\ Goes("failed")
    BY <1>5 DEF StreamFails, At
  <2> QED
    BY <1>1, <2>1, MovesFeed DEF Verdicts
<1> QED
  BY <1>2, <1>3, <1>4, <1>5

\* A resume lists with no reader beside it; so does whoever elects again.
LEMMA ElectsFeed ==
    ASSUME IInv, FeedInv, ResumeListed \/ Reelects PROVE FeedInv'
<1>1. /\ UNCHANGED <<mesh, generation>> /\ holder # None
      /\ holder.job.kind \in {"resume", "promote"} /\ holder.pc # "snapshot"
      /\ \E recs, from, waiting : Establish(holder, recs, from, waiting)
  BY DEF ResumeListed, Reelects, At, FeedInv, Begun, Early
<1>2. Still
  BY <1>1 DEF FeedInv, Alone, Recovering, Still, Active, mesh
<1> QED
  BY <1>1, <1>2, HolderFacts, EstablishInv

\* Whatever is published as an entry displaces the reader of the one before.
LEMMA PublishThins ==
    ASSUME IInv, FeedInv, NEW n, Publish(n), NEW s, s = Cancelled({holder.view}),
           generation' = generation, feed' = feed
    PROVE  \A r \in DOMAIN readers :
              (s[r].pc = "reading" /\ ~s[r].cancelled /\ s[r].generation = generation)
              => Active(r) /\ feed # holder.view /\ entries'[feed] = entries[feed]
<1>1. Mesh /\ Owned /\ feed \in Views \cup {None}
      /\ entries \in [Views -> {None} \cup EntryType]
  BY DEF IInv, Panes, PanesTyped, Mesh, MeshTyped, FeedInv
<1> SUFFICES ASSUME NEW r \in DOMAIN readers, s[r].pc = "reading", ~s[r].cancelled,
                    s[r].generation = generation
             PROVE  Active(r) /\ feed # holder.view /\ entries'[feed] = entries[feed]
  OBVIOUS
<1>2. Active(r) /\ \A v \in {holder.view} : entries[v] # None => entries[v].reader # r
  BY <1>1, RetiredReaders DEF Active
<1>3. feed # None /\ feed # holder.view
  BY <1>1, <1>2 DEF Owned
<1> QED
  BY <1>1, <1>2, <1>3 DEF Publish

LEMMA AnsweredFeed ==
    ASSUME IInv, FeedInv, Answered PROVE FeedInv'
<1>1. /\ holder # None /\ holder.pc = "asked" /\ UNCHANGED <<generation, feed>>
      /\ holder \in HolderType
  BY HolderFacts DEF Answered, At
<1>2. CASE holder.feed /\ Goes("stream") /\ UNCHANGED mesh
  <2>1. /\ holder'.pc = "stream" /\ holder'.job = holder.job /\ holder' # None
        /\ holder'.feed /\ holder'.view = holder.view
    <3>1. holder' = [holder EXCEPT !.pc = "stream"] /\ holder' \in HolderType
      BY <1>1, <1>2 DEF Goes, HolderType
    <3> QED
      BY <1>1, <1>2, <3>1, NoneHolds DEF HolderType
  <2>2. Kept(holder')
    BY <1>1, <1>2, <2>1 DEF Kept, Streaming, Recovering, Early
  <2> QED
    BY <1>1, <1>2, <2>2, LeftAlone, KeptInv
<1>3. CASE Goes("failed") /\ UNCHANGED mesh
  BY <1>1, <1>3, MovesFeed DEF Verdicts
<1>4. CASE /\ ~holder.feed /\ Publish(0) /\ readers' = Cancelled({holder.view})
           /\ IF holder.job.kind = "attach" THEN holder' = None
              ELSE Secondaries(holder.job, holder.job.todo, queue)
  <2>1. DOMAIN readers' = DOMAIN readers
    BY <1>4, RetiredReaders DEF IInv
  <2>2. Thins
    BY <1>1, <1>4, <2>1, PublishThins DEF Thins, Active
  <2>3. holder' = None \/ Bare(holder)'
    <3>1. holder.job \in JobType /\ holder.job.kind \notin {"resume", "promote"}
      BY <1>1, <1>4, HolderFacts DEF Staged
    <3>2. holder.job.kind \in {"attach", "secondaries"}
      BY <3>1 DEF JobType
    <3> QED
      BY <1>4, <3>1, <3>2, SecondariesBare
  <2> QED
    BY <1>1, <2>2, <2>3, KeptInv
<1> QED
  BY <1>2, <1>3, <1>4 DEF Answered, mesh

\* The stream that opens is the feed's, and it displaces the feed's last one.
LEMMA StreamsFeed ==
    ASSUME IInv, FeedInv, Streams PROVE FeedInv'
<1>1. /\ holder # None /\ holder.pc = "stream" /\ UNCHANGED <<generation, feed>>
      /\ holder \in HolderType /\ holder.feed
  BY HolderFacts DEF Streams, At, FeedInv, Begun, Early
<1>2. feed # None /\ holder.view = feed /\ feed \in Views
  BY <1>1 DEF FeedInv, Named, Streaming, IInv, Panes, PanesTyped
<1>3. CASE Goes("failed") /\ UNCHANGED mesh
  BY <1>1, <1>3, MovesFeed DEF Verdicts
<1>4. CASE generation = holder.generation
  <2> DEFINE before == Cancelled({holder.view})
             new == Len(readers) + 1
             opened == [generation |-> generation, incarnation |-> holder.connection,
                        cancelled |-> FALSE, synchronized |-> FALSE, pc |-> "reading"]
  <2>1. /\ Publish(new) /\ readers' = Append(before, opened)
        /\ \/ holder' = None
           \/ holder' = [holder EXCEPT !.pc = "snapshot", !.reader = new]
    BY <1>4 DEF Streams
  <2>2. /\ before \in Seq(ReaderType) /\ Len(before) = Len(readers) /\ Len(readers) \in Nat
        /\ DOMAIN readers = 1..Len(readers)
    BY CancelledFacts DEF IInv, Mesh, MeshTyped
  <2>3. \A r \in DOMAIN readers : (before[r].pc = "reading" /\ ~before[r].cancelled
                                   /\ before[r].generation = generation) => FALSE
    BY <1>1, <1>2, <2>1, PublishThins
  <2> HIDE DEF before, opened
  <2>4. \A r \in DOMAIN readers' : r = new \/ (r \in DOMAIN readers /\ readers'[r] = before[r])
    BY <2>1, <2>2
  <2>5. \A r \in DOMAIN readers' : Active(r)' => r = new
    BY <1>1, <2>3, <2>4 DEF Active
  <2>6. entries'[feed] # None /\ entries'[feed].reader = new
    <3>1. entries \in [Views -> {None} \cup EntryType]
      BY DEF IInv, Mesh, MeshTyped
    <3>2. entries'[feed] = [generation |-> holder.generation,
                            incarnation |-> holder.connection, reader |-> new]
      BY <1>2, <2>1, <3>1 DEF Publish
    <3>3. entries'[feed].reader = new
      BY <3>2
    <3>4. holder.generation \in Nat /\ holder.connection \in Nat /\ new \in Nat
      BY <1>1, <2>2, BoundsOK DEF HolderType
    <3> HIDE DEF new
    <3>5. entries'[feed] # None
      BY <3>2, <3>4, NoneShown
    <3> QED
      BY <3>3, <3>5
  <2>7. Owned'
    BY <1>1, <1>2, <2>5, <2>6 DEF Owned
  <2>8. holder' # None => holder'.pc = "snapshot" /\ holder'.job = holder.job
    BY <1>1, <2>1 DEF HolderType
  <2> QED
    BY <2>7, <2>8 DEF FeedInv, Named, Alone, Begun, Streaming, Recovering, Early
<1> QED
  BY <1>3, <1>4 DEF Streams, mesh

\* The job that is done leaves the mutex, whatever comes of it.
LEMMA ConcludesFeed ==
    ASSUME IInv, FeedInv, \/ Synchronized \/ VerdictEnds \/ Superseded \/ ResumeFails
                          \/ PromoteFails \/ AttachFails
    PROVE  FeedInv'
<1>1. UNCHANGED <<mesh, generation, feed>>
  BY DEF Synchronized, VerdictEnds, Superseded, ResumeFails, PromoteFails, AttachFails, panes
<1>2. holder' \in {None, holder}
  <2>1. CASE VerdictEnds
    BY <2>1, AbortKeeps DEF VerdictEnds
  <2>2. CASE Synchronized \/ Superseded \/ ResumeFails \/ PromoteFails \/ AttachFails
    BY <2>2 DEF Synchronized, Superseded, ResumeFails, PromoteFails, AttachFails, Released
  <2> QED
    BY <2>1, <2>2
<1> QED
  BY <1>1, <1>2, LeftAlone, SameInv

\* Whoever waited for a snapshot in vain takes the readers with it.
LEMMA UnsynchronizedFeed ==
    ASSUME IInv, FeedInv, Unsynchronized PROVE FeedInv'
<1>1. /\ Advance /\ Retire(Views) /\ holder # None
      /\ Released(holder.job, queue) \/ Goes("abandoned")
  BY DEF Unsynchronized, At
<1>2. CASE Goes("abandoned")
  <2>1. holder' = [holder EXCEPT !.pc = "abandoned"] /\ holder \in HolderType
    BY <1>1, <1>2, HolderFacts DEF Goes
  <2>2. holder'.pc = "abandoned"
    BY <2>1 DEF HolderType
  <2> QED
    BY <1>1, <2>2, AdvanceStill, StillInv DEF Early, Streaming
<1>3. CASE Released(holder.job, queue)
  BY <1>1, <1>3, AdvanceStill, StillInv DEF Released
<1> QED
  BY <1>1, <1>2, <1>3

LEMMA RetriesFeed ==
    ASSUME IInv, FeedInv, AttachRetries PROVE FeedInv'
<1>1. /\ UNCHANGED <<mesh, generation, feed>> /\ holder # None /\ holder.pc = "failed"
      /\ holder.job.kind = "attach"
      /\ holder' = [holder EXCEPT !.pc = "connect", !.again = TRUE]
  BY DEF AttachRetries, At, lifecycle, panes
<1>2. holder \in HolderType
  BY <1>1, HolderFacts
<1>3. /\ holder'.pc = "connect" /\ holder'.job = holder.job
      /\ holder'.feed = holder.feed /\ holder'.view = holder.view
  BY <1>1, <1>2 DEF HolderType
<1>4. Kept(holder')
  BY <1>1, <1>3 DEF Early, Kept, Streaming, Recovering
<1> QED
  BY <1>1, <1>4, LeftAlone, KeptInv

LEMMA SecondaryFailsFeed ==
    ASSUME IInv, FeedInv, SecondaryFails PROVE FeedInv'
<1>1. /\ UNCHANGED <<mesh, generation, feed>> /\ holder # None
      /\ holder.job.kind = "secondaries" /\ Secondaries(holder.job, holder.job.todo, queue)
  BY DEF SecondaryFails, lifecycle
<1>2. holder' = None \/ Bare(holder)'
  BY <1>1, HolderFacts, SecondariesBare
<1> QED
  BY <1>1, <1>2, LeftAlone, KeptInv

-----------------------------------------------------------------------------
(* The engine, the readers, the heartbeats. *)

LEMMA EngineFeed ==
    ASSUME FeedInv, Engine \/ EngineWakes \/ HostEnds \/ \E c \in Connections : Loss(c)
    PROVE  FeedInv'
<1>1. UNCHANGED <<mesh, generation, feed>> /\ holder' = holder
  BY DEF Engine, EngineLooks, EngineDials, EngineWakes, HostEnds, Loss, lifecycle, panes, work
<1> QED
  BY <1>1, LeftAlone, SameInv

\* A reader that has left is not current, and only its own entry goes with it.
LEMMA LeavesThins ==
    ASSUME IInv, FeedInv, NEW r \in DOMAIN readers, NEW pc, pc # "reading", Leaves(r, pc),
           generation' = generation, feed' = feed,
           \/ entries' = entries
           \/ /\ readers[r].pc # "reading"
              /\ entries' = [v \in Views |-> IF entries[v] # None /\ entries[v].reader = r
                                             THEN None ELSE entries[v]]
    PROVE  Thins
<1>1. readers \in Seq(ReaderType) /\ readers[r] \in ReaderType /\ Owned
      /\ feed \in Views \cup {None}
  BY DEF IInv, Mesh, MeshTyped, FeedInv, Panes, PanesTyped
<1> DEFINE after == IF pc # "gone" THEN [readers[r] EXCEPT !.pc = pc]
                    ELSE [generation |-> 0, incarnation |-> 0, cancelled |-> TRUE,
                          synchronized |-> readers[r].synchronized, pc |-> pc]
<1>2. after.pc = pc /\ readers' = [readers EXCEPT ![r] = after]
  BY <1>1 DEF ReaderType, Leaves
<1> HIDE DEF after
<1>3. DOMAIN readers' = DOMAIN readers /\ readers'[r].pc = pc
      /\ \A q \in DOMAIN readers \ {r} : readers'[q] = readers[q]
  BY <1>1, <1>2
<1> SUFFICES ASSUME NEW q \in DOMAIN readers', Active(q)'
             PROVE  /\ q \in DOMAIN readers /\ Active(q)
                    /\ feed # None => feed' = feed /\ entries'[feed] = entries[feed]
  BY DEF Thins
<1>4. q # r /\ q \in DOMAIN readers /\ Active(q)
  BY <1>3 DEF Active
<1>5. feed # None /\ entries[feed] # None /\ entries[feed].reader = q
  BY <1>1, <1>4 DEF Owned
<1> QED
  BY <1>1, <1>4, <1>5

LEMMA ReaderFeed ==
    ASSUME IInv, FeedInv, NEW r \in DOMAIN readers,
           ReaderPublishes(r) \/ ReaderErrs(r) \/ Reader(r)
    PROVE  FeedInv'
<1>1. UNCHANGED <<generation, feed>>
  BY DEF ReaderPublishes, ReaderErrs, Reader, ReaderEnds, ReaderStops, ReaderRetires,
         ReaderVerdict, ReaderArms, lifecycle, panes
<1>2. holder' \in {None, holder}
  <2>1. CASE ReaderEnds(r)
    BY <2>1, AbortKeeps DEF ReaderEnds
  <2>2. CASE ReaderArms(r)
    BY <2>2, AbortKeeps DEF ReaderArms
  <2>3. CASE \/ ReaderPublishes(r) \/ ReaderErrs(r) \/ ReaderStops(r)
             \/ ReaderRetires(r) \/ ReaderVerdict(r)
    BY <2>3 DEF ReaderPublishes, ReaderErrs, ReaderStops, ReaderRetires, ReaderVerdict, work
  <2> QED
    BY <2>1, <2>2, <2>3 DEF Reader
<1>3. CASE ReaderPublishes(r)
  <2>1. readers \in Seq(ReaderType) /\ readers[r] \in ReaderType
    BY DEF IInv, Mesh, MeshTyped
  <2> DEFINE after == [readers[r] EXCEPT !.synchronized = TRUE]
  <2>2. /\ after.pc = readers[r].pc /\ after.generation = readers[r].generation
        /\ after.cancelled = readers[r].cancelled /\ readers' = [readers EXCEPT ![r] = after]
    BY <1>3, <2>1 DEF ReaderPublishes, ReaderType
  <2> HIDE DEF after
  <2>3. /\ DOMAIN readers' = DOMAIN readers
        /\ \A q \in DOMAIN readers : readers'[q] = IF q = r THEN after ELSE readers[q]
    BY <2>1, <2>2
  <2>4. Thins
    BY <1>1, <1>3, <2>2, <2>3 DEF Thins, Active, ReaderPublishes
  <2> QED
    BY <1>1, <1>2, <2>4, SameInv
<1>4. CASE \/ ReaderErrs(r) \/ ReaderEnds(r) \/ ReaderStops(r) \/ ReaderVerdict(r)
           \/ ReaderArms(r)
  <2>1. entries' = entries /\ \E pc \in {"left", "failed", "arming", "gone"} : Leaves(r, pc)
    BY <1>4 DEF ReaderErrs, ReaderEnds, ReaderStops, ReaderVerdict, ReaderArms
  <2>2. Thins
    BY <1>1, <2>1, LeavesThins
  <2> QED
    BY <1>1, <1>2, <2>2, SameInv
<1>5. CASE ReaderRetires(r)
  <2>1. /\ readers[r].pc # "reading" /\ \E pc \in {"gone", "verdict"} : Leaves(r, pc)
        /\ entries' = [v \in Views |-> IF entries[v] # None /\ entries[v].reader = r
                                       THEN None ELSE entries[v]]
    BY <1>5 DEF ReaderRetires
  <2>2. Thins
    BY <1>1, <2>1, LeavesThins
  <2> QED
    BY <1>1, <1>2, <2>2, SameInv
<1> QED
  BY <1>3, <1>4, <1>5 DEF Reader

LEMMA HeartbeatFeed ==
    ASSUME IInv, FeedInv, NEW c \in Connections, Heartbeat(c) PROVE FeedInv'
<1>1. CASE HeartbeatFails(c)
  <2>1. UNCHANGED <<generation, feed, holder>> /\ \E vs : Retire(vs)
    BY <1>1 DEF HeartbeatFails, lifecycle, panes, work
  <2>2. Thins
    BY <2>1, RetireThins
  <2> QED
    BY <2>1, <2>2, SameInv
<1>2. CASE HeartbeatStops(c) \/ HeartbeatVerdict(c) \/ HeartbeatArms(c) \/ HostShutdown(c)
  <2>1. UNCHANGED <<mesh, generation, feed>>
    BY <1>2 DEF HeartbeatStops, HeartbeatVerdict, HeartbeatArms, HostShutdown, lifecycle, panes
  <2>2. holder' \in {None, holder}
    <3>1. holder' = holder \/ Arm(holder, queue) \/ End(holder, queue)
      BY <1>2 DEF HeartbeatStops, HeartbeatVerdict, HeartbeatArms, HostShutdown, work
    <3> QED
      BY <3>1, AbortKeeps
  <2> QED
    BY <2>1, <2>2, LeftAlone, SameInv
<1> QED
  BY <1>1, <1>2 DEF Heartbeat

LEMMA NextFeedInv ==
    ASSUME IInv, FeedInv, [Next]_vars, [~Overlap /\ ~Unrecorded]_vars PROVE FeedInv'
<1>1. CASE UNCHANGED vars
  BY <1>1, LeftAlone, SameInv DEF vars, mesh, lifecycle, panes, work
<1> SUFFICES ASSUME Next, ~Overlap, ~Unrecorded PROVE FeedInv'
  BY <1>1
<1>2. CASE Commands
  BY <1>2, AsksFeed, DetachFeed DEF Commands
<1>3. CASE Acquires
  BY <1>3, AttachBeginFeed, ResumeBeginFeed, PromoteBeginFeed, SecondariesBeginFeed
     DEF Acquires
<1>4. CASE Proceeds
  BY <1>4, AttachRetireFeed, ResumeDialFeed, AskFeed, FaultsFeed, ElectsFeed, AnsweredFeed,
     StreamsFeed, ConcludesFeed, UnsynchronizedFeed, RetriesFeed, SecondaryFailsFeed
     DEF Proceeds
<1>5. CASE DialFails \/ (\E v \in Views : DetachForget(v)) \/ Engine \/ EngineWakes
  BY <1>5, FaultsFeed, DetachForgetFeed, EngineFeed
<1>6. CASE \E r \in DOMAIN readers : ReaderPublishes(r) \/ ReaderErrs(r) \/ Reader(r)
  BY <1>6, ReaderFeed
<1>7. CASE (\E c \in Connections : Heartbeat(c) \/ Loss(c)) \/ HostEnds
  BY <1>7, HeartbeatFeed, EngineFeed
<1> QED
  BY <1>2, <1>3, <1>4, <1>5, <1>6, <1>7 DEF Next

\* At most one state stream may publish into the replica, as long as no pane is
\* forgotten that has become the feed meanwhile (detach_view) and none is
\* attached without a feed on record (attach_view): the run remote_feeds shows
\* what either leads to, so that nothing else does.
THEOREM OneFeedAtATime == Spec /\ [][~Overlap /\ ~Unrecorded]_vars => []SingleFeed
<1>1. Init => FeedInv
  BY DEF Init, FeedInv, Owned, Named, Alone, Begun
<1>2. FeedInv => SingleFeed
  BY DEF FeedInv, Owned, SingleFeed, Active, Admitted
<1> QED
  BY <1>1, <1>2, Inductive, NextFeedInv, PTL DEF Spec

-----------------------------------------------------------------------------
(* An end that is final, but for the two places that do not look.          *)

\* attach_view and reestablish_feed looked before they waited; they say
\* reconnecting without looking again.
Reopens == state = "ended" /\ ((AttachRetire /\ holder.resuming) \/ PromoteFails)

\* Everybody else looks, or says what ends.
LEMMA EndedStep ==
    ASSUME Next, state = "ended", state' # "ended" PROVE Reopens
<1>1. CASE Commands
  BY <1>1 DEF Commands, Attach, Retry, Detach, Refresh, Reconnect, lifecycle
<1>2. CASE Acquires
  BY <1>2 DEF Acquires, AttachBegin, ResumeBegin, PromoteBegin, SecondariesBegin,
              Establish, lifecycle
<1>3. CASE Proceeds
  <2>1. CASE AttachRetire \/ PromoteFails
    BY <2>1 DEF Reopens, AttachRetire
  <2>2. CASE ResumeListed \/ Reelects
    BY <2>2 DEF ResumeListed, Reelects, Establish
  <2>3. CASE Streams \/ Synchronized \/ Unsynchronized \/ VerdictEnds \/ AttachFails
    BY <2>3 DEF Streams, Synchronized, Unsynchronized, VerdictEnds, AttachFails, End
  <2>4. CASE \/ \E c \in Connections : ResumeDial(c) \/ Ask(c)
             \/ ResumeUnlisted \/ Refused \/ Answered \/ StreamFails
             \/ Superseded \/ ResumeFails \/ AttachRetries \/ SecondaryFails
    BY <2>4 DEF ResumeDial, Ask, ResumeUnlisted, Refused, Answered, StreamFails, Superseded,
                ResumeFails, AttachRetries, SecondaryFails, lifecycle
  <2> QED
    BY <1>3, <2>1, <2>2, <2>3, <2>4 DEF Proceeds
<1>4. CASE DialFails \/ (\E v \in Views : DetachForget(v)) \/ Engine \/ EngineWakes
  BY <1>4 DEF DialFails, DetachForget, Engine, EngineLooks, EngineDials, EngineWakes,
              lifecycle
<1>5. CASE \E r \in DOMAIN readers : ReaderPublishes(r) \/ ReaderErrs(r) \/ Reader(r)
  BY <1>5 DEF ReaderPublishes, ReaderErrs, Reader, ReaderEnds, ReaderStops, ReaderRetires,
              ReaderVerdict, ReaderArms, Disconnects, End, lifecycle
<1>6. CASE (\E c \in Connections : Heartbeat(c) \/ Loss(c)) \/ HostEnds
  BY <1>6 DEF Heartbeat, HeartbeatFails, HeartbeatStops, HeartbeatVerdict, HeartbeatArms,
              HostShutdown, Disconnects, End, Loss, HostEnds, lifecycle
<1> QED
  BY <1>1, <1>2, <1>3, <1>4, <1>5, <1>6 DEF Next

\* A session that has ended stays ended but for an attach that was under way
\* when it ended and a promotion that fails after it: the run remote_ended
\* shows the former, and no other task reopens a session.
THEOREM EndedStays == Spec /\ [][~Reopens]_vars => EndedIsTerminal
<1>1. [Next]_vars /\ [~Reopens]_vars => [state = "ended" => state' = "ended"]_vars
  BY EndedStep
<1> QED
  BY <1>1, PTL DEF Spec, EndedIsTerminal
=============================================================================
