-------------------------- MODULE TerminalIOProofs --------------------------
(***************************************************************************)
(* Theorems about TerminalIO, for any number of calls and views and any    *)
(* sizes of its queues: what the program is answered stays in order, what  *)
(* automation planned is not overtaken, a size is one size and a selection *)
(* belongs to an attached view.  The invariant says what each thread may   *)
(* be doing where it is (PlacedAt), which lock it has there (LockedAt), and    *)
(* what follows for the state the locks protect: a selection in the making *)
(* (Selecting), a size that is not committed yet (Sized), the human input  *)
(* that was counted (Typed), tickets in hand (Ticketed) and the replies    *)
(* behind them (Ordered, Complete).  That nobody waits in a circle follows *)
(* from what each thread may hold where it waits (Orderly), by the order   *)
(* of the locks.                                                           *)
(***************************************************************************)
EXTENDS TerminalIO, FiniteSetTheorems, SequenceTheorems, TLAPS

\* What the threads keep, and the locks.
ThreadsOK ==
    /\ request \in [Calls -> {NoRequest} \cup
           [kind : Requests, view : Views, planned : 0..Cardinality(Calls)]]
    /\ at \in [Threads -> Stages]
    /\ ticket \in [Threads -> Tickets \cup {None}]
    /\ {lifecycle, authority, model_operation, writer} \subseteq Threads \cup {None}
    /\ readers \subseteq Calls

\* Where a thread may be, and with which request.
PlacedAt(t) ==
    /\ t \in Calls =>
          /\ at[t] \in {"idle", "registry", "lifecycle", "authority", "model", "update",
                        "sending", "terminate", "done", "write"}
          /\ at[t] \notin {"idle", "done"} =>
                 request[t] \in [kind : Requests, view : Views, planned : 0..Cardinality(Calls)]
          /\ at[t] = "sending" => request[t].kind \in {"claim", "resize", "colors"}
    /\ t = "frames" => at[t] \in {"recv", "look", "model", "update", "sending", "exited",
                                  "final", "write", "concluded"}
    /\ t = "input" => at[t] \in {"recv", "model", "update", "writer", "writing", "ended"}
    /\ t = "replies" => at[t] \in {"recv", "writer", "writing", "ended"}

\* A size is on its way to the terminal, or waits there to be committed.
Resizes(c) == request[c].kind \in {"claim", "resize"}

\* Who changes the model has its lock; who needs the authority to stay as it
\* was has that one.
LockedAt(t) ==
    /\ at[t] = "update" => model_operation = t
    /\ /\ t \in Calls
       /\ \/ Resizes(t) /\ at[t] \in {"model", "update", "sending"}
          \/ request[t].kind = "select" /\ at[t] = "model"
       => authority = t

Control == ThreadsOK /\ \A t \in Threads : PlacedAt(t) /\ LockedAt(t)

\* A call is about to remove a view's selection.
Removing(v) ==
    \E c \in Calls : /\ request[c].view = v
                     /\ request[c].kind \in {"detach", "terminate"}
                     /\ at[c] \in {"model", "update"}

\* A fenced read tracks the selection of an attached view, or of one whose
\* selection is about to be removed.
Selecting ==
    \A c \in Calls : request[c].kind = "select" =>
        /\ at[c] = "model" => request[c].view \in attached
        /\ at[c] = "update" => request[c].view \in attached \/ Removing(request[c].view)

\* The terminal has the authority's size, or the one that is to be committed;
\* and so has the metadata, to which a resize that fails puts the terminal back,
\* unless one has failed since the last snapshot.
Sized ==
    \/ split
    \/ refusals = 2
    \/ /\ refusals = 0 => metadata = model_size
       /\ model_size = pty_size
       /\ \/ size = model_size /\ \A c \in Calls : ~(Resizes(c) /\ at[c] = "sending")
          \/ model_size = resizing /\ \E c \in Calls : Resizes(c) /\ at[c] = "sending"

SizesOK ==
    /\ {size, model_size, pty_size, resizing, metadata} \subseteq Sizes
    /\ split \in BOOLEAN /\ refusals \in 0..2

\* A call types at most once, as it returns.
Typed == human_input_epoch <= Cardinality({c \in Calls : at[c] = "done"})

\* A producer's ticket is its own, and its turn has not passed.
Ticketed ==
    /\ next_send <= next_ticket
    /\ \A t \in Threads : at[t] = "sending" =>
          /\ ticket[t] \in Nat /\ ticket[t] < next_ticket
          /\ ~closed => next_send <= ticket[t]
          /\ \A u \in Threads \ {t} : at[u] = "sending" => ticket[u] # ticket[t]

\* Strictly ordered, element by element and from one sequence to the next.
Sorted(s) == \A j, k \in DOMAIN s : j < k => s[j] < s[k]
Before(s, r) == \A j \in DOMAIN s, k \in DOMAIN r : s[j] < r[k]

Ordered ==
    /\ Sorted(delivered) /\ Sorted(taken) /\ Sorted(pending)
    /\ Before(delivered, taken) /\ Before(delivered, pending) /\ Before(taken, pending)
    /\ \A s \in {delivered, taken, pending} : \A k \in DOMAIN s : s[k] < next_send
    /\ Contiguous(taken) /\ Contiguous(pending)
    /\ pending # <<>> /\ ~overflowed => pending[Len(pending)] + 1 = next_send
    /\ at["replies"] = "recv" => taken = <<>>

\* Nothing is dropped before a termination.
Complete ==
    ~draining /\ ~closed =>
        /\ ~overflowed
        /\ (delivered \o taken) \o pending = [k \in 1..next_send |-> k - 1]

IInv ==
    /\ TypeOK /\ Control /\ Selecting /\ SelectionsAttached
    /\ Sized /\ Typed /\ AutomationNotOvertaken /\ Ticketed /\ Ordered /\ Complete

-----------------------------------------------------------------------------
(* One thread's steps. *)

\* The threads are distinct, and none is None.
LEMMA Names ==
    /\ Calls \subseteq Threads /\ {"frames", "input", "replies"} \subseteq Threads
    /\ "frames" \notin Calls /\ "input" \notin Calls /\ "replies" \notin Calls
    /\ None \notin Threads
  BY TerminalIOAssumption DEF Threads

\* Only thread t moves, and it takes no lock from another.
Moved(t) ==
    /\ \A u \in Threads \ {t} : at'[u] = at[u]
    /\ \A c \in Calls \ {t} : request'[c] = request[c]
    /\ \A u \in Threads \ {t} : /\ model_operation = u => model_operation' = u
                                /\ authority = u => authority' = u

\* A thread gets somewhere with what it needs there.
Steps(t) == ThreadsOK' /\ Moved(t) /\ PlacedAt(t)' /\ LockedAt(t)'

\* Where it was one thread's step, the others are where they were, with what
\* they had.
LEMMA StepsControl ==
    ASSUME Control, NEW t \in Threads, Steps(t) PROVE Control'
<1> SUFFICES ASSUME NEW u \in Threads \ {t} PROVE (PlacedAt(u) /\ LockedAt(u))'
  BY DEF Steps, Control
<1>1. PlacedAt(u) /\ LockedAt(u)
  BY DEF Control
<1>2. at'[u] = at[u] /\ (u \in Calls => request'[u] = request[u])
  BY DEF Steps, Moved
<1>3. PlacedAt(u)'
  BY <1>1, <1>2 DEF PlacedAt
<1>4. LockedAt(u)'
  BY <1>1, <1>2 DEF LockedAt, Resizes, Steps, Moved
<1> QED
  BY <1>3, <1>4

\* A thread that only gets on from one place to another.
LEMMA GoFacts ==
    ASSUME ThreadsOK, NEW t \in Threads, NEW stage \in Stages, Go(t, stage)
    PROVE  /\ at' \in [Threads -> Stages] /\ at'[t] = stage
           /\ \A u \in Threads \ {t} : at'[u] = at[u]
  BY DEF Go, ThreadsOK

\* A thread that returns has no lock left.
LEMMA ReturnFacts ==
    ASSUME ThreadsOK, NEW t \in Threads, Return(t)
    PROVE  /\ at' \in [Threads -> Stages]
           /\ \A u \in Threads \ {t} : at'[u] = at[u]
           /\ t \in Calls => at'[t] = "done"
           /\ t = "frames" => at'[t] \in {"write", "recv"}
           /\ t \in {"input", "replies"} => at'[t] \in {"ended", "recv"}
           /\ \A c \in Calls \ {t} : request'[c] = request[c]
           /\ request' \in [Calls -> {NoRequest} \cup
                  [kind : Requests, view : Views, planned : 0..Cardinality(Calls)]]
           /\ \A u \in Threads \ {t} : /\ model_operation = u => model_operation' = u
                                       /\ authority = u => authority' = u
           /\ {lifecycle', authority', model_operation'} \subseteq Threads \cup {None}
           /\ readers' \subseteq Calls
<1> DEFINE stage == CASE t \in Calls -> "done"
                      [] t = "frames" -> IF exited THEN "write" ELSE "recv"
                      [] OTHER -> IF exited THEN "ended" ELSE "recv"
<1>1. /\ t \in Calls => stage = "done"
      /\ t = "frames" => stage \in {"write", "recv"}
      /\ t \in {"input", "replies"} => stage \in {"ended", "recv"}
  BY Names
<1>2. stage \in Stages
  BY <1>1 DEF Threads, Stages
<1>3. Go(t, stage)
  BY DEF Return
<1> HIDE DEF stage
<1>4. /\ at' \in [Threads -> Stages] /\ at'[t] = stage
      /\ \A u \in Threads \ {t} : at'[u] = at[u]
  BY <1>2, <1>3, GoFacts
<1>5. /\ request' = IF t \in Calls THEN [request EXCEPT ![t] = NoRequest] ELSE request
      /\ lifecycle' = IF lifecycle = t THEN None ELSE lifecycle
      /\ authority' = IF authority = t THEN None ELSE authority
      /\ model_operation' = IF model_operation = t THEN None ELSE model_operation
      /\ readers' = readers \ {t}
  BY DEF Return, ReleaseModel
<1>6. /\ \A c \in Calls \ {t} : request'[c] = request[c]
      /\ request' \in [Calls -> {NoRequest} \cup
             [kind : Requests, view : Views, planned : 0..Cardinality(Calls)]]
  BY <1>5 DEF ThreadsOK
<1>7. /\ {lifecycle', authority', model_operation'} \subseteq Threads \cup {None}
      /\ readers' \subseteq Calls
  BY <1>5 DEF ThreadsOK
<1> QED
  BY <1>1, <1>4, <1>5, <1>6, <1>7

\* To return is such a step,
LEMMA ReturnSteps ==
    ASSUME Control, NEW t \in Threads, Return(t),
           ticket' \in [Threads -> Tickets \cup {None}], writer' \in Threads \cup {None}
    PROVE  Steps(t)
<1>1. ThreadsOK
  BY DEF Control
<1>2. ThreadsOK' /\ Moved(t)
  BY <1>1, ReturnFacts DEF ThreadsOK, Moved
<1>3. /\ t \in Calls => at'[t] = "done"
      /\ t = "frames" => at'[t] \in {"write", "recv"}
      /\ t \in {"input", "replies"} => at'[t] \in {"ended", "recv"}
  BY <1>1, ReturnFacts
<1>4. PlacedAt(t)'
  BY <1>3, Names DEF PlacedAt
<1>5. LockedAt(t)'
  BY <1>3, Names DEF LockedAt, Threads
<1> QED
  BY <1>2, <1>4, <1>5 DEF Steps

\* and so is to get on, with the locks that takes.
LEMMA GoSteps ==
    ASSUME Control, NEW t \in Threads, NEW stage \in Stages, Go(t, stage), request' = request,
           ticket' \in [Threads -> Tickets \cup {None}],
           {lifecycle', authority', model_operation', writer'} \subseteq Threads \cup {None},
           readers' \subseteq Calls,
           \A u \in Threads \ {t} : /\ model_operation = u => model_operation' = u
                                    /\ authority = u => authority' = u,
           PlacedAt(t)', LockedAt(t)'
    PROVE  Steps(t)
<1>1. ThreadsOK
  BY DEF Control
<1> QED
  BY <1>1, GoFacts DEF Steps, Moved, ThreadsOK

\* What a request begins with.
LEMMA KindFacts ==
    ASSUME NEW kind \in Requests
    PROVE  /\ First(kind) \in {"lifecycle", "authority", "model", "terminate", "write"}
           /\ First(kind) = "model" => kind \in {"colors", "unfenced"}
           /\ kind \in {"write", "select"} => First(kind) \in {"write", "authority"}
  BY DEF Requests, Holding, First

\* The human inputs are as many as have been queued, and the calls that are
\* done bound them.
LEMMA EpochFacts ==
    ASSUME TypeOK, Typed
    PROVE  human_input_epoch \in 0..Cardinality(Calls)
<1>1. IsFiniteSet(Calls)
  BY TerminalIOAssumption
<1>2. /\ IsFiniteSet({c \in Calls : at[c] = "done"})
      /\ Cardinality({c \in Calls : at[c] = "done"}) <= Cardinality(Calls)
  BY <1>1, FS_Subset
<1>3. /\ Cardinality(Calls) \in Nat
      /\ Cardinality({c \in Calls : at[c] = "done"}) \in Nat
  BY <1>1, <1>2, FS_CardinalityType
<1>4. IsFiniteSet(DOMAIN accepted)
  <2>1. accepted \in Seq([by : {"human", "automation", "other"},
                          planned : 0..Cardinality(Calls)])
    BY DEF TypeOK
  <2>2. DOMAIN accepted = 1..Len(accepted) /\ Len(accepted) \in Nat
    BY <2>1
  <2> QED
    BY <2>2, FS_Interval
<1>5. IsFiniteSet({k \in DOMAIN accepted : accepted[k].by = "human"})
  BY <1>4, FS_Subset
<1>6. human_input_epoch \in Nat
  BY <1>5, FS_CardinalityType DEF human_input_epoch
<1> QED
  BY <1>2, <1>3, <1>6 DEF Typed

\* A request begins without a lock.
LEMMA BeginSteps ==
    ASSUME IInv, NEW c \in Calls, NEW v \in Views, NEW kind \in Requests, Begin(c, kind, v)
    PROVE  Steps(c)
<1> DEFINE record == [kind |-> kind, view |-> v,
                      planned |-> IF kind = "automation" THEN human_input_epoch ELSE 0]
           stage == IF kind \in {"write", "select"} THEN First(kind) ELSE "registry"
<1>i. IInv /\ Control /\ ThreadsOK
  BY DEF IInv, Control
<1>1. /\ request' = [request EXCEPT ![c] = record] /\ Go(c, stage)
      /\ UNCHANGED <<ticket, lifecycle, authority, model_operation, writer, readers>>
  BY DEF Begin, locks
<1>2. human_input_epoch \in 0..Cardinality(Calls) /\ Cardinality(Calls) \in Nat
  BY EpochFacts, TerminalIOAssumption, FS_CardinalityType DEF IInv
<1>3. record \in [kind : Requests, view : Views, planned : 0..Cardinality(Calls)]
  BY <1>2
<1>4. stage \in {"registry", "write", "authority"} /\ stage \in Stages /\ c \in Threads
  BY KindFacts, Names DEF Stages
<1> HIDE DEF record, stage
<1>5. /\ at' \in [Threads -> Stages] /\ at'[c] = stage
      /\ \A u \in Threads \ {c} : at'[u] = at[u]
  BY <1>i, <1>1, <1>4, GoFacts
<1>6. /\ request'[c] = record /\ \A d \in Calls \ {c} : request'[d] = request[d]
      /\ request' \in [Calls -> {NoRequest} \cup
             [kind : Requests, view : Views, planned : 0..Cardinality(Calls)]]
  BY <1>i, <1>1, <1>3 DEF ThreadsOK
<1>7. ThreadsOK' /\ Moved(c)
  BY <1>i, <1>1, <1>5, <1>6 DEF ThreadsOK, Moved
<1>8. PlacedAt(c)'
  BY <1>3, <1>4, <1>5, <1>6, Names DEF PlacedAt
<1>9. LockedAt(c)'
  BY <1>4, <1>5 DEF LockedAt
<1> QED
  BY <1>7, <1>8, <1>9 DEF Steps

\* What a thread that does not return needs to have where it gets.
LEMMA CallGoes ==
    ASSUME Control, NEW c \in Calls, at[c] \notin {"idle", "done"},
           NEW stage \in {"lifecycle", "authority", "model", "update", "sending",
                          "terminate", "write"},
           Go(c, stage), request' = request,
           stage = "sending" => request[c].kind \in {"claim", "resize", "colors"},
           stage = "update" => model_operation' = c,
           \/ Resizes(c) /\ stage \in {"model", "update", "sending"}
           \/ request[c].kind = "select" /\ stage = "model"
           => authority' = c,
           ticket' \in [Threads -> Tickets \cup {None}],
           {lifecycle', authority', model_operation', writer'} \subseteq Threads \cup {None},
           readers' \subseteq Calls,
           \A u \in Threads \ {c} : /\ model_operation = u => model_operation' = u
                                    /\ authority = u => authority' = u
    PROVE  Steps(c)
<1>1. ThreadsOK /\ PlacedAt(c) /\ c \in Threads /\ stage \in Stages
  BY Names DEF Control, Stages
<1>2. at'[c] = stage
  BY <1>1, GoFacts
<1>3. PlacedAt(c)'
  BY <1>1, <1>2, Names DEF PlacedAt
<1>4. LockedAt(c)'
  BY <1>2 DEF LockedAt, Resizes
<1> QED
  BY <1>1, <1>3, <1>4, GoSteps

\* An update returns, or goes on to hand its reply over without the model's lock.
LEMMA UpdateSteps ==
    ASSUME Control, NEW c \in Calls, at[c] = "update", NEW reply \in BOOLEAN,
           ExecuteUpdate(c, reply), reply => request[c].kind \in {"claim", "resize", "colors"},
           next_ticket \in Nat
    PROVE  Steps(c)
<1>1. ThreadsOK /\ LockedAt(c) /\ c \in Threads /\ writer' = writer
  BY Names DEF Control, ExecuteUpdate
<1>2. CASE ~reply
  <2>1. Return(c) /\ ticket' = ticket
    BY <1>2 DEF ExecuteUpdate
  <2> QED
    BY <1>1, <2>1, ReturnSteps DEF ThreadsOK
<1>3. CASE reply
  <2>1. /\ model_operation' = None /\ ticket' = [ticket EXCEPT ![c] = next_ticket]
        /\ Go(c, "sending") /\ UNCHANGED <<request, lifecycle, authority, readers>>
    BY <1>3 DEF ExecuteUpdate
  <2>2. model_operation = c /\ (Resizes(c) => authority = c)
    BY <1>1 DEF LockedAt
  <2>3. ticket' \in [Threads -> Tickets \cup {None}]
    BY <1>1, <2>1 DEF ThreadsOK, Tickets
  <2>4. {lifecycle', authority', model_operation', writer'} \subseteq Threads \cup {None}
    BY <1>1, <2>1 DEF ThreadsOK
  <2>5. \A u \in Threads \ {c} : /\ model_operation = u => model_operation' = u
                                 /\ authority = u => authority' = u
    BY <2>1, <2>2
  <2>6. readers' \subseteq Calls
    BY <1>1, <2>1 DEF ThreadsOK
  <2> QED
    BY <1>3, <2>1, <2>2, <2>3, <2>4, <2>5, <2>6, CallGoes
<1> QED
  BY <1>2, <1>3

\* A request is looked up, and waits for its first lock.
LEMMA WaitingSteps ==
    ASSUME IInv, NEW c \in Calls,
           LookUp(c) \/ EnterLifecycle(c) \/ LockModel(c) \/ AuthorizeRead(c)
           \/ AuthorizeResize(c)
    PROVE  Steps(c)
<1>i. Control /\ ThreadsOK /\ PlacedAt(c) /\ LockedAt(c) /\ c \in Threads /\ None \notin Threads
  BY Names DEF IInv, Control
<1>t. /\ ticket \in [Threads -> Tickets \cup {None}] /\ readers \subseteq Calls
      /\ {lifecycle, authority, model_operation, writer} \subseteq Threads \cup {None}
  BY <1>i DEF ThreadsOK
<1>1. CASE LookUp(c)
  <2>1. request[c].kind \in Requests /\ at[c] = "registry"
    BY <1>1, <1>i DEF LookUp, PlacedAt
  <2>2. PICK stage \in {First(request[c].kind), "authority"} : Go(c, stage)
    BY <1>1 DEF LookUp
  <2>3. /\ stage \in {"lifecycle", "authority", "model", "terminate", "write"}
        /\ stage = "model" => request[c].kind \in {"colors", "unfenced"}
    BY <2>1, <2>2, KindFacts
  <2>4. /\ readers' \subseteq Calls
        /\ UNCHANGED <<request, ticket, lifecycle, authority, model_operation, writer>>
    BY <1>1, <1>t DEF LookUp
  <2> QED
    BY <1>i, <1>t, <2>1, <2>2, <2>3, <2>4, CallGoes DEF Resizes
<1>2. CASE EnterLifecycle(c)
  <2>1. /\ at[c] = "lifecycle" /\ Go(c, "authority") /\ lifecycle' = c
        /\ UNCHANGED <<request, ticket, authority, model_operation, writer, readers>>
    BY <1>2 DEF EnterLifecycle, Waiting
  <2> QED
    BY <1>i, <1>t, <2>1, CallGoes
<1>3. CASE LockModel(c)
  <2>1. /\ at[c] = "model" /\ Go(c, "update") /\ model_operation = None /\ model_operation' = c
        /\ authority' = IF request[c].kind = "select" THEN None ELSE authority
        /\ UNCHANGED <<request, ticket, lifecycle, writer, readers>>
    BY <1>3 DEF LockModel
  <2>2. request[c].kind = "select" \/ Resizes(c) => authority = c
    BY <1>i, <2>1 DEF LockedAt
  <2>3. /\ Resizes(c) => authority' = c
        /\ \A u \in Threads \ {c} : /\ model_operation = u => model_operation' = u
                                    /\ authority = u => authority' = u
    BY <1>i, <2>1, <2>2 DEF Resizes
  <2>4. {lifecycle', authority', model_operation', writer'} \subseteq Threads \cup {None}
    BY <1>i, <1>t, <2>1
  <2> QED
    BY <1>i, <1>t, <2>1, <2>3, <2>4, CallGoes
<1>4. CASE AuthorizeRead(c)
  <2>1. at[c] = "authority" /\ authority = None /\ UNCHANGED <<ticket, writer>>
    BY <1>4 DEF AuthorizeRead, Waiting
  <2>2. CASE Return(c)
    BY <1>i, <1>t, <2>1, <2>2, ReturnSteps
  <2>3. CASE /\ authority' = c /\ Go(c, "model")
             /\ UNCHANGED <<request, lifecycle, model_operation, readers>>
    BY <1>i, <1>t, <2>1, <2>3, CallGoes
  <2> QED
    BY <1>4, <2>2, <2>3 DEF AuthorizeRead
<1>5. CASE AuthorizeResize(c)
  <2>1. at[c] = "authority" /\ authority = None /\ UNCHANGED <<ticket, writer>>
    BY <1>5 DEF AuthorizeResize, Waiting
  <2>2. CASE Return(c)
    BY <1>i, <1>t, <2>1, <2>2, ReturnSteps
  <2>3. CASE /\ authority' = c /\ Go(c, "model")
             /\ UNCHANGED <<request, lifecycle, model_operation, readers>>
    BY <1>i, <1>t, <2>1, <2>3, CallGoes
  <2> QED
    BY <1>5, <2>2, <2>3 DEF AuthorizeResize
<1> QED
  BY <1>1, <1>2, <1>3, <1>4, <1>5

\* A view is attached or detached.
LEMMA ViewSteps ==
    ASSUME IInv, NEW c \in Calls, AttachView(c) \/ DetachView(c) \/ RemoveViewSelection(c)
    PROVE  Steps(c)
<1>i. Control /\ ThreadsOK /\ LockedAt(c) /\ c \in Threads /\ None \notin Threads
  BY Names DEF IInv, Control
<1>t. /\ ticket \in [Threads -> Tickets \cup {None}] /\ readers \subseteq Calls
      /\ {lifecycle, authority, model_operation, writer} \subseteq Threads \cup {None}
  BY <1>i DEF ThreadsOK
<1>d. ASSUME Detached(c), at[c] \in {"authority", "update"}, UNCHANGED <<ticket, writer>>
      PROVE  Steps(c)
  <2>1. CASE request[c].kind = "terminate"
    <3>1. Go(c, "terminate") /\ ReleaseModel(c) /\ UNCHANGED <<request, lifecycle, authority, readers>>
      BY <1>d, <2>1 DEF Detached
    <3> QED
      BY <1>i, <1>t, <1>d, <3>1, CallGoes DEF ReleaseModel
  <2>2. CASE request[c].kind # "terminate"
    BY <1>i, <1>t, <1>d, <2>2, ReturnSteps DEF Detached
  <2> QED
    BY <2>1, <2>2
<1>g. ASSUME Go(c, "model"), at[c] = "authority", UNCHANGED <<request, ticket, locks>>,
             request[c].kind \in {"attach", "detach", "terminate"}
      PROVE  Steps(c)
  <2>1. UNCHANGED <<lifecycle, authority, model_operation, writer, readers>>
    BY <1>g DEF locks
  <2> QED
    BY <1>i, <1>t, <1>g, <2>1, CallGoes DEF Resizes
<1>1. CASE AttachView(c)
  BY <1>1, <1>g DEF AttachView, Waiting
<1>2. CASE DetachView(c)
  BY <1>2, <1>d, <1>g DEF DetachView, Waiting
<1>3. CASE RemoveViewSelection(c)
  BY <1>3, <1>d DEF RemoveViewSelection, Waiting
<1> QED
  BY <1>1, <1>2, <1>3

\* What a request ends with.
LEMMA ReturningSteps ==
    ASSUME IInv, NEW c \in Calls,
           \/ AuthorizeAndEnqueue(c) \/ AutomationInput(c) \/ TrackViewSelection(c)
           \/ FailResize(c) \/ Terminate(c) \/ WriteRegistry(c) \/ Send(c)
    PROVE  Steps(c) /\ at[c] # "done" /\ at'[c] = "done"
<1>i. Control /\ ThreadsOK /\ c \in Threads
  BY Names DEF IInv, Control
<1>1. /\ Return(c) /\ writer' = writer
      /\ ticket' = ticket \/ ticket' = [ticket EXCEPT ![c] = None]
      /\ at[c] # "done"
  BY DEF AuthorizeAndEnqueue, AutomationInput, TrackViewSelection, FailResize, Terminate,
         WriteRegistry, Send, Waiting
<1>2. ticket' \in [Threads -> Tickets \cup {None}] /\ writer' \in Threads \cup {None}
  BY <1>i, <1>1 DEF ThreadsOK
<1> QED
  BY <1>i, <1>1, <1>2, ReturnSteps, ReturnFacts

\* What changes the model,
LEMMA UpdatingSteps ==
    ASSUME IInv, NEW c \in Calls, Refresh(c) \/ ApplyResize(c) \/ SetColors(c)
    PROVE  Steps(c)
<1>1. PICK reply \in BOOLEAN :
          /\ ExecuteUpdate(c, reply) /\ at[c] = "update"
          /\ reply => request[c].kind \in {"claim", "resize", "colors"}
  BY DEF Refresh, ApplyResize, SetColors, Waiting
<1>2. next_ticket \in Nat
  BY TerminalIOAssumption DEF IInv, TypeOK
<1> QED
  BY <1>1, <1>2, UpdateSteps DEF IInv

\* and so each step of a call.
LEMMA CallSteps == ASSUME IInv, NEW c \in Calls, Call(c) PROVE Steps(c)
  BY WaitingSteps, ViewSteps, ReturningSteps, UpdatingSteps DEF Call

\* The session's own threads hold no authority.
LEMMA ThreadGoes ==
    ASSUME Control, NEW t \in {"frames", "input", "replies"}, NEW stage \in Stages,
           Go(t, stage), request' = request,
           t = "frames" => stage \in {"recv", "look", "model", "update", "sending", "exited",
                                      "final", "write", "concluded"},
           t = "input" => stage \in {"recv", "model", "update", "writer", "writing", "ended"},
           t = "replies" => stage \in {"recv", "writer", "writing", "ended"},
           stage = "update" => model_operation' = t,
           ticket' \in [Threads -> Tickets \cup {None}],
           {lifecycle', authority', model_operation', writer'} \subseteq Threads \cup {None},
           readers' \subseteq Calls,
           \A u \in Threads \ {t} : /\ model_operation = u => model_operation' = u
                                    /\ authority = u => authority' = u
    PROVE  Steps(t)
<1>1. ThreadsOK /\ t \in Threads /\ t \notin Calls
  BY Names DEF Control
<1>2. at'[t] = stage
  BY <1>1, GoFacts
<1>3. PlacedAt(t)' /\ LockedAt(t)'
  BY <1>1, <1>2 DEF PlacedAt, LockedAt
<1> QED
  BY <1>1, <1>3, GoSteps

\* The frame thread,
LEMMA FramesSteps == ASSUME IInv, Frames PROVE Steps("frames")
<1>i. /\ Control /\ ThreadsOK /\ PlacedAt("frames") /\ "frames" \in Threads
      /\ "frames" \notin Calls /\ None \notin Threads
  BY Names DEF IInv, Control
<1>t. /\ ticket \in [Threads -> Tickets \cup {None}] /\ readers \subseteq Calls
      /\ {lifecycle, authority, model_operation, writer} \subseteq Threads \cup {None}
  BY <1>i DEF ThreadsOK
<1>1. CASE ReceiveOutput \/ HasActiveViews \/ MarkExited \/ CloseReplies \/ Conclude
  <2>1. PICK stage \in {"look", "model", "write", "exited", "final", "concluded"} :
           Go("frames", stage)
    BY <1>1 DEF ReceiveOutput, HasActiveViews, MarkExited, CloseReplies, Conclude
  <2>2. UNCHANGED <<request, ticket, lifecycle, authority, model_operation, writer, readers>>
    BY <1>1 DEF ReceiveOutput, HasActiveViews, MarkExited, CloseReplies, Conclude, locks
  <2>3. stage \in Stages
    BY DEF Stages
  <2> QED
    BY <1>i, <1>t, <2>1, <2>2, <2>3, ThreadGoes
<1>2. CASE LockModel("frames")
  <2>1. /\ Go("frames", "update") /\ model_operation = None /\ model_operation' = "frames"
        /\ UNCHANGED <<request, ticket, lifecycle, authority, writer, readers>>
    BY <1>i, <1>2 DEF LockModel
  <2>2. "update" \in Stages
    BY DEF Stages
  <2> QED
    BY <1>i, <1>t, <2>1, <2>2, ThreadGoes
<1>3. CASE Feed
  <2>1. PICK reply \in BOOLEAN : ExecuteUpdate("frames", reply) /\ at["frames"] = "update"
    BY <1>3 DEF Feed
  <2>2. next_ticket \in Nat /\ model_operation = "frames"
    BY <1>i, <2>1, TerminalIOAssumption DEF IInv, TypeOK, Control, LockedAt
  <2>3. CASE ~reply
    BY <1>i, <1>t, <2>1, <2>3, ReturnSteps DEF ExecuteUpdate
  <2>4. CASE reply
    <3>1. /\ model_operation' = None /\ ticket' = [ticket EXCEPT !["frames"] = next_ticket]
          /\ Go("frames", "sending")
          /\ UNCHANGED <<request, lifecycle, authority, readers, writer>>
      BY <2>1, <2>4 DEF ExecuteUpdate
    <3>2. ticket' \in [Threads -> Tickets \cup {None}] /\ "sending" \in Stages
      BY <1>t, <2>2, <3>1 DEF Tickets, Stages
    <3> QED
      BY <1>i, <1>t, <2>2, <3>1, <3>2, ThreadGoes
  <2> QED
    BY <2>3, <2>4
<1>4. CASE Send("frames")
  <2>1. Return("frames") /\ writer' = writer /\ ticket' \in [Threads -> Tickets \cup {None}]
    BY <1>4, <1>t DEF Send
  <2> QED
    BY <1>i, <1>t, <2>1, ReturnSteps
<1> QED
  BY <1>1, <1>2, <1>3, <1>4 DEF Frames

\* the input actor
LEMMA InputSteps == ASSUME IInv, Input PROVE Steps("input")
<1>i. /\ Control /\ ThreadsOK /\ "input" \in Threads
      /\ "input" \notin Calls /\ None \notin Threads
  BY Names DEF IInv, Control
<1>t. /\ ticket \in [Threads -> Tickets \cup {None}] /\ readers \subseteq Calls
      /\ {lifecycle, authority, model_operation, writer} \subseteq Threads \cup {None}
  BY <1>i DEF ThreadsOK
<1>s. {"recv", "model", "update", "writer", "writing", "ended"} \subseteq Stages
  BY DEF Stages
<1>1. CASE ReceiveInput
  <2>1. PICK stage \in {"ended", "model", "writer"} : Go("input", stage)
    <3> DEFINE stage == CASE Head(queue) = "shutdown" \/ exited -> "ended"
                          [] Head(queue) = "scroll" -> "model"
                          [] OTHER -> "writer"
    <3>1. stage \in {"ended", "model", "writer"}
      OBVIOUS
    <3>2. Go("input", stage)
      BY <1>1 DEF ReceiveInput
    <3> QED
      BY <3>1, <3>2
  <2>2. UNCHANGED <<request, ticket, lifecycle, authority, model_operation, writer, readers>>
    BY <1>1 DEF ReceiveInput, locks
  <2> QED
    BY <1>i, <1>t, <1>s, <2>1, <2>2, ThreadGoes
<1>2. CASE LockModel("input")
  <2>1. /\ Go("input", "update") /\ model_operation = None /\ model_operation' = "input"
        /\ UNCHANGED <<request, ticket, lifecycle, authority, writer, readers>>
    BY <1>i, <1>2 DEF LockModel
  <2> QED
    BY <1>i, <1>t, <1>s, <2>1, ThreadGoes
<1>3. CASE Scroll
  <2>1. Return("input") /\ UNCHANGED <<ticket, writer>>
    BY <1>3 DEF Scroll, ExecuteUpdate
  <2> QED
    BY <1>i, <1>t, <2>1, ReturnSteps
<1>4. CASE AlternateScroll
  <2>1. /\ Go("input", "writer") /\ ReleaseModel("input")
        /\ UNCHANGED <<request, ticket, lifecycle, authority, writer, readers>>
    BY <1>4 DEF AlternateScroll
  <2> QED
    BY <1>i, <1>t, <1>s, <2>1, ThreadGoes DEF ReleaseModel
<1>5. CASE LockWriter("input")
  <2>1. /\ Go("input", "writing") /\ writer' = "input"
        /\ UNCHANGED <<request, ticket, lifecycle, authority, model_operation, readers>>
    BY <1>5 DEF LockWriter
  <2> QED
    BY <1>i, <1>t, <1>s, <2>1, ThreadGoes
<1> QED
  BY <1>1, <1>2, <1>3, <1>4, <1>5 DEF Input

\* and the reply writer,
LEMMA RepliesSteps == ASSUME IInv, Replies PROVE Steps("replies")
<1>i. Control /\ ThreadsOK /\ "replies" \in Threads /\ None \notin Threads
  BY Names DEF IInv, Control
<1>t. /\ ticket \in [Threads -> Tickets \cup {None}] /\ readers \subseteq Calls
      /\ {lifecycle, authority, model_operation, writer} \subseteq Threads \cup {None}
  BY <1>i DEF ThreadsOK
<1>s. {"recv", "writer", "writing", "ended"} \subseteq Stages
  BY DEF Stages
<1>1. CASE ReceiveReplies
  <2>1. PICK stage \in {"ended", "writer"} : Go("replies", stage)
    BY <1>1 DEF ReceiveReplies
  <2>2. UNCHANGED <<request, ticket, lifecycle, authority, model_operation, writer, readers>>
    BY <1>1 DEF ReceiveReplies, locks
  <2> QED
    BY <1>i, <1>t, <1>s, <2>1, <2>2, ThreadGoes
<1>2. CASE LockWriter("replies")
  <2>1. /\ Go("replies", "writing") /\ writer' = "replies"
        /\ UNCHANGED <<request, ticket, lifecycle, authority, model_operation, readers>>
    BY <1>2 DEF LockWriter
  <2> QED
    BY <1>i, <1>t, <1>s, <2>1, ThreadGoes
<1> QED
  BY <1>1, <1>2 DEF Replies

\* whose writes return, or fail.
LEMMA WriteReturnsSteps ==
    ASSUME IInv, NEW t \in {"input", "replies"}, NEW failed \in BOOLEAN, WriteReturns(t, failed)
    PROVE  Steps(t)
<1>i. Control /\ ThreadsOK /\ t \in Threads /\ None \notin Threads
  BY Names DEF IInv, Control
<1>t. /\ ticket \in [Threads -> Tickets \cup {None}] /\ readers \subseteq Calls
      /\ {lifecycle, authority, model_operation, writer} \subseteq Threads \cup {None}
  BY <1>i DEF ThreadsOK
<1>s. {"recv", "ended"} \subseteq Stages
  BY DEF Stages
<1>1. PICK stage \in {"recv", "ended"} : Go(t, stage)
  <2> DEFINE stage == CASE t = "input" -> IF exited THEN "ended" ELSE "recv"
                        [] OTHER -> IF failed THEN "ended" ELSE "recv"
  <2>1. stage \in {"recv", "ended"}
    OBVIOUS
  <2>2. Go(t, stage)
    BY DEF WriteReturns
  <2> QED
    BY <2>1, <2>2
<1>2. writer' = None /\ UNCHANGED <<request, ticket, lifecycle, authority, model_operation, readers>>
  BY DEF WriteReturns
<1> QED
  BY <1>i, <1>t, <1>s, <1>1, <1>2, ThreadGoes

\* The rest of the world moves no thread.
World == Output \/ CloseSlave \/ EndRead \/ ForceReaderShutdown

\* It leaves the session's threads and what they share alone.
LEMMA WorldFacts == World => UNCHANGED <<threads, locks, views, sizes, input, replies>>
  BY DEF World, Output, CloseSlave, EndRead, ForceReaderShutdown

\* Every step keeps the threads in their places.
LEMMA NextControl == ASSUME IInv, [Next]_vars PROVE Control'
<1>i. Control
  BY DEF IInv
<1>1. CASE \E t \in Threads : Steps(t)
  BY <1>i, <1>1, StepsControl
<1>2. CASE UNCHANGED <<threads, locks>>
  <2>1. UNCHANGED <<request, at, ticket, lifecycle, authority, model_operation, writer, readers>>
    BY <1>2 DEF threads, locks
  <2>2. ThreadsOK'
    BY <1>i, <2>1 DEF Control, ThreadsOK
  <2>3. \A t \in Threads : (PlacedAt(t) /\ LockedAt(t))'
    BY <1>i, <2>1 DEF Control, PlacedAt, LockedAt, Resizes
  <2> QED
    BY <2>2, <2>3 DEF Control
<1>3. ASSUME NEW c \in Calls, NEW v \in Views, NEW kind \in mix.asks[c], Begin(c, kind, v)
      PROVE  Steps(c)
  <2>1. kind \in Requests
    BY TerminalIOAssumption DEF IInv, TypeOK
  <2> QED
    BY <1>3, <2>1, BeginSteps
<1>4. ASSUME World PROVE UNCHANGED <<threads, locks>>
  BY <1>4, WorldFacts
<1>5. ASSUME UNCHANGED vars PROVE UNCHANGED <<threads, locks>>
  BY <1>5 DEF vars
<1> QED
  BY <1>1, <1>2, <1>3, <1>4, <1>5, CallSteps, FramesSteps, InputSteps, RepliesSteps,
     WriteReturnsSteps, Names DEF Next, World

\* A call that is done stays so.
LEMMA DoneStays ==
    ASSUME IInv, [Next]_vars, NEW c \in Calls, at[c] = "done" PROVE at'[c] = "done"
<1>1. ASSUME NEW t \in Threads, Steps(t), t = c => at[c] # "done" PROVE at'[c] = "done"
  BY <1>1, Names DEF Steps, Moved
<1>2. ASSUME UNCHANGED threads PROVE at'[c] = "done"
  BY <1>2 DEF threads
<1>3. ASSUME NEW d \in Calls, Call(d) PROVE Steps(d) /\ at[d] # "done"
  <2>1. at[d] # "done"
    <3>1. CASE \/ AuthorizeAndEnqueue(d) \/ AutomationInput(d) \/ TrackViewSelection(d)
               \/ FailResize(d) \/ Terminate(d) \/ WriteRegistry(d) \/ Send(d)
      BY <3>1, ReturningSteps
    <3>2. CASE \/ LookUp(d) \/ EnterLifecycle(d) \/ LockModel(d) \/ AuthorizeRead(d)
               \/ AuthorizeResize(d)
      BY <3>2 DEF LookUp, EnterLifecycle, LockModel, AuthorizeRead, AuthorizeResize, Waiting
    <3>3. CASE AttachView(d) \/ DetachView(d) \/ RemoveViewSelection(d)
      BY <3>3 DEF AttachView, DetachView, RemoveViewSelection, Waiting
    <3>4. CASE Refresh(d) \/ ApplyResize(d) \/ SetColors(d)
      BY <3>4 DEF Refresh, ApplyResize, SetColors, Waiting
    <3> QED
      BY <1>3, <3>1, <3>2, <3>3, <3>4 DEF Call
  <2> QED
    BY <1>3, <2>1, CallSteps
<1>4. ASSUME NEW d \in Calls, NEW v \in Views, NEW kind \in mix.asks[d], Begin(d, kind, v)
      PROVE  Steps(d) /\ at[d] # "done"
  <2>1. kind \in Requests
    BY TerminalIOAssumption DEF IInv, TypeOK
  <2> QED
    BY <1>4, <2>1, BeginSteps DEF Begin
<1>5. ASSUME World PROVE UNCHANGED threads
  BY <1>5, WorldFacts
<1>6. ASSUME UNCHANGED vars PROVE UNCHANGED threads
  BY <1>6 DEF vars
<1> QED
  BY <1>1, <1>2, <1>3, <1>4, <1>5, <1>6, FramesSteps, InputSteps, RepliesSteps,
     WriteReturnsSteps, Names DEF Next, World

-----------------------------------------------------------------------------
(* Input. *)

\* A bounded sequence is a sequence.
LEMMA BoundedFacts ==
    ASSUME NEW S, NEW n \in Nat, NEW s
    PROVE  s \in BoundedSeq(S, n) <=> s \in Seq(S) /\ Len(s) <= n
<1>1. ASSUME s \in BoundedSeq(S, n) PROVE s \in Seq(S) /\ Len(s) <= n
  <2>1. PICK m \in 0..n : s \in [1..m -> S]
    BY <1>1 DEF BoundedSeq, SeqOf
  <2>2. s \in Seq(S) /\ Len(s) = m
    BY <2>1, IsASeq
  <2> QED
    BY <2>2
<1>2. ASSUME s \in Seq(S), Len(s) <= n PROVE s \in BoundedSeq(S, n)
  <2>1. s \in [1..Len(s) -> S] /\ Len(s) \in 0..n
    BY <1>2
  <2> QED
    BY <2>1 DEF BoundedSeq, SeqOf
<1> QED
  BY <1>1, <1>2

Operations == {"text", "scroll", "shutdown"}
Records == [by : {"human", "automation", "other"}, planned : 0..Cardinality(Calls)]

InputOK == queue \in BoundedSeq(Operations, QueueSize) /\ accepted \in Seq(Records)

\* The human inputs before the k-th.
Humans(s, k) == {j \in 1..k - 1 : s[j].by = "human"}

\* Before the end, they are all there are, and they are counted.
LEMMA HumanFacts ==
    ASSUME NEW s \in Seq(Records)
    PROVE  /\ {k \in DOMAIN s : s[k].by = "human"} = Humans(s, Len(s) + 1)
           /\ IsFiniteSet(Humans(s, Len(s) + 1))
           /\ Cardinality(Humans(s, Len(s) + 1)) \in Nat
<1>1. DOMAIN s = 1..Len(s) /\ Len(s) \in Nat
  OBVIOUS
<1>2. {k \in DOMAIN s : s[k].by = "human"} = Humans(s, Len(s) + 1)
  BY <1>1 DEF Humans
<1>3. IsFiniteSet(1..Len(s)) /\ Humans(s, Len(s) + 1) \subseteq 1..Len(s)
  BY <1>1, FS_Interval DEF Humans
<1>4. IsFiniteSet(Humans(s, Len(s) + 1))
  BY <1>3, FS_Subset
<1> QED
  BY <1>2, <1>4, FS_CardinalityType

\* The epoch is a number, before and after a step.
LEMMA EpochIsNat == (InputOK => human_input_epoch \in Nat)
                    /\ (InputOK' => human_input_epoch' \in Nat)
  BY HumanFacts DEF InputOK, human_input_epoch

\* What is queued is queued at the end, and a slot was free.
LEMMA TrySendFacts ==
    ASSUME InputOK, NEW operation \in Operations, TrySend(operation)
    PROVE  queue' \in BoundedSeq(Operations, QueueSize)
<1>1. QueueSize \in Nat
  BY TerminalIOAssumption
<1>2. queue \in Seq(Operations) /\ Len(queue) <= QueueSize
  BY <1>1, BoundedFacts DEF InputOK
<1>3. queue' \in Seq(Operations) /\ Len(queue') <= QueueSize
  <2>1. CASE Accepts
    <3>1. queue' = Append(queue, operation) /\ Len(queue) < QueueSize
      BY <2>1 DEF TrySend, Accepts
    <3>2. Append(queue, operation) \in Seq(Operations) /\ Len(Append(queue, operation)) = Len(queue) + 1
      BY <1>2
    <3> QED
      BY <1>1, <1>2, <3>1, <3>2
  <2>2. CASE ~Accepts
    BY <1>2, <2>2 DEF TrySend
  <2> QED
    BY <2>1, <2>2
<1> QED
  BY <1>1, <1>3, BoundedFacts

\* A record at the end leaves what was counted before as it was.
LEMMA EnqueueFacts ==
    ASSUME InputOK, AutomationNotOvertaken,
           NEW operation \in Operations, NEW record \in Records, Enqueue(operation, record),
           record.by = "automation" => record.planned = human_input_epoch
    PROVE  /\ InputOK' /\ AutomationNotOvertaken'
           /\ record.by = "human" => human_input_epoch' <= human_input_epoch + 1
           /\ record.by # "human" => human_input_epoch' = human_input_epoch
<1>1. queue' \in BoundedSeq(Operations, QueueSize)
  BY TrySendFacts DEF Enqueue
<1>2. accepted \in Seq(Records) /\ Len(accepted) \in Nat /\ DOMAIN accepted = 1..Len(accepted)
  BY DEF InputOK
<1> DEFINE longer == Append(accepted, record)
           n == Len(accepted)
<1>3. /\ longer \in Seq(Records) /\ Len(longer) = n + 1 /\ DOMAIN longer = 1..(n + 1)
      /\ longer[n + 1] = record /\ \A k \in 1..n : longer[k] = accepted[k]
  BY <1>2
<1> HIDE DEF longer
<1>4. accepted' = longer \/ accepted' = accepted
  BY DEF Enqueue, longer
<1>5. InputOK'
  BY <1>1, <1>2, <1>3, <1>4 DEF InputOK
<1>6. \A k \in 1..(n + 1) : Humans(longer, k) = Humans(accepted, k)
  BY <1>2, <1>3 DEF Humans
<1>7. /\ human_input_epoch = Cardinality(Humans(accepted, n + 1))
      /\ IsFiniteSet(Humans(accepted, n + 1)) /\ human_input_epoch \in Nat
      /\ human_input_epoch' = Cardinality(Humans(accepted', Len(accepted') + 1))
  BY <1>2, <1>5, HumanFacts DEF human_input_epoch, InputOK
<1>8. AutomationNotOvertaken'
  <2> SUFFICES ASSUME accepted' = longer, NEW k \in 1..(n + 1), longer[k].by = "automation"
               PROVE  longer[k].planned = Cardinality(Humans(longer, k))
    BY <1>3, <1>4 DEF AutomationNotOvertaken, Humans
  <2>1. CASE k = n + 1
    BY <1>3, <1>6, <1>7, <2>1
  <2>2. CASE k # n + 1
    <3>1. k \in 1..n
      BY <1>2, <2>2
    <3> QED
      BY <1>2, <1>3, <1>6, <3>1 DEF AutomationNotOvertaken, Humans
  <2> QED
    BY <2>1, <2>2
<1>9. CASE accepted' = longer
  <2>1. Humans(longer, n + 2) = IF record.by = "human" THEN Humans(accepted, n + 1) \cup {n + 1}
                                ELSE Humans(accepted, n + 1)
    BY <1>2, <1>3 DEF Humans
  <2>2. Len(accepted') + 1 = n + 2
    BY <1>2, <1>3, <1>9
  <2>3. Cardinality(Humans(accepted, n + 1) \cup {n + 1}) <= human_input_epoch + 1
    <3>1. \/ Cardinality(Humans(accepted, n + 1) \cup {n + 1}) = Cardinality(Humans(accepted, n + 1))
          \/ Cardinality(Humans(accepted, n + 1) \cup {n + 1}) = Cardinality(Humans(accepted, n + 1)) + 1
      BY <1>7, FS_AddElement
    <3> QED
      BY <1>7, <3>1
  <2>4. human_input_epoch' = Cardinality(Humans(longer, n + 2))
    BY <1>7, <1>9, <2>2
  <2> QED
    BY <1>5, <1>7, <1>8, <2>1, <2>3, <2>4
<1>10. CASE accepted' = accepted
  <2>1. human_input_epoch' = human_input_epoch
    BY <1>10 DEF human_input_epoch
  <2> QED
    BY <1>5, <1>7, <1>8, <2>1
<1> QED
  BY <1>4, <1>9, <1>10

\* Only these steps change what was queued.
LEMMA QuietInput ==
    ASSUME IInv, [Next]_vars
    PROVE  \/ UNCHANGED input
           \/ ReceiveInput \/ CloseReplies
           \/ \E c \in Calls : AuthorizeAndEnqueue(c) \/ AutomationInput(c) \/ Terminate(c)
<1>1. ASSUME NEW c \in Calls, Call(c)
      PROVE  UNCHANGED input \/ AuthorizeAndEnqueue(c) \/ AutomationInput(c) \/ Terminate(c)
  BY <1>1 DEF Call, LookUp, EnterLifecycle, LockModel, Send, AttachView, Refresh, DetachView,
     RemoveViewSelection, AuthorizeRead, TrackViewSelection, AuthorizeResize, ApplyResize,
     FailResize, SetColors, WriteRegistry, ExecuteUpdate
<1>2. ASSUME Frames PROVE UNCHANGED input \/ CloseReplies
  BY <1>2 DEF Frames, ReceiveOutput, HasActiveViews, LockModel, Feed, Send, MarkExited, Conclude,
     ExecuteUpdate
<1>3. ASSUME Input PROVE UNCHANGED input \/ ReceiveInput
  BY <1>3 DEF Input, LockModel, Scroll, AlternateScroll, LockWriter, ExecuteUpdate
<1>4. ASSUME Replies PROVE UNCHANGED input
  BY <1>4 DEF Replies, ReceiveReplies, LockWriter
<1>5. ASSUME NEW t \in {"input", "replies"}, NEW failed \in BOOLEAN, WriteReturns(t, failed)
      PROVE  UNCHANGED input
  BY <1>5 DEF WriteReturns
<1>6. ASSUME NEW c \in Calls, NEW v \in Views, NEW kind, Begin(c, kind, v)
      PROVE  UNCHANGED input
  BY <1>6 DEF Begin
<1>7. ASSUME World \/ UNCHANGED vars PROVE UNCHANGED input
  BY <1>7, WorldFacts DEF vars
<1> QED
  BY <1>1, <1>2, <1>3, <1>4, <1>5, <1>6, <1>7 DEF Next, World

\* Every step keeps what is known of the input.
LEMMA NextInput ==
    ASSUME IInv, [Next]_vars PROVE InputOK' /\ Typed' /\ AutomationNotOvertaken'
<1> DEFINE Done == {c \in Calls : at[c] = "done"}
<1>i. /\ InputOK /\ Typed /\ AutomationNotOvertaken /\ Control
      /\ Cardinality(Calls) \in Nat /\ IsFiniteSet(Calls)
  BY TerminalIOAssumption, FS_CardinalityType DEF IInv, TypeOK, InputOK, Operations, Records
<1>1. Done \subseteq Done'
  BY DoneStays
<1>2. IsFiniteSet(Done) /\ IsFiniteSet(Done') /\ Cardinality(Done) <= Cardinality(Done')
  <2>1. IsFiniteSet(Done) /\ IsFiniteSet(Done')
    BY <1>i, FS_Subset
  <2> HIDE DEF Done
  <2> QED
    BY <1>1, <2>1, FS_Subset
<1>3. Cardinality(Done) \in Nat /\ Cardinality(Done') \in Nat
  BY <1>2, FS_CardinalityType
<1>4. ASSUME InputOK', human_input_epoch' <= human_input_epoch PROVE Typed'
  <2>1. human_input_epoch \in Nat /\ human_input_epoch' \in Nat
    BY <1>i, <1>4, EpochIsNat
  <2> QED
    BY <1>i, <1>2, <1>3, <1>4, <2>1 DEF Typed
<1>5. CASE UNCHANGED accepted /\ queue' \in BoundedSeq(Operations, QueueSize)
  <2>1. InputOK' /\ human_input_epoch' = human_input_epoch /\ AutomationNotOvertaken'
    BY <1>i, <1>5 DEF InputOK, human_input_epoch, AutomationNotOvertaken
  <2> QED
    BY <1>i, <1>4, <2>1, EpochIsNat
<1>6. CASE UNCHANGED input
  BY <1>5, <1>6, <1>i DEF input, InputOK
<1>7. CASE ReceiveInput
  <2>1. queue # <<>> /\ queue' = Tail(queue) /\ UNCHANGED accepted
    BY <1>7 DEF ReceiveInput
  <2>2. queue \in Seq(Operations) /\ Len(queue) <= QueueSize /\ QueueSize \in Nat
    BY <1>i, BoundedFacts, TerminalIOAssumption DEF InputOK
  <2>3. Tail(queue) \in Seq(Operations) /\ Len(Tail(queue)) = Len(queue) - 1 /\ Len(queue) \in Nat
    BY <2>1, <2>2
  <2>4. Len(Tail(queue)) <= QueueSize
    BY <2>2, <2>3
  <2>5. queue' \in BoundedSeq(Operations, QueueSize)
    BY <2>1, <2>2, <2>3, <2>4, BoundedFacts
  <2> QED
    BY <1>5, <2>1, <2>5
<1>8. CASE CloseReplies
  <2>1. TrySend("shutdown") /\ UNCHANGED accepted
    BY <1>8 DEF CloseReplies
  <2> QED
    BY <1>i, <1>5, <2>1, TrySendFacts DEF Operations
<1>9. ASSUME NEW operation \in Operations, NEW record \in Records, Enqueue(operation, record),
             record.by = "automation" => record.planned = human_input_epoch, record.by # "human"
      PROVE  InputOK' /\ Typed' /\ AutomationNotOvertaken'
  <2>1. /\ InputOK' /\ AutomationNotOvertaken' /\ human_input_epoch' = human_input_epoch
        /\ human_input_epoch \in Nat
    BY <1>i, <1>9, EnqueueFacts, EpochIsNat
  <2> QED
    BY <1>4, <2>1
<1>10. ASSUME NEW c \in Calls, AuthorizeAndEnqueue(c)
       PROVE  InputOK' /\ Typed' /\ AutomationNotOvertaken'
  <2> DEFINE human == [by |-> "human", planned |-> 0]
             other == [by |-> "other", planned |-> 0]
  <2>1. human \in Records /\ other \in Records
    BY <1>i DEF Records
  <2>2. CASE Enqueue("scroll", other)
    BY <1>9, <2>1, <2>2 DEF Operations
  <2>3. CASE Enqueue("text", human)
    <3>1. /\ InputOK' /\ AutomationNotOvertaken' /\ human_input_epoch' <= human_input_epoch + 1
          /\ human_input_epoch \in Nat
      BY <1>i, <2>1, <2>3, EnqueueFacts, EpochIsNat DEF Operations
    <3>2. human_input_epoch' \in Nat
      BY <3>1, EpochIsNat
    <3>3. c \notin Done /\ c \in Done'
      BY <1>10, ReturningSteps
    <3>4. Cardinality(Done \cup {c}) = Cardinality(Done) + 1 /\ IsFiniteSet(Done \cup {c})
      <4> HIDE DEF Done
      <4> QED
        BY <1>2, <3>3, FS_AddElement
    <3>5. Cardinality(Done \cup {c}) <= Cardinality(Done')
      <4>1. Done \cup {c} \subseteq Done'
        BY <1>1, <3>3
      <4> HIDE DEF Done
      <4> QED
        BY <1>2, <4>1, FS_Subset
    <3>6. human_input_epoch <= Cardinality(Done)
      BY <1>i DEF Typed
    <3> HIDE DEF Done
    <3>7. human_input_epoch' <= Cardinality(Done')
      BY <1>3, <3>1, <3>2, <3>4, <3>5, <3>6
    <3> QED
      BY <3>1, <3>7 DEF Typed, Done
  <2>4. CASE UNCHANGED input
    BY <1>6, <2>4
  <2> QED
    BY <1>10, <2>2, <2>3, <2>4 DEF AuthorizeAndEnqueue
<1>11. ASSUME NEW c \in Calls, AutomationInput(c)
       PROVE  InputOK' /\ Typed' /\ AutomationNotOvertaken'
  <2> DEFINE record == [by |-> "automation", planned |-> request[c].planned]
  <2>1. at[c] = "lifecycle" /\ PlacedAt(c)
    BY <1>11, <1>i, Names DEF AutomationInput, Waiting, Control
  <2>2. record \in Records
    BY <2>1 DEF PlacedAt, Records
  <2>3. CASE AcceptsAutomation(c)
    <3>1. Enqueue("text", record)
      BY <1>11, <2>3 DEF AutomationInput
    <3> QED
      BY <1>9, <2>2, <2>3, <3>1 DEF Operations, AcceptsAutomation
  <2>4. CASE ~AcceptsAutomation(c)
    BY <1>6, <1>11, <2>4 DEF AutomationInput
  <2> QED
    BY <2>3, <2>4
<1>12. ASSUME NEW c \in Calls, Terminate(c)
       PROVE  InputOK' /\ Typed' /\ AutomationNotOvertaken'
  <2> DEFINE record == [by |-> "other", planned |-> 0]
  <2>1. record \in Records
    BY <1>i DEF Records
  <2>2. UNCHANGED input \/ Enqueue("text", record)
    BY <1>12 DEF Terminate
  <2> QED
    BY <1>6, <1>9, <2>1, <2>2 DEF Operations
<1> QED
  BY <1>6, <1>7, <1>8, <1>10, <1>11, <1>12, QuietInput

-----------------------------------------------------------------------------
(* Views and sizes. *)

\* A call stays where it is, begins or gets on.
LEMMA CallMoves ==
    ASSUME IInv, [Next]_vars, NEW d \in Calls
    PROVE  \/ at'[d] = at[d] /\ request'[d] = request[d]
           \/ Call(d) /\ Steps(d)
           \/ /\ \E v \in Views : \E kind \in mix.asks[d] : Begin(d, kind, v)
              /\ at[d] = "idle" /\ at'[d] \in {"registry", "write", "authority"}
<1>1. ASSUME NEW t \in Threads \ {d}, Steps(t) PROVE at'[d] = at[d] /\ request'[d] = request[d]
  BY <1>1, Names DEF Steps, Moved
<1>2. ASSUME UNCHANGED threads PROVE at'[d] = at[d] /\ request'[d] = request[d]
  BY <1>2 DEF threads
<1>3. ASSUME NEW c \in Calls, NEW v \in Views, NEW kind \in mix.asks[c], Begin(c, kind, v)
      PROVE  Steps(c) /\ at[c] = "idle" /\ at'[c] \in {"registry", "write", "authority"}
  <2>1. kind \in Requests
    BY TerminalIOAssumption DEF IInv, TypeOK
  <2> DEFINE stage == IF kind \in {"write", "select"} THEN First(kind) ELSE "registry"
  <2>2. Go(c, stage) /\ at[c] = "idle"
    BY <1>3 DEF Begin
  <2>3. stage \in {"registry", "write", "authority"}
    BY <2>1, KindFacts
  <2> HIDE DEF stage
  <2>4. at'[c] = stage
    BY <2>2, <2>3, GoFacts, Names DEF IInv, Control, Stages
  <2> QED
    BY <1>3, <2>1, <2>2, <2>3, <2>4, BeginSteps
<1>4. ASSUME World \/ UNCHANGED vars PROVE UNCHANGED threads
  BY <1>4, WorldFacts DEF vars
<1>5. CASE \E c \in Calls, v \in Views : \E kind \in mix.asks[c] : Begin(c, kind, v)
  BY <1>1, <1>3, <1>5, Names
<1>6. CASE \E c \in Calls : Call(c)
  BY <1>1, <1>6, CallSteps, Names
<1>7. CASE Frames \/ Input \/ Replies
           \/ \E t \in {"input", "replies"}, failed \in BOOLEAN : WriteReturns(t, failed)
  BY <1>1, <1>7, FramesSteps, InputSteps, RepliesSteps, WriteReturnsSteps, Names
<1>8. CASE World \/ UNCHANGED vars
  BY <1>2, <1>4, <1>8
<1> QED
  BY <1>5, <1>6, <1>7, <1>8 DEF Next, World

\* Only these steps change the views or their selections,
LEMMA QuietViews ==
    ASSUME [Next]_vars
    PROVE  \/ UNCHANGED views
           \/ \E c \in Calls : \/ AttachView(c) \/ DetachView(c) \/ RemoveViewSelection(c)
                               \/ TrackViewSelection(c)
<1>1. ASSUME NEW c \in Calls, Call(c)
      PROVE  \/ UNCHANGED views \/ AttachView(c) \/ DetachView(c) \/ RemoveViewSelection(c)
             \/ TrackViewSelection(c)
  BY <1>1 DEF Call, LookUp, EnterLifecycle, LockModel, Send, Refresh, AuthorizeAndEnqueue,
     AutomationInput, AuthorizeRead, AuthorizeResize, ApplyResize, FailResize, SetColors,
     WriteRegistry, Terminate
<1>2. ASSUME Frames PROVE UNCHANGED views
  BY <1>2 DEF Frames, ReceiveOutput, HasActiveViews, LockModel, Feed, Send, MarkExited, Conclude,
     CloseReplies
<1>3. ASSUME Input PROVE UNCHANGED views
  BY <1>3 DEF Input, ReceiveInput, LockModel, Scroll, AlternateScroll, LockWriter
<1>4. ASSUME Replies PROVE UNCHANGED views
  BY <1>4 DEF Replies, ReceiveReplies, LockWriter
<1>5. ASSUME NEW t \in {"input", "replies"}, NEW failed \in BOOLEAN, WriteReturns(t, failed)
      PROVE  UNCHANGED views
  BY <1>5 DEF WriteReturns
<1>6. ASSUME NEW c \in Calls, NEW v \in Views, NEW kind, Begin(c, kind, v)
      PROVE  UNCHANGED views
  BY <1>6 DEF Begin
<1>7. ASSUME World \/ UNCHANGED vars PROVE UNCHANGED views
  BY <1>7, WorldFacts DEF vars
<1> QED
  BY <1>1, <1>2, <1>3, <1>4, <1>5, <1>6, <1>7 DEF Next, World

\* and only these a size; others may take a snapshot of the terminal.
Rendered == Snapshot(FALSE) /\ UNCHANGED <<size, resizing, model_size, pty_size, split>>

LEMMA QuietSizes ==
    ASSUME [Next]_vars
    PROVE  \/ Rendered
           \/ \E c \in Calls : AuthorizeResize(c) \/ ApplyResize(c) \/ FailResize(c) \/ Send(c)
<1>u. UNCHANGED sizes => Rendered
  BY DEF sizes, terminal, Rendered, Snapshot
<1>1. ASSUME NEW c \in Calls, Call(c)
      PROVE  \/ Rendered \/ AuthorizeResize(c) \/ ApplyResize(c) \/ FailResize(c) \/ Send(c)
  <2>1. CASE \/ LookUp(c) \/ EnterLifecycle(c) \/ LockModel(c) \/ AuthorizeAndEnqueue(c)
             \/ AutomationInput(c) \/ AttachView(c) \/ DetachView(c) \/ RemoveViewSelection(c)
             \/ AuthorizeRead(c) \/ TrackViewSelection(c) \/ Terminate(c) \/ WriteRegistry(c)
    BY <1>u, <2>1 DEF LookUp, EnterLifecycle, LockModel, AuthorizeAndEnqueue, AutomationInput,
       AttachView, DetachView, RemoveViewSelection, AuthorizeRead, TrackViewSelection,
       Terminate, WriteRegistry
  <2>2. CASE Refresh(c) \/ SetColors(c)
    BY <2>2 DEF Refresh, SetColors, ExecuteUpdate, Commit, Waiting, Rendered, Snapshot
  <2> QED
    BY <1>1, <2>1, <2>2 DEF Call
<1>2. ASSUME Frames PROVE Rendered
  <2>1. CASE Feed
    BY <2>1, Names DEF Feed, ExecuteUpdate, Commit, Rendered, Snapshot
  <2>2. CASE ~Feed
    <3>1. UNCHANGED sizes
      BY <1>2, <2>2, Names DEF Frames, ReceiveOutput, HasActiveViews, LockModel, Send, MarkExited,
         Conclude, CloseReplies, Commit, sizes
    <3> QED
      BY <1>u, <3>1
  <2> QED
    BY <2>1, <2>2
<1>3. ASSUME Input PROVE Rendered
  <2>1. CASE Scroll
    BY <2>1, Names DEF Scroll, ExecuteUpdate, Commit, Rendered, Snapshot
  <2>2. CASE ~Scroll
    BY <1>3, <1>u, <2>2 DEF Input, ReceiveInput, LockModel, AlternateScroll, LockWriter
  <2> QED
    BY <2>1, <2>2
<1>4. ASSUME Replies PROVE Rendered
  BY <1>u, <1>4 DEF Replies, ReceiveReplies, LockWriter
<1>5. ASSUME NEW t \in {"input", "replies"}, NEW failed \in BOOLEAN, WriteReturns(t, failed)
      PROVE  Rendered
  BY <1>u, <1>5 DEF WriteReturns
<1>6. ASSUME NEW c \in Calls, NEW v \in Views, NEW kind, Begin(c, kind, v)
      PROVE  Rendered
  BY <1>u, <1>6 DEF Begin
<1>7. ASSUME World \/ UNCHANGED vars PROVE Rendered
  BY <1>u, <1>7, WorldFacts DEF vars
<1> QED
  BY <1>1, <1>2, <1>3, <1>4, <1>5, <1>6, <1>7 DEF Next, World

\* A removal stays ahead until it is made.
LEMMA RemovalAhead ==
    ASSUME IInv, [Next]_vars, NEW d \in Calls, ~RemoveViewSelection(d),
           request[d].kind \in {"detach", "terminate"}, at[d] \in {"model", "update"}
    PROVE  /\ request'[d] = request[d] /\ at'[d] \in {"model", "update"}
<1>1. CASE Call(d) /\ Steps(d)
  <2>1. LockModel(d)
    BY <1>1 DEF Call, LookUp, EnterLifecycle, Send, AuthorizeAndEnqueue, AutomationInput,
       AttachView, Refresh, DetachView, AuthorizeRead, TrackViewSelection, AuthorizeResize,
       ApplyResize, FailResize, SetColors, Terminate, WriteRegistry, Waiting
  <2>2. Go(d, "update") /\ request' = request
    BY <2>1 DEF LockModel
  <2>3. at'[d] = "update"
    BY <2>2, GoFacts, Names DEF IInv, Control, Stages
  <2> QED
    BY <2>2, <2>3
<1> QED
  BY <1>1, CallMoves

\* Every step keeps what is known of the views: a detach can take a view away
\* from a fenced read only once that has the model, before the removal.
LEMMA NextViews ==
    ASSUME IInv, [Next]_vars
    PROVE  Selecting' /\ SelectionsAttached' /\ {attached', selected', unfenced'} \subseteq SUBSET Views
<1>i. /\ Control /\ Selecting /\ SelectionsAttached
      /\ attached \subseteq Views /\ selected \subseteq Views /\ unfenced \subseteq Views
  BY DEF IInv, TypeOK
<1>p. \A t \in Threads : PlacedAt(t) /\ LockedAt(t)
  BY <1>i DEF Control
<1>0. Calls \subseteq Threads /\ None \notin Threads
  BY Names
<1>1. \A v : Removing(v) =>
          \/ Removing(v)'
          \/ \E d \in Calls : RemoveViewSelection(d) /\ request[d].view = v
  <2> SUFFICES ASSUME NEW v, NEW d \in Calls, request[d].view = v,
                      request[d].kind \in {"detach", "terminate"}, at[d] \in {"model", "update"},
                      ~RemoveViewSelection(d)
               PROVE  Removing(v)'
    BY DEF Removing
  <2> QED
    BY RemovalAhead DEF Removing
<1>2. ASSUME NEW c \in Calls, RemoveViewSelection(c)
      PROVE  model_operation = c /\ UNCHANGED <<attached, unfenced>>
             /\ selected' = selected \ {request[c].view}
  BY <1>0, <1>2, <1>p DEF RemoveViewSelection, Waiting, LockedAt
<1>3. ASSUME NEW c \in Calls, DetachView(c), NEW v \in attached, request[c].view = v
      PROVE  Removing(v)'
  <2>1. Go(c, "model") /\ request' = request /\ request[c].kind \in {"detach", "terminate"}
    BY <1>3 DEF DetachView, Waiting
  <2>2. at'[c] = "model"
    BY <2>1, <1>i, <1>0, GoFacts DEF Control, Stages
  <2> QED
    BY <1>3, <2>1, <2>2 DEF Removing
<1>4. ASSUME NEW c \in Calls, DetachView(c)
      PROVE  /\ authority = None /\ attached' = attached \ {request[c].view}
             /\ UNCHANGED <<selected, unfenced>>
  BY <1>4 DEF DetachView
<1>5. ASSUME NEW c \in Calls, AttachView(c)
      PROVE  /\ attached' = attached \cup {request[c].view} /\ request[c].view \in Views
             /\ UNCHANGED <<selected, unfenced>>
  BY <1>5, <1>p, <1>0 DEF AttachView, Waiting, PlacedAt
<1>6. ASSUME NEW c \in Calls, TrackViewSelection(c)
      PROVE  /\ selected' = selected \cup {request[c].view} /\ request[c].view \in Views
             /\ unfenced' = unfenced \cup (IF request[c].kind = "unfenced"
                                           THEN {request[c].view} ELSE {})
             /\ UNCHANGED attached
             /\ request[c].kind = "unfenced" \/ request[c].view \in attached
                \/ Removing(request[c].view)
  <2>1. at[c] = "update" /\ request[c].kind \in {"select", "unfenced"}
    BY <1>6 DEF TrackViewSelection, Waiting
  <2>2. request[c].view \in Views
    BY <2>1, <1>p, <1>0 DEF PlacedAt
  <2>3. request[c].kind = "unfenced" \/ request[c].view \in attached \/ Removing(request[c].view)
    BY <2>1, <1>i DEF Selecting
  <2> QED
    BY <1>6, <2>2, <2>3 DEF TrackViewSelection
<1>7. {attached', selected', unfenced'} \subseteq SUBSET Views
  BY <1>i, <1>2, <1>4, <1>5, <1>6, QuietViews DEF views
<1>8. ASSUME NEW v \in attached PROVE v \in attached' \/ (Removing(v)' /\ authority = None)
  <2>1. CASE UNCHANGED views
    BY <1>8, <2>1 DEF views
  <2>2. CASE \E c \in Calls : AttachView(c) \/ RemoveViewSelection(c) \/ TrackViewSelection(c)
    BY <1>2, <1>5, <1>6, <1>8, <2>2
  <2>3. CASE \E c \in Calls : DetachView(c)
    BY <1>3, <1>4, <1>8, <2>3
  <2> QED
    BY <2>1, <2>2, <2>3, QuietViews
<1>9. SelectionsAttached'
  <2> SUFFICES ASSUME NEW v \in (selected' \ attached') \ unfenced' PROVE Removing(v)'
    BY DEF SelectionsAttached, Removing
  <2>1. v \notin attached \/ Removing(v)'
    BY <1>8
  <2>2. CASE v \in (selected \ attached) \ unfenced
    <3>1. Removing(v)
      BY <1>i, <2>2 DEF SelectionsAttached, Removing
    <3>2. ~\E d \in Calls : RemoveViewSelection(d) /\ request[d].view = v
      BY <1>2
    <3> QED
      BY <1>1, <3>1, <3>2
  <2>3. CASE v \notin attached /\ v \notin (selected \ attached) \ unfenced
    <3>1. v \notin unfenced
      BY <1>2, <1>4, <1>5, <1>6, QuietViews DEF views
    <3>2. v \notin selected
      BY <2>3, <3>1
    <3>3. PICK c \in Calls : TrackViewSelection(c) /\ request[c].view = v
      BY <1>2, <1>4, <1>5, <1>6, <3>2, QuietViews DEF views
    <3>4. Removing(v)
      BY <1>6, <2>3, <3>3
    <3>5. ~\E d \in Calls : RemoveViewSelection(d)
      BY <1>2, <1>6, <3>2, <3>3
    <3> QED
      BY <1>1, <3>4, <3>5
  <2> QED
    BY <2>1, <2>2, <2>3
<1>10. Selecting'
  <2> SUFFICES ASSUME NEW c \in Calls, request'[c].kind = "select",
                      at'[c] \in {"model", "update"}, NEW v, v = request'[c].view
               PROVE  v \in attached' \/ (at'[c] # "model" /\ Removing(v)')
    BY DEF Selecting, Removing
  <2>1. CASE at'[c] = at[c] /\ request'[c] = request[c]
    <3>1. CASE at[c] = "model"
      <4>1. authority = c /\ request[c].view \in attached
        BY <1>i, <1>p, <1>0, <2>1, <3>1 DEF LockedAt, Selecting
      <4> QED
        BY <1>0, <1>8, <2>1, <3>1, <4>1
    <3>2. CASE at[c] = "update"
      <4>1. model_operation = c
        BY <1>p, <1>0, <3>2 DEF LockedAt
      <4>2. request[c].view \in attached \/ Removing(request[c].view)
        BY <1>i, <2>1, <3>2 DEF Selecting
      <4>3. ~RemoveViewSelection(c)
        BY <2>1, <3>2 DEF RemoveViewSelection, Waiting
      <4>4. ~\E d \in Calls : RemoveViewSelection(d)
        BY <1>2, <4>1, <4>3
      <4> QED
        BY <1>1, <1>8, <2>1, <3>2, <4>2, <4>4
    <3> QED
      BY <2>1, <3>1, <3>2
  <2>2. CASE Call(c) /\ Steps(c)
    <3>1. CASE LockModel(c)
      <4>1. at[c] = "model" /\ Go(c, "update") /\ UNCHANGED <<request, views>>
        BY <3>1 DEF LockModel
      <4>2. at'[c] = "update" /\ attached' = attached
        BY <4>1, <1>i, <1>0, GoFacts DEF Control, Stages, views
      <4>3. request[c].view \in attached
        BY <1>i, <4>1 DEF Selecting
      <4> QED
        BY <4>1, <4>2, <4>3
    <3>2. CASE AuthorizeRead(c)
      <4>1. at'[c] # "done"
        OBVIOUS
      <4>2. ~Return(c)
        BY <4>1, <1>i, <1>0, ReturnFacts DEF Control
      <4>3. request[c].view \in attached /\ Go(c, "model") /\ UNCHANGED <<request, views>>
        BY <3>2, <4>2 DEF AuthorizeRead
      <4> QED
        BY <4>3, <1>i, <1>0, GoFacts DEF Control, Stages, views
    <3>3. CASE ~LockModel(c) /\ ~AuthorizeRead(c)
      <4>1. ASSUME NEW stage \in Stages, Go(c, stage) PROVE at'[c] = stage
        BY <1>i, <1>0, <4>1, GoFacts DEF Control
      <4>2. ASSUME Return(c) PROVE FALSE
        BY <1>i, <1>0, <4>2, ReturnFacts DEF Control
      <4>3. CASE LookUp(c)
        <5>1. request[c].kind \in Requests /\ request' = request
          BY <4>3, <1>p, <1>0 DEF LookUp, PlacedAt
        <5>2. Go(c, First(request[c].kind)) \/ Go(c, "authority")
          BY <4>3 DEF LookUp
        <5>3. {First(request[c].kind), "authority"} \subseteq Stages
          BY <5>1, KindFacts DEF Stages
        <5> QED
          BY <5>1, <5>2, <5>3, <4>1, KindFacts
      <4>4. CASE EnterLifecycle(c)
        BY <4>4, <4>1 DEF EnterLifecycle, Stages
      <4>5. CASE \/ AuthorizeAndEnqueue(c) \/ AutomationInput(c) \/ TrackViewSelection(c)
                 \/ FailResize(c) \/ Terminate(c) \/ WriteRegistry(c) \/ Send(c)
        BY <4>5, ReturningSteps
      <4>6. CASE AttachView(c) \/ DetachView(c) \/ RemoveViewSelection(c) \/ AuthorizeResize(c)
        <5>1. request[c].kind # "select"
          BY <4>6 DEF AttachView, DetachView, RemoveViewSelection, AuthorizeResize, Waiting
        <5>2. request' = request
          BY <4>2, <4>6 DEF AttachView, DetachView, RemoveViewSelection, AuthorizeResize, Detached
        <5> QED
          BY <5>1, <5>2
      <4>7. CASE Refresh(c) \/ ApplyResize(c) \/ SetColors(c)
        <5>1. request[c].kind # "select"
          BY <4>7 DEF Refresh, ApplyResize, SetColors, Waiting
        <5>2. request' = request
          BY <4>2, <4>7 DEF Refresh, ApplyResize, SetColors, ExecuteUpdate
        <5> QED
          BY <5>1, <5>2
      <4> QED
        BY <2>2, <3>3, <4>3, <4>4, <4>5, <4>6, <4>7 DEF Call
    <3> QED
      BY <3>1, <3>2, <3>3
  <2> QED
    BY <2>1, <2>2, CallMoves
<1> QED
  BY <1>7, <1>9, <1>10

\* A call hands a reply over while the size it applied waits to be committed.
Committing(c) == Resizes(c) /\ at[c] = "sending"

\* What a call does while it gives a size.
LEMMA ResizeFacts ==
    ASSUME IInv, NEW c \in Calls,
           AuthorizeResize(c) \/ ApplyResize(c) \/ FailResize(c) \/ Send(c)
    PROVE  /\ \A d \in Calls \ {c} : Committing(d)' <=> Committing(d)
           /\ ApplyResize(c) =>
                  \/ Committing(c)' /\ size' = size
                  \/ ~Committing(c)' /\ size' = resizing
           /\ ~ApplyResize(c) => ~Committing(c)'
           /\ Committing(c) \/ ApplyResize(c) \/ FailResize(c) =>
                  \A d \in Calls \ {c} : ~Committing(d)
           /\ AuthorizeResize(c) => \A d \in Calls : ~Committing(d)
           /\ Committing(c) => Send(c)
           /\ Send(c) /\ Committing(c) => size' = resizing
           /\ Send(c) /\ ~Committing(c) => size' = size
<1>i. Control /\ ThreadsOK /\ c \in Threads /\ None \notin Threads /\ Calls \subseteq Threads
  BY Names DEF IInv, Control
<1>l. /\ \A d \in Calls : Committing(d) => authority = d
      /\ Resizes(c) /\ at[c] = "update" => authority = c
  BY <1>i DEF Control, LockedAt, Committing
<1>1. Steps(c)
  BY WaitingSteps, UpdatingSteps, ReturningSteps
<1>2. \A d \in Calls \ {c} : Committing(d)' <=> Committing(d)
  BY <1>1, <1>i DEF Steps, Moved, Committing, Resizes
<1>3. ASSUME Return(c) PROVE ~Committing(c)'
  BY <1>3, <1>i, ReturnFacts DEF Committing
<1>4. ASSUME ApplyResize(c)
      PROVE  /\ at[c] = "update" /\ Resizes(c)
             /\ \/ Committing(c)' /\ size' = size
                \/ ~Committing(c)' /\ size' = resizing
  <2>1. /\ at[c] = "update" /\ Resizes(c)
        /\ \E reply \in BOOLEAN : ExecuteUpdate(c, reply)
    BY <1>4 DEF ApplyResize, Waiting, Resizes
  <2>2. CASE Return(c) /\ Commit(c)
    BY <1>3, <2>1, <2>2 DEF Commit, Resizes
  <2>3. CASE Go(c, "sending") /\ UNCHANGED <<request, size>>
    BY <1>i, <2>1, <2>3, GoFacts DEF Stages, Committing, Resizes
  <2> QED
    BY <2>1, <2>2, <2>3 DEF ExecuteUpdate
<1>5. ASSUME FailResize(c) PROVE at[c] = "update" /\ Resizes(c) /\ ~Committing(c)'
  BY <1>3, <1>5 DEF FailResize, Waiting, Resizes
<1>6. ASSUME AuthorizeResize(c)
      PROVE  at[c] = "authority" /\ authority = None /\ ~Committing(c)'
  <2>1. at[c] = "authority" /\ authority = None
    BY <1>6 DEF AuthorizeResize, Waiting
  <2>2. CASE Return(c)
    BY <1>3, <2>1, <2>2
  <2>3. CASE Go(c, "model")
    BY <1>i, <2>1, <2>3, GoFacts DEF Stages, Committing
  <2> QED
    BY <1>6, <2>1, <2>2, <2>3 DEF AuthorizeResize
<1>7. ASSUME Send(c)
      PROVE  /\ at[c] = "sending" /\ ~Committing(c)'
             /\ Committing(c) => size' = resizing
             /\ ~Committing(c) => size' = size
  BY <1>3, <1>7 DEF Send, Commit, Committing, Resizes
<1>8. Committing(c) => Send(c)
  BY <1>4, <1>5, <1>6 DEF Committing
<1>9. Committing(c) \/ ApplyResize(c) \/ FailResize(c) => \A d \in Calls \ {c} : ~Committing(d)
  BY <1>l, <1>4, <1>5
<1>10. AuthorizeResize(c) => \A d \in Calls : ~Committing(d)
  BY <1>l, <1>6, <1>i
<1> QED
  BY <1>2, <1>4, <1>5, <1>6, <1>7, <1>8, <1>9, <1>10

\* Every step keeps what is known of the sizes.
LEMMA NextSizes == ASSUME IInv, [Next]_vars PROVE Sized' /\ SizesOK'
<1> DEFINE Kept ==
       \/ split
       \/ refusals = 2
       \/ /\ refusals = 0 => metadata = model_size
          /\ model_size = pty_size
          /\ \/ size = model_size /\ \A c \in Calls : ~Committing(c)
             \/ model_size = resizing /\ \E c \in Calls : Committing(c)
<1>i. SizesOK /\ Kept
  BY DEF IInv, TypeOK, Sized, SizesOK, Committing
<1>s. Kept' => Sized'
  BY DEF Sized, Committing
<1>1. ASSUME NEW c \in Calls,
             AuthorizeResize(c) \/ ApplyResize(c) \/ FailResize(c) \/ Send(c)
      PROVE  Sized' /\ SizesOK'
  <2> HIDE DEF Committing
  <2>f. /\ \A d \in Calls \ {c} : Committing(d)' <=> Committing(d)
        /\ ApplyResize(c) =>
               \/ Committing(c)' /\ size' = size
               \/ ~Committing(c)' /\ size' = resizing
        /\ ~ApplyResize(c) => ~Committing(c)'
        /\ Committing(c) \/ ApplyResize(c) \/ FailResize(c) => \A d \in Calls \ {c} : ~Committing(d)
        /\ AuthorizeResize(c) => \A d \in Calls : ~Committing(d)
        /\ Committing(c) => Send(c)
        /\ Send(c) /\ Committing(c) => size' = resizing
        /\ Send(c) /\ ~Committing(c) => size' = size
    BY <1>1, ResizeFacts
  <2>1. CASE ApplyResize(c)
    <3>1. /\ pty_size' = resizing /\ model_size' = resizing /\ metadata' = resizing
          /\ split' = FALSE /\ refusals' = 0 /\ resizing' = resizing
      BY <2>1 DEF ApplyResize
    <3>2. SizesOK'
      <4>1. {size, resizing} \subseteq Sizes
        BY <1>i DEF SizesOK
      <4>2. size' \in {size, resizing}
        BY <2>1, <2>f
      <4>3. {size', model_size', pty_size', resizing', metadata'} \subseteq Sizes
        BY <3>1, <4>1, <4>2
      <4>4. split' \in BOOLEAN
        BY <3>1
      <4>5. refusals' \in 0..2
        BY <3>1
      <4> QED
        BY <4>3, <4>4, <4>5 DEF SizesOK
    <3>3. Kept'
      BY <2>1, <2>f, <3>1
    <3> QED
      BY <1>s, <3>2, <3>3
  <2>2. CASE FailResize(c) /\ ~ApplyResize(c)
    <3>1. resizing' = size /\ size' = size
      BY <2>2 DEF FailResize
    <3>2. ~Send(c)
      BY <2>2 DEF FailResize, Send, Waiting
    <3>3. /\ \A d \in Calls : ~Committing(d)'
          /\ \A d \in Calls : ~Committing(d)
      BY <2>2, <2>f, <3>2
    <3>4. CASE UNCHANGED terminal
      <4>1. UNCHANGED <<model_size, pty_size, metadata, split, refusals>>
        BY <3>4 DEF terminal
      <4>2. SizesOK'
        BY <1>i, <3>1, <4>1 DEF SizesOK
      <4>3. Kept'
        BY <1>i, <3>1, <3>3, <4>1
      <4> QED
        BY <1>s, <4>2, <4>3
    <3>5. CASE ~UNCHANGED terminal
      <4>1. PICK undone \in BOOLEAN, restored \in BOOLEAN :
               /\ FailModelResize(undone)
               /\ pty_size' = IF restored THEN size ELSE resizing
               /\ split' = (split \/ ~undone \/ ~restored)
               /\ refusals' = IF refusals = 0 THEN 1 ELSE 2
        BY <2>2, <3>5 DEF FailResize
      <4>2. /\ metadata' \in {metadata, resizing}
            /\ model_size' \in {model_size, metadata, resizing}
            /\ undone => model_size' \in {model_size, metadata}
        BY <4>1 DEF FailModelResize
      <4>3. SizesOK'
        <5>1. {size', model_size', pty_size', resizing', metadata'} \subseteq Sizes
          BY <1>i, <3>1, <4>1, <4>2 DEF SizesOK
        <5>2. split' \in BOOLEAN /\ refusals' \in 0..2
          BY <4>1
        <5> QED
          BY <5>1, <5>2 DEF SizesOK
      <4>4. Kept'
        <5>1. CASE split' \/ refusals # 0
          BY <4>1, <5>1
        <5>2. CASE ~split' /\ refusals = 0
          <6>1. ~split /\ undone /\ restored /\ refusals' = 1
            BY <4>1, <5>2
          <6>2. metadata = size /\ model_size = size
            BY <1>i, <3>3, <5>2, <6>1
          <6>3. model_size' = size' /\ pty_size' = size'
            BY <3>1, <4>1, <4>2, <6>1, <6>2
          <6> QED
            BY <3>3, <6>1, <6>3
        <5> QED
          BY <5>1, <5>2
      <4> QED
        BY <1>s, <4>3, <4>4
    <3> QED
      BY <3>4, <3>5
  <2>3. CASE AuthorizeResize(c) /\ ~ApplyResize(c)
    <3>1. /\ resizing' \in Sizes
          /\ UNCHANGED <<size, model_size, pty_size, metadata, split, refusals>>
      BY <1>i, <2>3 DEF AuthorizeResize, terminal, SizesOK
    <3>2. \A d \in Calls : ~Committing(d)' /\ ~Committing(d)
      BY <2>3, <2>f
    <3>3. SizesOK'
      BY <1>i, <3>1 DEF SizesOK
    <3>4. Kept'
      BY <1>i, <3>1, <3>2
    <3> QED
      BY <1>s, <3>3, <3>4
  <2>4. CASE Send(c) /\ ~ApplyResize(c)
    <3>1. UNCHANGED <<model_size, pty_size, metadata, resizing, split, refusals>>
      BY <2>4 DEF Send, terminal
    <3>2. SizesOK'
      BY <1>i, <2>4, <2>f, <3>1 DEF SizesOK
    <3>3. CASE Committing(c)
      <4>1. size' = resizing /\ \A d \in Calls : ~Committing(d)'
        BY <2>4, <2>f, <3>3
      <4>2. Kept'
        BY <1>i, <3>1, <3>3, <4>1
      <4> QED
        BY <1>s, <3>2, <4>2
    <3>4. CASE ~Committing(c)
      <4>1. size' = size /\ \A d \in Calls : Committing(d)' <=> Committing(d)
        BY <2>4, <2>f, <3>4
      <4>2. Kept'
        BY <1>i, <3>1, <4>1
      <4> QED
        BY <1>s, <3>2, <4>2
    <3> QED
      BY <3>3, <3>4
  <2> QED
    BY <1>1, <2>1, <2>2, <2>3, <2>4
<1>2. ASSUME Rendered,
             ~\E c \in Calls : AuthorizeResize(c) \/ ApplyResize(c) \/ FailResize(c) \/ Send(c)
      PROVE  Sized'
  <2>1. ASSUME NEW d \in Calls PROVE Committing(d)' <=> Committing(d)
    <3>1. CASE at'[d] = at[d] /\ request'[d] = request[d]
      BY <3>1 DEF Committing, Resizes
    <3>2. CASE at[d] = "idle" /\ at'[d] \in {"registry", "write", "authority"}
      BY <3>2 DEF Committing
    <3>3. CASE Call(d) /\ Steps(d)
      <4>i. ThreadsOK /\ d \in Threads
        BY Names DEF IInv, Control
      <4>1. ~Committing(d)
        <5>1. at[d] # "sending"
          BY <1>2, <3>3 DEF Call, LookUp, EnterLifecycle, LockModel, AuthorizeAndEnqueue,
             AutomationInput, AttachView, Refresh, DetachView, RemoveViewSelection, AuthorizeRead,
             TrackViewSelection, SetColors, Terminate, WriteRegistry, Waiting
        <5> QED
          BY <5>1 DEF Committing
      <4>2. ~Committing(d)'
        <5>1. CASE ~SetColors(d)
          <6>1. at'[d] # "sending"
            <7>1. ASSUME NEW stage \in Stages \ {"sending"}, Go(d, stage) PROVE at'[d] # "sending"
              BY <4>i, <7>1, GoFacts
            <7>2. ASSUME Return(d) PROVE at'[d] # "sending"
              BY <4>i, <7>2, ReturnFacts
            <7>3. CASE LookUp(d)
              <8>1. request[d].kind \in Requests
                BY <4>i, <7>3 DEF IInv, Control, PlacedAt, LookUp
              <8>2. {First(request[d].kind), "authority"} \subseteq Stages \ {"sending"}
                BY <8>1, KindFacts DEF Stages
              <8> QED
                BY <7>1, <7>3, <8>2 DEF LookUp
            <7>4. CASE EnterLifecycle(d) \/ LockModel(d) \/ AttachView(d)
              BY <7>1, <7>4 DEF EnterLifecycle, LockModel, AttachView, Stages
            <7>5. CASE \/ AuthorizeAndEnqueue(d) \/ AutomationInput(d) \/ TrackViewSelection(d)
                       \/ Terminate(d) \/ WriteRegistry(d)
              BY <7>2, <7>5 DEF AuthorizeAndEnqueue, AutomationInput, TrackViewSelection, Terminate,
                 WriteRegistry
            <7>6. CASE Refresh(d)
              BY <7>2, <7>6 DEF Refresh, ExecuteUpdate
            <7>7. CASE DetachView(d) \/ RemoveViewSelection(d)
              BY <7>1, <7>2, <7>7 DEF DetachView, RemoveViewSelection, Detached, Stages
            <7>8. CASE AuthorizeRead(d)
              BY <7>1, <7>2, <7>8 DEF AuthorizeRead, Stages
            <7> QED
              BY <1>2, <3>3, <5>1, <7>3, <7>4, <7>5, <7>6, <7>7, <7>8 DEF Call
          <6> QED
            BY <6>1 DEF Committing
        <5>2. CASE SetColors(d)
          <6>1. request[d].kind = "colors"
            BY <5>2 DEF SetColors, Waiting
          <6>2. request' = request \/ Return(d)
            BY <5>2 DEF SetColors, ExecuteUpdate
          <6>3. CASE request' = request
            BY <6>1, <6>3 DEF Committing, Resizes
          <6>4. CASE Return(d)
            BY <4>i, <6>4, ReturnFacts DEF Committing
          <6> QED
            BY <6>2, <6>3, <6>4
        <5> QED
          BY <5>1, <5>2
      <4> QED
        BY <4>1, <4>2
    <3> QED
      BY <3>1, <3>2, <3>3, CallMoves
  <2> HIDE DEF Committing
  <2>2. /\ UNCHANGED <<size, model_size, pty_size, resizing, split>>
        /\ \/ metadata' = model_size /\ refusals' = IF refusals = 1 THEN 0 ELSE refusals
           \/ UNCHANGED <<metadata, refusals>>
    BY <1>2 DEF Rendered, Snapshot
  <2>3. Kept'
    BY <1>i, <2>1, <2>2
  <2> QED
    BY <1>s, <2>3
<1>3. ASSUME Rendered PROVE SizesOK'
  BY <1>i, <1>3 DEF Rendered, Snapshot, SizesOK
<1> QED
  BY <1>1, <1>2, <1>3, QuietSizes

-----------------------------------------------------------------------------
(* Replies. *)

RepliesOK ==
    /\ pending \in Seq(Nat) /\ taken \in Seq(Nat) /\ delivered \in Seq(Nat)
    /\ next_ticket \in 0..mix.replies /\ next_send \in 0..mix.replies
    /\ mix \in Mixes /\ mix.replies \in Nat
    /\ overflowed \in BOOLEAN /\ closed \in BOOLEAN /\ draining \in BOOLEAN

\* A thread has prepared the next reply and goes to hand it over.
Issues(t) ==
    /\ Steps(t) /\ at[t] # "sending"
    /\ next_ticket < mix.replies /\ next_ticket' = next_ticket + 1
    /\ ticket' = [ticket EXCEPT ![t] = next_ticket]

\* Nobody has.
NoneIssued ==
    /\ next_ticket' = next_ticket
    /\ \A u \in Threads : at'[u] = "sending" => at[u] = "sending" /\ ticket'[u] = ticket[u]

\* The queue of replies is as it was.
Undisturbed ==
    /\ UNCHANGED <<pending, overflowed, taken, delivered, next_send, draining, closed>>
    /\ at'["replies"] = "recv" => at["replies"] = "recv"

\* What an update does to the tickets.
LEMMA UpdateIssues ==
    ASSUME IInv, NEW t \in Threads, Steps(t), at[t] = "update", NEW reply \in BOOLEAN,
           ExecuteUpdate(t, reply)
    PROVE  Issues(t) \/ NoneIssued
<1>i. ThreadsOK
  BY DEF IInv, Control
<1>1. CASE reply
  BY <1>1 DEF ExecuteUpdate, Issues
<1>2. CASE ~reply
  <2>1. Return(t) /\ UNCHANGED <<next_ticket, ticket>>
    BY <1>2 DEF ExecuteUpdate
  <2>2. at'[t] # "sending"
    BY <1>i, <2>1, ReturnFacts DEF Threads
  <2> QED
    BY <2>1, <2>2 DEF NoneIssued, Steps, Moved
<1> QED
  BY <1>1, <1>2

\* A step that is no update gets no thread to hand a reply over.
LEMMA OtherIssues ==
    ASSUME IInv, NEW t \in Threads, Steps(t), at[t] # "sending", UNCHANGED <<next_ticket, ticket>>,
           \/ Return(t)
           \/ \E stage \in Stages \ {"sending"} : Go(t, stage)
    PROVE  NoneIssued
<1>i. ThreadsOK
  BY DEF IInv, Control
<1>1. at'[t] # "sending"
  <2>1. CASE Return(t)
    BY <1>i, <2>1, ReturnFacts DEF Threads
  <2>2. ASSUME NEW stage \in Stages \ {"sending"}, Go(t, stage) PROVE at'[t] # "sending"
    BY <1>i, <2>2, GoFacts
  <2> QED
    BY <2>1, <2>2
<1> QED
  BY <1>1 DEF NoneIssued, Steps, Moved

\* Calls issue tickets or none, and hand replies over.
LEMMA CallReplies ==
    ASSUME IInv, NEW c \in Calls, Call(c)
    PROVE  \/ Send(c)
           \/ (Issues(c) \/ NoneIssued) /\ (Undisturbed \/ Terminate(c))
<1>i. /\ ThreadsOK /\ c \in Threads /\ Steps(c) /\ PlacedAt(c)
      /\ "replies" \in Threads \ {c}
  BY CallSteps, Names DEF IInv, Control
<1>r. at'["replies"] = at["replies"]
  BY <1>i DEF Steps, Moved
<1>1. CASE LookUp(c)
  <2>1. request[c].kind \in Requests
    BY <1>i, <1>1 DEF LookUp, PlacedAt
  <2>2. {First(request[c].kind), "authority"} \subseteq Stages \ {"sending"}
    BY <2>1, KindFacts DEF Stages
  <2>3. at[c] # "sending" /\ UNCHANGED replies
        /\ \E stage \in Stages \ {"sending"} : Go(c, stage)
    BY <1>1, <2>2 DEF LookUp
  <2>4. UNCHANGED ticket
    BY <1>1 DEF LookUp
  <2> QED
    BY <1>i, <1>r, <2>3, <2>4, OtherIssues DEF replies, batches, Undisturbed
<1>2. CASE \/ EnterLifecycle(c) \/ LockModel(c) \/ AttachView(c) \/ DetachView(c)
           \/ RemoveViewSelection(c) \/ AuthorizeRead(c) \/ AuthorizeResize(c)
  <2>1. at[c] # "sending"
    BY <1>2 DEF EnterLifecycle, LockModel, AttachView, DetachView, RemoveViewSelection,
       AuthorizeRead, AuthorizeResize, Waiting
  <2>2. UNCHANGED replies /\ UNCHANGED ticket
    BY <1>2 DEF EnterLifecycle, LockModel, AttachView, DetachView, RemoveViewSelection,
       AuthorizeRead, AuthorizeResize
  <2>3. Return(c) \/ \E stage \in {"authority", "update", "model", "terminate"} : Go(c, stage)
    BY <1>2 DEF EnterLifecycle, LockModel, AttachView, DetachView, RemoveViewSelection,
       AuthorizeRead, AuthorizeResize, Detached
  <2>4. {"authority", "update", "model", "terminate"} \subseteq Stages \ {"sending"}
    BY DEF Stages
  <2> QED
    BY <1>i, <1>r, <2>1, <2>2, <2>3, <2>4, OtherIssues DEF replies, batches, Undisturbed
<1>3. CASE \/ AuthorizeAndEnqueue(c) \/ AutomationInput(c) \/ TrackViewSelection(c)
           \/ FailResize(c) \/ WriteRegistry(c)
  <2>1. at[c] # "sending" /\ Return(c) /\ UNCHANGED <<ticket, replies>>
    BY <1>3 DEF AuthorizeAndEnqueue, AutomationInput, TrackViewSelection, FailResize,
       WriteRegistry, Waiting
  <2> QED
    BY <1>i, <1>r, <2>1, OtherIssues DEF replies, batches, Undisturbed
<1>4. CASE Terminate(c)
  <2>1. at[c] # "sending" /\ Return(c) /\ UNCHANGED <<ticket, next_ticket>>
    BY <1>4 DEF Terminate, Waiting
  <2> QED
    BY <1>i, <1>4, <2>1, OtherIssues
<1>5. CASE Refresh(c) \/ ApplyResize(c) \/ SetColors(c)
  <2>1. PICK reply \in BOOLEAN : ExecuteUpdate(c, reply) /\ at[c] = "update"
    BY <1>5 DEF Refresh, ApplyResize, SetColors, Waiting
  <2>2. UNCHANGED <<batches, next_send, draining, closed>>
    BY <2>1 DEF ExecuteUpdate
  <2> QED
    BY <1>i, <1>r, <2>1, <2>2, UpdateIssues DEF batches, Undisturbed
<1> QED
  BY <1>1, <1>2, <1>3, <1>4, <1>5 DEF Call

\* So does the frame thread;
LEMMA FramesReplies ==
    ASSUME IInv, Frames
    PROVE  \/ Send("frames")
           \/ (Issues("frames") \/ NoneIssued) /\ (Undisturbed \/ CloseReplies)
<1>i. /\ ThreadsOK /\ "frames" \in Threads /\ Steps("frames") /\ "replies" \in Threads
  BY FramesSteps, Names DEF IInv, Control
<1>r. at'["replies"] = at["replies"]
  BY <1>i DEF Steps, Moved
<1>1. CASE ReceiveOutput \/ HasActiveViews \/ MarkExited \/ Conclude \/ LockModel("frames")
  <2>1. at["frames"] # "sending" /\ UNCHANGED <<ticket, replies>>
    BY <1>1 DEF ReceiveOutput, HasActiveViews, MarkExited, Conclude, LockModel
  <2>2. \E stage \in {"look", "model", "write", "exited", "concluded", "update"} : Go("frames", stage)
    BY <1>1 DEF ReceiveOutput, HasActiveViews, MarkExited, Conclude, LockModel
  <2>3. {"look", "model", "write", "exited", "concluded", "update"} \subseteq Stages \ {"sending"}
    BY DEF Stages
  <2> QED
    BY <1>i, <1>r, <2>1, <2>2, <2>3, OtherIssues DEF replies, batches, Undisturbed
<1>2. CASE CloseReplies
  <2>1. at["frames"] # "sending" /\ UNCHANGED <<ticket, next_ticket>> /\ Go("frames", "final")
    BY <1>2 DEF CloseReplies
  <2>2. "final" \in Stages \ {"sending"}
    BY DEF Stages
  <2> QED
    BY <1>i, <1>2, <2>1, <2>2, OtherIssues
<1>3. CASE Feed
  <2>1. PICK reply \in BOOLEAN : ExecuteUpdate("frames", reply) /\ at["frames"] = "update"
    BY <1>3 DEF Feed
  <2>2. UNCHANGED <<batches, next_send, draining, closed>>
    BY <2>1 DEF ExecuteUpdate
  <2> QED
    BY <1>i, <1>r, <2>1, <2>2, UpdateIssues DEF batches, Undisturbed
<1> QED
  BY <1>1, <1>2, <1>3 DEF Frames

\* nobody else issues one.
LEMMA NextReplies ==
    ASSUME IInv, [Next]_vars
    PROVE  \/ \E t \in Threads : Send(t) /\ Steps(t) /\ t # "replies"
           \/ /\ \/ \E t \in Threads : Issues(t)
                 \/ NoneIssued
              /\ \/ Undisturbed
                 \/ CloseReplies \/ ReceiveReplies
                 \/ \E c \in Calls : Terminate(c)
                 \/ \E failed \in BOOLEAN : WriteReturns("replies", failed)
<1>i. ThreadsOK /\ Calls \subseteq Threads /\ {"frames", "input", "replies"} \subseteq Threads
  BY Names DEF IInv, Control
<1>s. {"recv", "model", "update", "writer", "writing", "ended"} \subseteq Stages \ {"sending"}
  BY DEF Stages
<1>1. CASE Input
  <2>1. Steps("input") /\ at'["replies"] = at["replies"] /\ UNCHANGED replies
    BY <1>1, <1>i, InputSteps DEF Steps, Moved, Input, ReceiveInput, LockModel, Scroll,
       AlternateScroll, LockWriter, ExecuteUpdate, replies
  <2>2. at["input"] # "sending" /\ UNCHANGED ticket
    BY <1>1 DEF Input, ReceiveInput, LockModel, Scroll, AlternateScroll, LockWriter, ExecuteUpdate
  <2>3. Return("input") \/ \E stage \in Stages \ {"sending"} : Go("input", stage)
    <3>1. CASE ReceiveInput
      <4> DEFINE stage == CASE Head(queue) = "shutdown" \/ exited -> "ended"
                            [] Head(queue) = "scroll" -> "model"
                            [] OTHER -> "writer"
      <4>1. stage \in {"ended", "model", "writer"}
        OBVIOUS
      <4>2. Go("input", stage)
        BY <3>1 DEF ReceiveInput
      <4> QED
        BY <1>s, <4>1, <4>2
    <3>2. CASE LockModel("input") \/ AlternateScroll \/ LockWriter("input")
      BY <1>s, <3>2 DEF LockModel, AlternateScroll, LockWriter
    <3>3. CASE Scroll
      BY <3>3 DEF Scroll, ExecuteUpdate
    <3> QED
      BY <1>1, <3>1, <3>2, <3>3 DEF Input
  <2> QED
    BY <1>i, <2>1, <2>2, <2>3, OtherIssues DEF replies, batches, Undisturbed
<1>2. CASE Replies
  <2>1. Steps("replies")
    BY <1>2, RepliesSteps
  <2>2. at["replies"] # "sending" /\ UNCHANGED <<ticket, next_ticket>>
        /\ \E stage \in {"ended", "writer", "writing"} : Go("replies", stage)
    BY <1>2 DEF Replies, ReceiveReplies, LockWriter, replies
  <2>3. NoneIssued
    BY <1>i, <1>s, <2>1, <2>2, OtherIssues
  <2>4. CASE LockWriter("replies")
    <3>1. Go("replies", "writing") /\ UNCHANGED replies
      BY <2>4 DEF LockWriter
    <3>2. at'["replies"] = "writing"
      BY <1>i, <1>s, <3>1, GoFacts
    <3> QED
      BY <2>3, <3>1, <3>2 DEF replies, batches, Undisturbed
  <2> QED
    BY <1>2, <2>3, <2>4 DEF Replies
<1>3. ASSUME NEW t \in {"input", "replies"}, NEW failed \in BOOLEAN, WriteReturns(t, failed)
      PROVE  NoneIssued /\ (Undisturbed \/ WriteReturns("replies", failed))
  <2>1. Steps(t)
    BY <1>3, WriteReturnsSteps
  <2>2. at[t] # "sending" /\ UNCHANGED <<ticket, next_ticket>>
    BY <1>3 DEF WriteReturns
  <2>3. PICK stage \in {"recv", "ended"} : Go(t, stage)
    <3> DEFINE stage == CASE t = "input" -> IF exited THEN "ended" ELSE "recv"
                          [] OTHER -> IF failed THEN "ended" ELSE "recv"
    <3>1. stage \in {"recv", "ended"}
      OBVIOUS
    <3>2. Go(t, stage)
      BY <1>3 DEF WriteReturns
    <3> QED
      BY <3>1, <3>2
  <2>4. NoneIssued
    BY <1>i, <1>s, <2>1, <2>2, <2>3, OtherIssues
  <2>5. CASE t = "input"
    <3>1. UNCHANGED <<pending, overflowed, taken, delivered, next_send, draining, closed>>
      BY <1>3, <2>5 DEF WriteReturns
    <3>2. at'["replies"] = at["replies"]
      BY <1>i, <2>1, <2>5 DEF Steps, Moved
    <3> QED
      BY <2>4, <3>1, <3>2 DEF Undisturbed
  <2> QED
    BY <1>3, <2>4, <2>5
<1>4. ASSUME NEW c \in Calls, NEW v \in Views, NEW kind \in mix.asks[c], Begin(c, kind, v)
      PROVE  NoneIssued /\ Undisturbed
  <2>1. kind \in Requests
    BY TerminalIOAssumption DEF IInv, TypeOK
  <2>2. Steps(c)
    BY <1>4, <2>1, BeginSteps
  <2>3. at[c] = "idle" /\ UNCHANGED <<ticket, replies>>
        /\ Go(c, IF kind \in {"write", "select"} THEN First(kind) ELSE "registry")
    BY <1>4 DEF Begin
  <2>4. {First(kind), "registry"} \subseteq Stages \ {"sending"}
    BY <2>1, KindFacts DEF Stages
  <2>5. at'["replies"] = at["replies"]
    BY <1>i, <2>2, Names DEF Steps, Moved
  <2> QED
    BY <1>i, <2>2, <2>3, <2>4, <2>5, OtherIssues DEF replies, batches, Undisturbed
<1>5. ASSUME World \/ UNCHANGED vars PROVE NoneIssued /\ Undisturbed
  BY <1>5, WorldFacts DEF vars, threads, replies, batches, NoneIssued, Undisturbed
<1> QED
  BY <1>i, <1>1, <1>2, <1>3, <1>4, <1>5, CallReplies, CallSteps, FramesReplies, FramesSteps, Names
     DEF Next, World

\* The rest of the state keeps its type, and the mix stays.
StateOK ==
    /\ mix \in Mixes
    /\ {exited, termination_started, read_ended, forced} \subseteq BOOLEAN
    /\ chunks \in 0..MaxChunks /\ slave \in {"open", "closed"}

\* Every step keeps it.
LEMMA NextState == ASSUME IInv, [Next]_vars PROVE StateOK' /\ mix' = mix
<1>i. StateOK /\ MaxChunks \in Nat \ {0}
  BY TerminalIOAssumption DEF IInv, TypeOK, StateOK
<1>1. ASSUME UNCHANGED <<mix, chunks, read_ended, slave, forced, exited>>,
             termination_started' \in BOOLEAN
      PROVE  StateOK' /\ mix' = mix
  BY <1>i, <1>1 DEF StateOK
<1>2. ASSUME NEW c \in Calls, Call(c)
      PROVE  /\ UNCHANGED <<mix, chunks, read_ended, slave, forced, exited>>
             /\ termination_started' \in BOOLEAN
  <2>1. CASE ~Terminate(c)
    <3>1. UNCHANGED <<pty, exited, termination_started>>
      BY <1>2, <2>1 DEF Call, LookUp, EnterLifecycle, LockModel, Send, AuthorizeAndEnqueue,
         AutomationInput, AttachView, Refresh, DetachView, RemoveViewSelection, AuthorizeRead,
         TrackViewSelection, AuthorizeResize, ApplyResize, FailResize, SetColors, WriteRegistry,
         ExecuteUpdate
    <3> QED
      BY <1>i, <3>1 DEF pty, StateOK
  <2>2. CASE Terminate(c)
    BY <1>i, <2>2 DEF Terminate, pty, StateOK
  <2> QED
    BY <2>1, <2>2
<1>3. CASE Frames
  <2>1. CASE ReceiveOutput
    BY <1>i, <2>1 DEF ReceiveOutput, StateOK
  <2>2. CASE MarkExited
    BY <1>i, <2>2 DEF MarkExited, StateOK, pty
  <2>3. CASE HasActiveViews \/ LockModel("frames") \/ CloseReplies \/ Conclude \/ Feed \/ Send("frames")
    <3>1. UNCHANGED <<pty, exited, termination_started>>
      BY <2>3 DEF HasActiveViews, LockModel, CloseReplies, Conclude, Feed, Send, ExecuteUpdate
    <3> QED
      BY <1>i, <3>1 DEF pty, StateOK
  <2> QED
    BY <1>3, <2>1, <2>2, <2>3 DEF Frames
<1>4. ASSUME \/ Input \/ Replies \/ UNCHANGED vars
             \/ \E t \in {"input", "replies"}, failed \in BOOLEAN : WriteReturns(t, failed)
             \/ \E c \in Calls, v \in Views : \E kind \in mix.asks[c] : Begin(c, kind, v)
      PROVE  StateOK' /\ mix' = mix
  <2>1. UNCHANGED <<pty, exited, termination_started>>
    BY <1>4 DEF Input, ReceiveInput, LockModel, Scroll, AlternateScroll, LockWriter, ExecuteUpdate,
       Replies, ReceiveReplies, WriteReturns, Begin, vars
  <2> QED
    BY <1>i, <2>1 DEF pty, StateOK
<1>5. CASE World
  <2>1. CASE Output
    <3>1. /\ chunks' = chunks + 1 /\ chunks < MaxChunks
          /\ UNCHANGED <<mix, read_ended, slave, forced, exited, termination_started>>
      BY <2>1 DEF Output
    <3>2. chunks' \in 0..MaxChunks
      BY <1>i, <3>1 DEF StateOK
    <3> QED
      BY <1>i, <3>1, <3>2 DEF StateOK
  <2>2. CASE CloseSlave
    BY <1>i, <2>2 DEF CloseSlave, StateOK
  <2>3. CASE EndRead
    BY <1>i, <2>3 DEF EndRead, StateOK
  <2>4. CASE ForceReaderShutdown
    BY <1>i, <2>4 DEF ForceReaderShutdown, StateOK
  <2> QED
    BY <1>5, <2>1, <2>2, <2>3, <2>4 DEF World
<1> QED
  BY <1>1, <1>2, <1>3, <1>4, <1>5 DEF Next, World

\* Two ordered sequences, one before the other, are ordered together.
LEMMA ConcatSorted ==
    ASSUME NEW s \in Seq(Nat), NEW r \in Seq(Nat), Sorted(s), Sorted(r), Before(s, r)
    PROVE  /\ s \o r \in Seq(Nat) /\ Sorted(s \o r)
           /\ \A q \in Seq(Nat) : Before(s, q) /\ Before(r, q) => Before(s \o r, q)
           /\ \A n \in Nat : /\ \A k \in DOMAIN s : s[k] < n
                             /\ \A k \in DOMAIN r : r[k] < n
                             => \A k \in DOMAIN (s \o r) : (s \o r)[k] < n
<1> DEFINE all == s \o r
           m == Len(s)
           l == Len(r)
<1>1. /\ all \in Seq(Nat) /\ Len(all) = m + l /\ m \in Nat /\ l \in Nat
      /\ \A i \in 1..m : all[i] = s[i] /\ s[i] \in Nat
      /\ \A i \in (m + 1)..(m + l) : all[i] = r[i - m]
      /\ \A i \in 1..l : r[i] \in Nat
  BY ConcatProperties, LenProperties, ElementOfSeq
<1>2. DOMAIN s = 1..m /\ DOMAIN r = 1..l /\ DOMAIN all = 1..(m + l)
  BY <1>1, LenProperties
<1> HIDE DEF all, m, l
<1>3. \A i \in DOMAIN all : \/ i \in DOMAIN s /\ all[i] = s[i]
                            \/ i - m \in DOMAIN r /\ all[i] = r[i - m]
  BY <1>1, <1>2
<1>4. Sorted(all)
  <2> SUFFICES ASSUME NEW j \in DOMAIN all, NEW k \in DOMAIN all, j < k PROVE all[j] < all[k]
    BY DEF Sorted
  <2>0. j \in 1..(m + l) /\ k \in 1..(m + l)
    BY <1>2
  <2>1. CASE k <= m
    <3>1. j \in 1..m /\ k \in 1..m
      BY <1>1, <2>0, <2>1
    <3>2. s[j] < s[k] /\ all[j] = s[j] /\ all[k] = s[k]
      BY <1>1, <1>2, <3>1 DEF Sorted
    <3> QED
      BY <3>2
  <2>2. CASE j <= m /\ k > m
    <3>1. j \in DOMAIN s /\ k - m \in DOMAIN r /\ all[j] = s[j] /\ all[k] = r[k - m]
      BY <1>1, <1>2, <2>0, <2>2
    <3> QED
      BY <3>1 DEF Before
  <2>3. CASE j > m
    <3>0. m \in Nat /\ l \in Nat
      BY <1>1
    <3>1. /\ j - m \in 1..l /\ k - m \in 1..l /\ j - m < k - m
          /\ j \in (m + 1)..(m + l) /\ k \in (m + 1)..(m + l)
      BY <2>0, <2>3, <3>0
    <3>2. all[j] = r[j - m] /\ all[k] = r[k - m]
      BY <1>1, <3>1
    <3>3. r[j - m] < r[k - m]
      BY <1>2, <3>1 DEF Sorted
    <3> QED
      BY <3>2, <3>3
  <2> QED
    BY <1>1, <2>0, <2>1, <2>2, <2>3
<1>5. ASSUME NEW q \in Seq(Nat), Before(s, q), Before(r, q) PROVE Before(all, q)
  BY <1>3, <1>5 DEF Before
<1>6. ASSUME NEW n \in Nat, \A k \in DOMAIN s : s[k] < n, \A k \in DOMAIN r : r[k] < n
      PROVE  \A k \in DOMAIN all : all[k] < n
  BY <1>3, <1>6
<1> QED
  BY <1>1, <1>4, <1>5, <1>6 DEF all

\* Nothing is in order with anything.
LEMMA EmptyFacts ==
    /\ <<>> \in Seq(Nat) /\ Sorted(<<>>) /\ Contiguous(<<>>)
    /\ \A s \in Seq(Nat) : Before(s, <<>>) /\ Before(<<>>, s)
    /\ \A n : \A k \in DOMAIN <<>> : <<>>[k] < n
<1>1. DOMAIN <<>> = {} /\ Len(<<>>) = 0 /\ <<>> \in Seq(Nat)
  OBVIOUS
<1>2. 1..(0 - 1) = {}
  OBVIOUS
<1> QED
  BY <1>1, <1>2 DEF Sorted, Contiguous, Before

\* A larger number goes at the end.
LEMMA AppendSorted ==
    ASSUME NEW s \in Seq(Nat), NEW n \in Nat, Sorted(s), \A k \in DOMAIN s : s[k] < n
    PROVE  /\ Append(s, n) \in Seq(Nat) /\ Append(s, n) # <<>> /\ Sorted(Append(s, n))
           /\ \A q \in Seq(Nat) : Before(q, s) /\ (\A k \in DOMAIN q : q[k] < n)
                                      => Before(q, Append(s, n))
           /\ \A k \in DOMAIN Append(s, n) : Append(s, n)[k] < n + 1
           /\ Append(s, n)[Len(Append(s, n))] = n
           /\ Contiguous(s) /\ (s # <<>> => s[Len(s)] + 1 = n) => Contiguous(Append(s, n))
<1> DEFINE all == Append(s, n)
           m == Len(s)
<1>1. /\ all \in Seq(Nat) /\ all # <<>> /\ Len(all) = m + 1 /\ m \in Nat /\ m = Len(s)
      /\ DOMAIN s = 1..m /\ DOMAIN all = 1..(m + 1)
      /\ all[m + 1] = n /\ \A k \in 1..m : all[k] = s[k] /\ s[k] \in Nat
      /\ s # <<>> <=> m # 0
  OBVIOUS
<1> HIDE DEF all, m
<1>2. Sorted(all)
  <2> SUFFICES ASSUME NEW j \in 1..(m + 1), NEW k \in 1..(m + 1), j < k PROVE all[j] < all[k]
    BY <1>1 DEF Sorted
  <2>1. j \in 1..m /\ all[j] = s[j]
    BY <1>1
  <2>2. CASE k = m + 1
    BY <1>1, <2>1, <2>2
  <2>3. CASE k # m + 1
    <3>1. k \in 1..m /\ all[k] = s[k]
      BY <1>1, <2>3
    <3> QED
      BY <1>1, <2>1, <3>1 DEF Sorted
  <2> QED
    BY <2>2, <2>3
<1>3. ASSUME NEW q \in Seq(Nat), Before(q, s), \A k \in DOMAIN q : q[k] < n PROVE Before(q, all)
  <2> SUFFICES ASSUME NEW j \in DOMAIN q, NEW k \in 1..(m + 1) PROVE q[j] < all[k]
    BY <1>1 DEF Before
  <2>1. CASE k = m + 1
    BY <1>1, <1>3, <2>1
  <2>2. CASE k # m + 1
    <3>1. k \in 1..m /\ all[k] = s[k]
      BY <1>1, <2>2
    <3> QED
      BY <1>1, <1>3, <3>1 DEF Before
  <2> QED
    BY <2>1, <2>2
<1>4. \A k \in DOMAIN all : all[k] < n + 1
  <2> SUFFICES ASSUME NEW k \in 1..(m + 1) PROVE all[k] < n + 1
    BY <1>1
  <2>1. CASE k = m + 1
    BY <1>1, <2>1
  <2>2. CASE k # m + 1
    <3>1. k \in 1..m
      BY <1>1, <2>2
    <3>2. all[k] = s[k] /\ s[k] \in Nat /\ s[k] < n
      BY <1>1, <3>1
    <3> QED
      BY <3>2
  <2> QED
    BY <2>1, <2>2
<1>5. ASSUME Contiguous(s), s # <<>> => s[Len(s)] + 1 = n PROVE Contiguous(all)
  <2> SUFFICES ASSUME NEW k \in 1..Len(all) - 1 PROVE all[k + 1] = all[k] + 1
    BY DEF Contiguous
  <2>1. CASE k = m
    BY <1>1, <1>5, <2>1
  <2>2. CASE k # m
    <3>1. k \in 1..m - 1 /\ all[k] = s[k] /\ all[k + 1] = s[k + 1]
      BY <1>1, <2>2
    <3> QED
      BY <1>1, <1>5, <3>1 DEF Contiguous
  <2> QED
    BY <2>1, <2>2
<1> QED
  BY <1>1, <1>2, <1>3, <1>4, <1>5 DEF all

\* What Complete says of the replies, step by step.
Upto(n) == [k \in 1..n |-> k - 1]

\* One more reply, a batch that is taken and one that is written leave it so.
LEMMA CompleteFacts ==
    ASSUME NEW d \in Seq(Nat), NEW t \in Seq(Nat), NEW p \in Seq(Nat), NEW n \in Nat,
           (d \o t) \o p = Upto(n)
    PROVE  /\ Len(p) = 0 => (d \o t) \o Append(p, n) = Upto(n + 1)
           /\ t = <<>> => (d \o p) \o <<>> = Upto(n)
           /\ ((d \o t) \o <<>>) \o p = Upto(n)
<1> DEFINE a == d \o t
<1>1. a \in Seq(Nat) /\ a \o <<>> = a /\ d \o <<>> = d
  BY ConcatProperties, ConcatEmptySeq
<1>2. ASSUME Len(p) = 0 PROVE a \o Append(p, n) = Upto(n + 1)
  <2> HIDE DEF a
  <2>0. p = <<>>
    BY <1>2, EmptySeq
  <2>1. a = Upto(n)
    BY <1>1, <2>0 DEF a
  <2>2. Append(a, n) = a \o <<n>> /\ Append(p, n) = <<n>>
    BY <1>1, <2>0, AppendIsConcat
  <2>3. DOMAIN Upto(n) = 1..n /\ Len(a) = n
    BY <1>1, <2>1 DEF Upto
  <2>4. Append(a, n) = Upto(n + 1)
    <3>1. /\ Append(a, n) \in Seq(Nat) /\ Len(Append(a, n)) = n + 1
          /\ Append(a, n)[n + 1] = n /\ \A k \in 1..n : Append(a, n)[k] = a[k]
      BY <1>1, <2>3
    <3>2. \A k \in 1..(n + 1) : Append(a, n)[k] = k - 1
      <4> SUFFICES ASSUME NEW k \in 1..(n + 1) PROVE Append(a, n)[k] = k - 1
        OBVIOUS
      <4>1. CASE k = n + 1
        BY <3>1, <4>1
      <4>2. CASE k # n + 1
        <5>1. k \in 1..n
          BY <4>2
        <5> QED
          BY <2>1, <3>1, <5>1 DEF Upto
      <4> QED
        BY <4>1, <4>2
    <3>3. Append(a, n) = [k \in 1..(n + 1) |-> Append(a, n)[k]]
      <4> DEFINE b == Append(a, n)
      <4> HIDE DEF b
      <4>1. b \in Seq(Nat) /\ Len(b) = n + 1
        BY <3>1 DEF b
      <4>2. b \in [1..(n + 1) -> Nat]
        BY <4>1, LenProperties
      <4>3. b = [k \in 1..(n + 1) |-> b[k]]
        BY <4>2
      <4> QED
        BY <4>3 DEF b
    <3> QED
      BY <3>2, <3>3 DEF Upto
  <2> QED
    BY <2>2, <2>4
<1>3. ASSUME t = <<>> PROVE (d \o p) \o <<>> = Upto(n)
  <2>1. d \o p \in Seq(Nat) /\ (d \o p) \o <<>> = d \o p
    BY ConcatProperties, ConcatEmptySeq
  <2> QED
    BY <1>1, <1>3, <2>1
<1> QED
  BY <1>1, <1>2, <1>3

\* RepliesOK is a part of the invariant.
LEMMA RepliesTyped == IInv => RepliesOK
<1> SUFFICES ASSUME IInv PROVE RepliesOK
  OBVIOUS
<1>1. mix \in Mixes /\ mix.replies \in Nat
  BY TerminalIOAssumption DEF IInv, TypeOK
<1> QED
  BY <1>1 DEF IInv, TypeOK, RepliesOK, Batch, Tickets

\* Tickets stay apart, and ahead of the turn.
LEMMA NextTickets ==
    ASSUME IInv, [Next]_vars
    PROVE  Ticketed' /\ next_ticket' \in 0..mix.replies /\ next_send' \in 0..mix.replies
           /\ closed' \in BOOLEAN
<1>i. RepliesOK /\ Ticketed /\ ThreadsOK
  BY RepliesTyped DEF IInv, Control
<1>n. next_send \in Nat /\ next_ticket \in Nat /\ mix.replies \in Nat
      /\ next_send <= mix.replies /\ next_ticket <= mix.replies /\ next_send <= next_ticket
  BY <1>i DEF RepliesOK, Ticketed
<1>1. ASSUME NEW t \in Threads, Send(t), Steps(t), t # "replies"
      PROVE  Ticketed' /\ next_ticket' \in 0..mix.replies /\ next_send' \in 0..mix.replies
             /\ closed' \in BOOLEAN
  <2>1. /\ at[t] = "sending" /\ ticket' = [ticket EXCEPT ![t] = None] /\ Return(t)
        /\ UNCHANGED <<next_ticket, closed>>
        /\ ticket[t] \in Nat /\ ticket[t] < next_ticket
    BY <1>1, <1>i DEF Send, Ticketed
  <2>2. /\ at'[t] # "sending"
        /\ \A u \in Threads \ {t} : at'[u] = at[u] /\ ticket'[u] = ticket[u]
    <3>1. at'[t] # "sending"
      BY <1>1, <1>i, <2>1, ReturnFacts DEF Threads
    <3> QED
      BY <1>1, <1>i, <2>1, <3>1 DEF Steps, Moved, ThreadsOK
  <2>3. CASE closed
    <3>1. next_send' = next_send
      BY <1>1, <2>3 DEF Send
    <3> QED
      BY <1>i, <1>n, <2>1, <2>2, <2>3, <3>1 DEF Ticketed
  <2>4. CASE ~closed
    <3>1. next_send' = next_send + 1 /\ ticket[t] = next_send
      BY <1>1, <2>4 DEF Send, MaySend
    <3>2. \A u \in Threads : at'[u] = "sending" =>
             /\ ticket[u] \in Nat /\ ticket[u] < next_ticket /\ next_send <= ticket[u]
             /\ ticket[u] # ticket[t] /\ ticket'[u] = ticket[u] /\ at[u] = "sending" /\ u # t
      BY <1>i, <2>1, <2>2, <2>4 DEF Ticketed
    <3>3. \A u \in Threads : at'[u] = "sending" =>
             /\ ticket'[u] \in Nat /\ ticket'[u] < next_ticket' /\ next_send' <= ticket'[u]
      BY <1>n, <2>1, <3>1, <3>2
    <3>4. \A u, w \in Threads : at'[u] = "sending" /\ at'[w] = "sending" /\ u # w
                                    => ticket'[u] # ticket'[w]
      BY <1>i, <3>2 DEF Ticketed
    <3>5. next_send' <= next_ticket' /\ next_send' \in 0..mix.replies
      BY <1>n, <2>1, <3>1
    <3> QED
      BY <1>n, <1>i, <2>1, <3>3, <3>4, <3>5 DEF Ticketed, RepliesOK
  <2> QED
    BY <2>3, <2>4
<1>2. ASSUME \/ Undisturbed \/ CloseReplies \/ ReceiveReplies
             \/ \E c \in Calls : Terminate(c)
             \/ \E failed \in BOOLEAN : WriteReturns("replies", failed)
      PROVE  next_send' = next_send /\ closed' \in BOOLEAN /\ (~closed' => ~closed)
  BY <1>2, <1>i DEF RepliesOK, Undisturbed, CloseReplies, ReceiveReplies, Terminate, WriteReturns,
     batches
<1>3. ASSUME next_send' = next_send, closed' \in BOOLEAN, ~closed' => ~closed,
             NEW t \in Threads, Issues(t)
      PROVE  Ticketed' /\ next_ticket' \in 0..mix.replies /\ next_send' \in 0..mix.replies
  <2>1. /\ next_ticket < mix.replies /\ next_ticket' = next_ticket + 1
        /\ ticket' = [ticket EXCEPT ![t] = next_ticket] /\ at[t] # "sending"
        /\ \A u \in Threads \ {t} : at'[u] = at[u]
    BY <1>3 DEF Issues, Steps, Moved
  <2>2. ticket'[t] = next_ticket /\ \A u \in Threads \ {t} : ticket'[u] = ticket[u]
    BY <1>i, <2>1 DEF ThreadsOK
  <2>3. \A u \in Threads \ {t} : at'[u] = "sending" =>
           /\ ticket'[u] \in Nat /\ ticket'[u] < next_ticket /\ (~closed' => next_send <= ticket'[u])
           /\ \A w \in Threads \ {t} : w # u /\ at'[w] = "sending" => ticket'[w] # ticket'[u]
    BY <1>3, <1>i, <2>1, <2>2 DEF Ticketed
  <2>4. \A u \in Threads : at'[u] = "sending" =>
           /\ ticket'[u] \in Nat /\ ticket'[u] < next_ticket' /\ (~closed' => next_send' <= ticket'[u])
    BY <1>3, <1>n, <2>1, <2>2, <2>3
  <2>5. \A u \in Threads : \A w \in Threads \ {u} :
           at'[u] = "sending" /\ at'[w] = "sending" => ticket'[w] # ticket'[u]
    BY <1>n, <2>2, <2>3
  <2>6. next_send' <= next_ticket' /\ next_ticket' \in 0..mix.replies /\ next_send' \in 0..mix.replies
    BY <1>3, <1>n, <2>1
  <2> QED
    BY <2>4, <2>5, <2>6 DEF Ticketed
<1>4. ASSUME next_send' = next_send, closed' \in BOOLEAN, ~closed' => ~closed, NoneIssued
      PROVE  Ticketed' /\ next_ticket' \in 0..mix.replies /\ next_send' \in 0..mix.replies
  BY <1>4, <1>i, <1>n DEF Ticketed, NoneIssued, RepliesOK
<1> QED
  BY <1>1, <1>2, <1>3, <1>4, NextReplies

\* Every batch is in order, and in order with the others.
LEMMA NextOrdered ==
    ASSUME IInv, [Next]_vars
    PROVE  /\ Ordered' /\ Complete' /\ pending' \in Seq(Nat) /\ taken' \in Seq(Nat)
           /\ delivered' \in Seq(Nat) /\ overflowed' \in BOOLEAN /\ draining' \in BOOLEAN
<1> DEFINE Goal == /\ Ordered' /\ Complete' /\ pending' \in Seq(Nat) /\ taken' \in Seq(Nat)
                   /\ delivered' \in Seq(Nat) /\ overflowed' \in BOOLEAN /\ draining' \in BOOLEAN
<1>i. RepliesOK /\ Ticketed /\ Ordered /\ Complete /\ ThreadsOK
  BY RepliesTyped DEF IInv, Control
<1>t. /\ pending \in Seq(Nat) /\ taken \in Seq(Nat) /\ delivered \in Seq(Nat) /\ next_send \in Nat
      /\ overflowed \in BOOLEAN /\ draining \in BOOLEAN /\ closed \in BOOLEAN
      /\ DrainCap \in Nat \ {0}
  BY <1>i, TerminalIOAssumption DEF RepliesOK
<1>o. /\ Sorted(delivered) /\ Sorted(taken) /\ Sorted(pending)
      /\ Before(delivered, taken) /\ Before(delivered, pending) /\ Before(taken, pending)
      /\ \A k \in DOMAIN delivered : delivered[k] < next_send
      /\ \A k \in DOMAIN taken : taken[k] < next_send
      /\ \A k \in DOMAIN pending : pending[k] < next_send
      /\ Contiguous(taken) /\ Contiguous(pending)
      /\ pending # <<>> /\ ~overflowed => pending[Len(pending)] + 1 = next_send
      /\ at["replies"] = "recv" => taken = <<>>
  BY <1>i DEF Ordered
<1>c. ~draining /\ ~closed =>
          ~overflowed /\ (delivered \o taken) \o pending = Upto(next_send)
  BY <1>i DEF Complete, Upto
<1>1. ASSUME UNCHANGED <<pending, overflowed, taken, delivered, next_send>>,
             at'["replies"] = "recv" => at["replies"] = "recv",
             draining' \in BOOLEAN, draining => draining', closed => closed'
      PROVE  Goal
  <2>1. Ordered'
    BY <1>i, <1>1 DEF Ordered
  <2>2. Complete'
    BY <1>1, <1>c DEF Complete, Upto
  <2> QED
    BY <1>1, <1>t, <2>1, <2>2
<1>2. CASE Undisturbed
  BY <1>1, <1>2, <1>t DEF Undisturbed
<1>3. CASE CloseReplies
  <2>1. at'["replies"] = at["replies"]
    BY <1>3, FramesSteps, Names DEF Frames, Steps, Moved
  <2> QED
    BY <1>1, <1>3, <1>t, <2>1 DEF CloseReplies, batches
<1>4. ASSUME NEW c \in Calls, Terminate(c) PROVE Goal
  <2>1. at'["replies"] = at["replies"]
    BY <1>4, CallSteps, Names DEF Call, Steps, Moved
  <2> QED
    BY <1>1, <1>4, <1>t, <2>1 DEF Terminate, StopWaiting, batches
<1>5. ASSUME NEW t \in Threads, Send(t), Steps(t), t # "replies" PROVE Goal
  <2>1. at'["replies"] = at["replies"]
    BY <1>5, Names DEF Steps, Moved
  <2>2. CASE closed
    BY <1>1, <1>5, <1>t, <2>1, <2>2 DEF Send
  <2>3. CASE ~closed
    <3> DEFINE longer == Append(pending, next_send)
    <3>1. /\ at[t] = "sending" /\ ticket[t] = next_send /\ (draining \/ pending = <<>>)
          /\ next_send' = next_send + 1 /\ UNCHANGED <<taken, delivered, draining, closed>>
          /\ \/ ~overflowed /\ Len(pending) < DrainCap /\ pending' = longer /\ overflowed' = FALSE
             \/ /\ overflowed \/ Len(pending) >= DrainCap
                /\ pending' = pending /\ overflowed' = TRUE
      <4>1. ticket[t] = next_send
        BY <1>5, <2>3 DEF Send, MaySend
      <4> QED
        BY <1>5, <1>t, <2>3, <4>1 DEF Send, MaySend
    <3>2. CASE ~overflowed /\ Len(pending) < DrainCap /\ pending' = longer /\ overflowed' = FALSE
      <4>1. /\ longer \in Seq(Nat) /\ longer # <<>> /\ Sorted(longer)
            /\ Before(delivered, longer) /\ Before(taken, longer)
            /\ \A k \in DOMAIN longer : longer[k] < next_send + 1
            /\ longer[Len(longer)] = next_send /\ Contiguous(longer)
        BY <1>t, <1>o, <3>2, AppendSorted
      <4>2. /\ \A k \in DOMAIN delivered : delivered[k] < next_send + 1
            /\ \A k \in DOMAIN taken : taken[k] < next_send + 1
        <5>1. /\ \A k \in DOMAIN delivered : delivered[k] \in Nat
              /\ \A k \in DOMAIN taken : taken[k] \in Nat
          BY <1>t
        <5> QED
          BY <1>t, <1>o, <5>1
      <4>3. ~draining => (delivered \o taken) \o longer = Upto(next_send + 1)
        <5> SUFFICES ASSUME ~draining PROVE (delivered \o taken) \o longer = Upto(next_send + 1)
          OBVIOUS
        <5>1. Len(pending) = 0 /\ (delivered \o taken) \o pending = Upto(next_send)
          BY <1>c, <2>3, <3>1
        <5>2. /\ pending \in Seq(Nat) /\ taken \in Seq(Nat) /\ delivered \in Seq(Nat)
              /\ next_send \in Nat
          BY <1>t
        <5> QED
          BY <5>1, <5>2, CompleteFacts, Zenon
      <4> HIDE DEF longer
      <4>4. Ordered'
        BY <1>o, <2>1, <3>1, <3>2, <4>1, <4>2 DEF Ordered
      <4>5. Complete'
        BY <3>1, <3>2, <4>3 DEF Complete, Upto
      <4> QED
        BY <1>t, <3>1, <3>2, <4>1, <4>4, <4>5
    <3>3. CASE /\ overflowed \/ Len(pending) >= DrainCap
               /\ pending' = pending /\ overflowed' = TRUE
      <4>1. pending = <<>> => Len(pending) = 0
        OBVIOUS
      <4>2. draining
        BY <1>t, <1>c, <2>3, <3>1, <3>3, <4>1
      <4>3. \A s \in {delivered, taken, pending} : \A k \in DOMAIN s : s[k] < next_send + 1
        <5>1. \A s \in {delivered, taken, pending} : \A k \in DOMAIN s : s[k] \in Nat /\ s[k] < next_send
          BY <1>t, <1>o
        <5> QED
          BY <1>t, <5>1
      <4>4. Ordered'
        BY <1>o, <2>1, <3>1, <3>3, <4>3 DEF Ordered
      <4>5. Complete'
        BY <3>1, <4>2 DEF Complete
      <4> QED
        BY <1>t, <3>1, <3>3, <4>4, <4>5
    <3> QED
      BY <3>1, <3>2, <3>3
  <2> QED
    BY <2>2, <2>3
<1>6. CASE ReceiveReplies
  <2>1. /\ at["replies"] = "recv" /\ taken' = pending /\ pending' = <<>> /\ overflowed' = FALSE
        /\ UNCHANGED <<next_send, draining, closed, delivered>>
        /\ Go("replies", IF pending = <<>> THEN "ended" ELSE "writer")
    BY <1>6 DEF ReceiveReplies
  <2>2. at'["replies"] # "recv"
    BY <1>i, <2>1, Names, GoFacts DEF Stages
  <2>3. taken = <<>>
    BY <1>o, <2>1
  <2>4. Ordered'
    BY <1>o, <1>t, <2>1, <2>2, EmptyFacts DEF Ordered
  <2>5. ~draining /\ ~closed => (delivered \o pending) \o <<>> = Upto(next_send)
    BY <1>t, <1>c, <2>3, CompleteFacts
  <2>6. Complete'
    BY <2>1, <2>5 DEF Complete, Upto
  <2> QED
    BY <1>t, <2>1, <2>4, <2>6, EmptyFacts
<1>7. ASSUME NEW failed \in BOOLEAN, WriteReturns("replies", failed) PROVE Goal
  <2>1. /\ taken' = <<>> /\ delivered' = IF failed THEN delivered ELSE delivered \o taken
        /\ closed' = (closed \/ failed)
        /\ UNCHANGED <<pending, overflowed, next_send, draining>>
    BY <1>7 DEF WriteReturns
  <2>2. /\ delivered \o taken \in Seq(Nat) /\ Sorted(delivered \o taken)
        /\ Before(delivered \o taken, pending)
        /\ \A k \in DOMAIN (delivered \o taken) : (delivered \o taken)[k] < next_send
    BY <1>t, <1>o, ConcatSorted
  <2>3. Ordered'
    <3> DEFINE all == delivered \o taken
    <3> HIDE DEF all
    <3>1. delivered' = delivered \/ delivered' = all
      BY <2>1 DEF all
    <3>2. /\ all \in Seq(Nat) /\ Sorted(all) /\ Before(all, pending)
          /\ \A k \in DOMAIN all : all[k] < next_send
      BY <2>2 DEF all
    <3> QED
      BY <1>o, <1>t, <2>1, <3>1, <3>2, EmptyFacts DEF Ordered
  <2>4. Complete'
    <3>1. ~draining /\ ~closed => ((delivered \o taken) \o <<>>) \o pending = Upto(next_send)
      BY <1>t, <1>c, CompleteFacts
    <3>2. CASE failed
      BY <2>1, <3>2 DEF Complete
    <3>3. CASE ~failed
      BY <1>c, <2>1, <3>1, <3>3 DEF Complete, Upto
    <3> QED
      BY <3>2, <3>3
  <2> QED
    BY <1>t, <2>1, <2>2, <2>3, <2>4, EmptyFacts
<1> QED
  BY <1>2, <1>3, <1>4, <1>5, <1>6, <1>7, NextReplies

-----------------------------------------------------------------------------
(* The theorems. *)

\* The session begins with no call, no size but one, and no reply.
LEMMA InitIInv == Init => IInv
<1> SUFFICES ASSUME Init PROVE IInv
  OBVIOUS
<1>c. Cardinality(Calls) \in Nat
  BY TerminalIOAssumption, FS_CardinalityType
<1>m. mix \in Mixes /\ mix.replies \in Nat /\ mix.attached \subseteq Views
  BY TerminalIOAssumption DEF Init
<1>1. /\ request = [c \in Calls |-> NoRequest]
      /\ at = [t \in Threads |-> IF t \in Calls THEN "idle" ELSE "recv"]
      /\ ticket = [t \in Threads |-> None]
      /\ lifecycle = None /\ authority = None /\ model_operation = None /\ writer = None
      /\ readers = {}
  BY DEF Init
<1>2. ThreadsOK
  BY <1>1 DEF ThreadsOK, Stages
<1>3. \A t \in Threads : PlacedAt(t) /\ LockedAt(t)
  BY <1>1, Names DEF PlacedAt, LockedAt
<1>4. Control
  BY <1>2, <1>3 DEF Control
<1>5. queue \in BoundedSeq(Operations, QueueSize) /\ accepted \in Seq(Records)
  <2>1. queue \in Seq(Operations) /\ Len(queue) <= QueueSize /\ QueueSize \in Nat
    BY TerminalIOAssumption DEF Init
  <2>2. queue \in BoundedSeq(Operations, QueueSize)
    BY <2>1, BoundedFacts
  <2> QED
    BY <2>2 DEF Init
<1>6. TypeOK
  <2>1. <<>> \in Batch
    BY DEF Batch
  <2>2. 0 \in 0..mix.replies /\ 0 \in 0..MaxChunks
    BY <1>m, TerminalIOAssumption
  <2>3. split \in BOOLEAN
    BY DEF Init
  <2>4. refusals \in 0..2
    BY DEF Init
  <2>5. {size, model_size, pty_size, resizing, metadata} \subseteq Sizes
    BY DEF Init, Sizes
  <2>6. SizesOK
    BY <2>3, <2>4, <2>5 DEF SizesOK
  <2> QED
    BY <1>m, <1>2, <1>5, <2>1, <2>2, <2>6
       DEF Init, TypeOK, ThreadsOK, SizesOK, Operations, Records
<1>7. Selecting /\ SelectionsAttached
  BY <1>1, Names DEF Init, Selecting, SelectionsAttached
<1>8. Sized
  BY <1>1, Names DEF Init, Sized
<1>9. Typed /\ AutomationNotOvertaken
  <2>1. accepted = <<>> /\ DOMAIN accepted = {}
    BY DEF Init
  <2>2. human_input_epoch = 0
    BY <2>1, FS_EmptySet DEF human_input_epoch
  <2>3. IsFiniteSet({c \in Calls : at[c] = "done"})
    BY TerminalIOAssumption, FS_Subset
  <2>4. Cardinality({c \in Calls : at[c] = "done"}) \in Nat
    BY <2>3, FS_CardinalityType
  <2> QED
    BY <2>1, <2>2, <2>4 DEF Typed, AutomationNotOvertaken
<1>10. Ticketed
  BY <1>1 DEF Init, Ticketed
<1>11. Ordered
  BY EmptyFacts DEF Init, Ordered
<1>12. Complete
  <2>1. (<<>> \o <<>>) \o <<>> = <<>>
    OBVIOUS
  <2>2. [k \in 1..0 |-> k - 1] = <<>>
    OBVIOUS
  <2> QED
    BY <2>1, <2>2 DEF Init, Complete
<1> QED
  BY <1>4, <1>6, <1>7, <1>8, <1>9, <1>10, <1>11, <1>12 DEF IInv

\* Every step keeps the invariant.
LEMMA NextIInv == ASSUME IInv, [Next]_vars PROVE IInv'
<1>1. Control' /\ ThreadsOK'
  BY NextControl DEF Control
<1>2. InputOK' /\ Typed' /\ AutomationNotOvertaken'
  BY NextInput
<1>3. Selecting' /\ SelectionsAttached' /\ {attached', selected', unfenced'} \subseteq SUBSET Views
  BY NextViews
<1>4. Sized' /\ SizesOK'
  BY NextSizes
<1>5. StateOK' /\ mix' = mix
  BY NextState
<1>6. /\ Ticketed' /\ next_ticket' \in 0..mix.replies /\ next_send' \in 0..mix.replies
      /\ closed' \in BOOLEAN
  BY NextTickets
<1>7. /\ Ordered' /\ Complete' /\ pending' \in Seq(Nat) /\ taken' \in Seq(Nat)
      /\ delivered' \in Seq(Nat) /\ overflowed' \in BOOLEAN /\ draining' \in BOOLEAN
  BY NextOrdered
<1>8. TypeOK'
  BY <1>1, <1>2, <1>3, <1>4, <1>5, <1>6, <1>7
     DEF TypeOK, ThreadsOK, InputOK, StateOK, SizesOK, Operations, Records, Batch, Tickets
<1> QED
  BY <1>1, <1>2, <1>3, <1>4, <1>6, <1>7, <1>8 DEF IInv

\* The inductive invariant holds in every reachable state.
THEOREM Inductive == Spec => []IInv
  BY InitIInv, NextIInv, PTL DEF Spec

\* Every variable keeps its type: no queue grows past its slots, and nothing is
\* counted that no call or reply accounts for.
THEOREM TypeCorrect == Spec => []TypeOK
<1>1. IInv => TypeOK
  BY DEF IInv
<1> QED
  BY <1>1, Inductive, PTL

\* The program is answered in the order of its questions, whatever the order in
\* which the producers reach the queue; no batch skips a reply and carries a
\* later one, and before a termination none is dropped (ReplyQueue).
THEOREM RepliesStayInOrder == Spec => []RepliesInOrder
<1>1. IInv => RepliesInOrder
  <2> SUFFICES ASSUME IInv PROVE RepliesInOrder
    OBVIOUS
  <2>1. RepliesOK /\ Ordered /\ Complete
    BY RepliesTyped DEF IInv
  <2>2. /\ delivered \in Seq(Nat) /\ taken \in Seq(Nat) /\ pending \in Seq(Nat)
        /\ Sorted(delivered) /\ Sorted(taken) /\ Sorted(pending)
        /\ Before(delivered, taken) /\ Before(delivered, pending) /\ Before(taken, pending)
    BY <2>1 DEF RepliesOK, Ordered
  <2> DEFINE a == delivered \o taken
             all == a \o pending
  <2>3. a \in Seq(Nat) /\ Sorted(a) /\ Before(a, pending)
    BY <2>2, ConcatSorted
  <2>4. all \in Seq(Nat) /\ Sorted(all)
    <3> HIDE DEF a
    <3> QED
      BY <2>2, <2>3, ConcatSorted
  <2>5. delivered \o taken \o pending = all
    OBVIOUS
  <2> HIDE DEF all
  <2>6. Increasing(all)
    <3> SUFFICES ASSUME NEW k \in 1..Len(all) - 1 PROVE all[k] < all[k + 1]
      BY DEF Increasing
    <3>1. DOMAIN all = 1..Len(all) /\ Len(all) \in Nat
      BY <2>4
    <3>2. k \in DOMAIN all /\ k + 1 \in DOMAIN all /\ k < k + 1
      BY <3>1
    <3> QED
      BY <2>4, <3>2 DEF Sorted
  <2>7. Contiguous(taken) /\ Contiguous(pending)
    BY <2>1 DEF Ordered
  <2>8. ~draining /\ ~closed => all = [k \in 1..next_send |-> k - 1]
    BY <2>1 DEF Complete, all
  <2> QED
    BY <2>5, <2>6, <2>7, <2>8 DEF RepliesInOrder
<1> QED
  BY <1>1, Inductive, PTL

\* Accepted automation follows exactly the human input it was planned after
\* (input_order.rs).
THEOREM AutomationIsNotOvertaken == Spec => []AutomationNotOvertaken
<1>1. IInv => AutomationNotOvertaken
  BY DEF IInv
<1> QED
  BY <1>1, Inductive, PTL

\* Whoever has the authority's lock sees one size in the authority, the model
\* and the PTY, also after a resize that failed, unless an undo failed too or
\* two resizes in a row (apply_resize, TerminalModel::resize).
THEOREM SizesStayTogether == Spec => []SizesAgree
<1>1. IInv => SizesAgree
  <2> SUFFICES ASSUME IInv, authority = None, ~split, refusals < 2
               PROVE  size = model_size /\ model_size = pty_size
    BY DEF SizesAgree
  <2>1. \A c \in Calls : ~(Resizes(c) /\ at[c] = "sending")
    BY Names DEF IInv, Control, LockedAt
  <2> QED
    BY <2>1 DEF IInv, Sized
<1> QED
  BY <1>1, Inductive, PTL

\* A selection outlives its view only until the detach that is under way
\* removes it, but for an unfenced read (selection_text).
THEOREM SelectionsFollowViews == Spec => []SelectionsAttached
<1>1. IInv => SelectionsAttached
  BY DEF IInv
<1> QED
  BY <1>1, Inductive, PTL

-----------------------------------------------------------------------------
(***************************************************************************)
(* The locks, the queue of replies and the writer: who waits for whom.     *)
(***************************************************************************)

\* Each lock is held in a stretch of the code that takes no lock before it in
\* the order registry, lifecycle, authority, model_operation, writer.
HoldsAt(t) ==
    /\ t \in readers =>
          /\ request[t].kind \in Holding
          /\ at[t] \in {"lifecycle", "authority", "model", "update", "sending"}
    /\ lifecycle = t =>
          /\ t \in Calls /\ request[t].kind \in {"attach", "input"}
          /\ at[t] \in {"authority", "model", "update"}
    /\ authority = t =>
          /\ t \in Calls
          /\ \/ Resizes(t) /\ at[t] \in {"model", "update", "sending"}
             \/ request[t].kind = "select" /\ at[t] = "model"
    /\ model_operation = t => at[t] = "update"
    /\ writer = t => t \in {"input", "replies"} /\ at[t] = "writing"

\* While the queue is open, every ticket whose turn has not come is in a
\* producer's hand, and somebody takes what is queued.
Handed ==
    /\ ~closed => \A k \in Nat : next_send <= k /\ k < next_ticket =>
                      \E t \in Threads : at[t] = "sending" /\ ticket[t] = k
    /\ at["replies"] = "ended" => closed

Orderly == (\A t \in Threads : HoldsAt(t)) /\ Handed

\* Thread t cannot go on before u has.
WaitsOn(t, u) ==
    \/ at[t] = "registry" /\ at[u] = "write"
    \/ at[t] = "write" /\ u \in readers
    \/ at[t] = "lifecycle" /\ lifecycle = u
    \/ at[t] \in {"authority", "look", "final"} /\ authority = u
    \/ at[t] = "model" /\ model_operation = u
    \/ at[t] = "writer" /\ writer = u
    \/ /\ at[t] = "sending" /\ ~closed
       /\ \/ at[u] = "sending" /\ ticket[u] < ticket[t]
          \/ u = "replies" /\ ~draining /\ pending # <<>>

\* Where a thread waits for another, and the ones that do.
Pause == {"registry", "write", "lifecycle", "authority", "look", "final", "model", "writer",
          "sending"}
Blocked(t) ==
    \/ at[t] = "registry" /\ ~RegistryOpen
    \/ at[t] = "write" /\ readers # {}
    \/ at[t] = "lifecycle" /\ lifecycle # None
    \/ at[t] \in {"authority", "look", "final"} /\ authority # None
    \/ at[t] = "model" /\ model_operation # None
    \/ at[t] = "writer" /\ writer # None
    \/ at[t] = "sending" /\ ~MaySend(t)

\* A thread that can take its next step, or has the program take it: it changes
\* the model, writes to the program, has what it waits for, or has replies to take.
Running(t) ==
    \/ at[t] \in {"update", "writing"}
    \/ at[t] \in Pause /\ ~Blocked(t)
    \/ t = "replies" /\ at[t] = "recv" /\ pending # <<>>

\* No threads wait for one another in a circle.
NoCircularWait ==
    \A S \in SUBSET Threads : S # {} => \E t \in S : \A u \in S : ~WaitsOn(t, u)

\* While some thread is blocked, some thread is not.
SomeoneGoesOn == (\E t \in Threads : Blocked(t)) => \E u \in Threads : Running(u)

\* Thread t takes nothing for another.
Spares(t) ==
    \A u \in Threads \ {t} :
        /\ u \in readers' => u \in readers
        /\ lifecycle' = u => lifecycle = u
        /\ authority' = u => authority = u
        /\ model_operation' = u => model_operation = u
        /\ writer' = u => writer = u

LEMMA SparesHolds ==
    ASSUME Control, \A u \in Threads : HoldsAt(u), NEW t \in Threads, Steps(t), Spares(t),
           HoldsAt(t)'
    PROVE  \A u \in Threads : HoldsAt(u)'
<1> SUFFICES ASSUME NEW u \in Threads \ {t} PROVE HoldsAt(u)'
  OBVIOUS
<1>1. at'[u] = at[u] /\ (u \in Calls => request'[u] = request[u])
  BY DEF Steps, Moved
<1>2. u \in readers => u \in Calls
  BY DEF Control, ThreadsOK
<1>3. HoldsAt(u)
  OBVIOUS
<1> QED
  BY <1>1, <1>2, <1>3 DEF HoldsAt, Spares, Resizes

\* Who returns has nothing left.
LEMMA ReturnHolds ==
    ASSUME ThreadsOK, NEW t \in Threads, Return(t), writer' = writer, writer # t
    PROVE  Spares(t) /\ HoldsAt(t)'
<1>1. /\ lifecycle' = IF lifecycle = t THEN None ELSE lifecycle
      /\ authority' = IF authority = t THEN None ELSE authority
      /\ model_operation' = IF model_operation = t THEN None ELSE model_operation
      /\ readers' = readers \ {t}
  BY DEF Return, ReleaseModel
<1>2. None \notin Threads
  BY Names
<1> QED
  BY <1>1, <1>2 DEF Spares, HoldsAt

\* A call goes on with what it has there.
LEMMA GoesHolds ==
    ASSUME ThreadsOK, NEW c \in Calls, NEW stage \in Stages, Go(c, stage),
           UNCHANGED <<request, writer>>, writer # c,
           readers' \subseteq readers \cup {c},
           lifecycle' \in {lifecycle, None, c}, authority' \in {authority, None, c},
           model_operation' \in {model_operation, None, c},
           c \in readers' =>
               /\ request[c].kind \in Holding
               /\ stage \in {"lifecycle", "authority", "model", "update", "sending"},
           lifecycle' = c =>
               /\ request[c].kind \in {"attach", "input"}
               /\ stage \in {"authority", "model", "update"},
           authority' = c =>
               \/ Resizes(c) /\ stage \in {"model", "update", "sending"}
               \/ request[c].kind = "select" /\ stage = "model",
           model_operation' = c => stage = "update"
    PROVE  Spares(c) /\ HoldsAt(c)'
<1>1. c \in Threads /\ None \notin Threads
  BY Names
<1>2. at'[c] = stage
  BY <1>1, GoFacts
<1>3. Spares(c)
  BY <1>1 DEF Spares
<1>4. HoldsAt(c)'
  BY <1>1, <1>2 DEF HoldsAt, Resizes
<1> QED
  BY <1>3, <1>4

\* A call's steps keep the order of its locks.
LEMMA CallHolds ==
    ASSUME IInv, NEW c \in Calls, HoldsAt(c), Call(c)
    PROVE  Spares(c) /\ HoldsAt(c)'
<1>i. /\ Control /\ ThreadsOK /\ PlacedAt(c) /\ LockedAt(c) /\ c \in Threads
      /\ None \notin Threads /\ c \notin {"frames", "input", "replies"}
  BY Names DEF IInv, Control
<1>w. writer # c
  BY <1>i DEF HoldsAt
<1>s. {"lifecycle", "authority", "model", "update", "sending", "terminate", "write"} \subseteq Stages
  BY DEF Stages
<1>r. ASSUME Return(c), writer' = writer PROVE Spares(c) /\ HoldsAt(c)'
  BY <1>i, <1>w, <1>r, ReturnHolds
<1>1. CASE LookUp(c)
  <2>1. /\ request[c].kind \in Requests /\ at[c] = "registry"
        /\ UNCHANGED <<request, lifecycle, authority, model_operation, writer>>
        /\ readers' = IF request[c].kind \in Holding THEN readers \cup {c} ELSE readers
        /\ c \notin readers /\ lifecycle # c /\ authority # c /\ model_operation # c
    BY <1>1, <1>i DEF LookUp, PlacedAt, HoldsAt
  <2>2. PICK stage \in {First(request[c].kind), "authority"} :
            Go(c, stage) /\ (stage # First(request[c].kind) => request[c].kind = "terminate")
    BY <1>1 DEF LookUp
  <2>3. stage \in {"lifecycle", "authority", "model", "terminate", "write"}
    BY <2>1, <2>2, KindFacts
  <2>4. request[c].kind \in Holding => stage \in {"lifecycle", "authority", "model"}
    BY <2>2 DEF Holding, First
  <2> QED
    BY <1>i, <1>s, <1>w, <2>1, <2>2, <2>3, <2>4, GoesHolds
<1>2. CASE EnterLifecycle(c)
  <2>1. /\ at[c] = "lifecycle" /\ Go(c, "authority") /\ lifecycle' = c
        /\ request[c].kind \in {"attach", "input"}
        /\ UNCHANGED <<request, authority, model_operation, writer, readers>>
    BY <1>2 DEF EnterLifecycle, Waiting
  <2>2. authority # c /\ model_operation # c /\ (c \in readers => request[c].kind \in Holding)
    BY <2>1 DEF HoldsAt
  <2> QED
    BY <1>i, <1>s, <1>w, <2>1, <2>2, GoesHolds
<1>3. CASE LockModel(c)
  <2>1. /\ at[c] = "model" /\ Go(c, "update") /\ model_operation' = c
        /\ authority' = IF request[c].kind = "select" THEN None ELSE authority
        /\ UNCHANGED <<request, lifecycle, writer, readers>>
    BY <1>3 DEF LockModel
  <2>2. /\ authority' = c => Resizes(c)
        /\ c \in readers => request[c].kind \in Holding
        /\ lifecycle = c => request[c].kind \in {"attach", "input"}
    BY <1>i, <2>1 DEF HoldsAt
  <2> QED
    BY <1>i, <1>s, <1>w, <2>1, <2>2, GoesHolds
<1>4. CASE AttachView(c)
  <2>1. /\ at[c] = "authority" /\ authority = None /\ Go(c, "model")
        /\ UNCHANGED <<request, lifecycle, authority, model_operation, writer, readers>>
    BY <1>4 DEF AttachView, Waiting, locks
  <2>2. /\ c \in readers => request[c].kind \in Holding
        /\ lifecycle = c => request[c].kind \in {"attach", "input"}
        /\ model_operation # c
    BY <2>1 DEF HoldsAt
  <2> QED
    BY <1>i, <1>s, <1>w, <2>1, <2>2, GoesHolds
<1>d. ASSUME Detached(c), at[c] \in {"authority", "update"}, writer' = writer,
             request[c].kind \in {"detach", "terminate"}
      PROVE  Spares(c) /\ HoldsAt(c)'
  <2>1. CASE request[c].kind = "terminate"
    <3>1. Go(c, "terminate") /\ ReleaseModel(c) /\ UNCHANGED <<request, lifecycle, authority, readers>>
      BY <1>d, <2>1 DEF Detached
    <3>2. lifecycle # c /\ c \notin readers /\ authority # c
      BY <2>1 DEF HoldsAt, Holding, Resizes
    <3>3. model_operation' \in {model_operation, None} /\ model_operation' # c
      BY <1>i, <3>1 DEF ReleaseModel
    <3> QED
      BY <1>i, <1>s, <1>w, <1>d, <3>1, <3>2, <3>3, GoesHolds
  <2>2. CASE request[c].kind # "terminate"
    BY <1>r, <1>d, <2>2 DEF Detached
  <2> QED
    BY <2>1, <2>2
<1>5. CASE DetachView(c)
  <2>1. /\ at[c] = "authority" /\ request[c].kind \in {"detach", "terminate"} /\ writer' = writer
        /\ authority = None
    BY <1>5 DEF DetachView, Waiting, locks
  <2>2. CASE Detached(c)
    BY <1>d, <2>1, <2>2
  <2>3. CASE Go(c, "model") /\ UNCHANGED <<request, locks>>
    <3>1. UNCHANGED <<request, lifecycle, authority, model_operation, writer, readers>>
      BY <2>3 DEF locks
    <3>2. /\ c \in readers => request[c].kind \in Holding
          /\ lifecycle # c /\ model_operation # c
      BY <2>1 DEF HoldsAt
    <3> QED
      BY <1>i, <1>s, <1>w, <2>1, <2>3, <3>1, <3>2, GoesHolds
  <2> QED
    BY <1>5, <2>2, <2>3 DEF DetachView
<1>6. CASE RemoveViewSelection(c)
  BY <1>6, <1>d DEF RemoveViewSelection, Waiting
<1>7. CASE AuthorizeRead(c) \/ AuthorizeResize(c)
  <2>1. /\ at[c] = "authority" /\ authority = None /\ writer' = writer
        /\ request[c].kind = "select" \/ Resizes(c)
    BY <1>7 DEF AuthorizeRead, AuthorizeResize, Waiting, Resizes
  <2>2. CASE /\ authority' = c /\ Go(c, "model")
             /\ UNCHANGED <<request, lifecycle, model_operation, readers>>
    <3>1. /\ c \in readers => request[c].kind \in Holding
          /\ lifecycle # c /\ model_operation # c
      BY <2>1 DEF HoldsAt, Resizes
    <3> QED
      BY <1>i, <1>s, <1>w, <2>1, <2>2, <3>1, GoesHolds
  <2> QED
    BY <1>7, <1>r, <2>1, <2>2 DEF AuthorizeRead, AuthorizeResize
<1>8. CASE Refresh(c) \/ ApplyResize(c) \/ SetColors(c)
  <2>1. PICK reply \in BOOLEAN :
            /\ ExecuteUpdate(c, reply) /\ at[c] = "update"
            /\ reply => request[c].kind \in {"claim", "resize", "colors"}
    BY <1>8 DEF Refresh, ApplyResize, SetColors, Waiting
  <2>2. writer' = writer
    BY <2>1 DEF ExecuteUpdate
  <2>3. CASE ~reply
    BY <1>r, <2>1, <2>2, <2>3 DEF ExecuteUpdate
  <2>4. CASE reply
    <3>1. /\ model_operation' = None /\ Go(c, "sending")
          /\ UNCHANGED <<request, lifecycle, authority, readers>>
      BY <2>1, <2>4 DEF ExecuteUpdate
    <3>2. /\ c \in readers => request[c].kind \in Holding
          /\ authority = c => Resizes(c)
          /\ lifecycle # c
      BY <2>1, <2>4 DEF HoldsAt
    <3> QED
      BY <1>i, <1>s, <1>w, <2>2, <3>1, <3>2, GoesHolds
  <2> QED
    BY <2>3, <2>4
<1>9. CASE \/ AuthorizeAndEnqueue(c) \/ AutomationInput(c) \/ TrackViewSelection(c)
           \/ FailResize(c) \/ Terminate(c) \/ WriteRegistry(c) \/ Send(c)
  BY <1>9, <1>r DEF AuthorizeAndEnqueue, AutomationInput, TrackViewSelection, FailResize,
     Terminate, WriteRegistry, Send
<1> QED
  BY <1>1, <1>2, <1>3, <1>4, <1>5, <1>6, <1>7, <1>8, <1>9 DEF Call

\* A request begins without a lock,
LEMMA BeginHolds ==
    ASSUME IInv, NEW c \in Calls, HoldsAt(c), NEW v \in Views, NEW kind \in Requests,
           Begin(c, kind, v)
    PROVE  Spares(c) /\ HoldsAt(c)'
<1>1. at[c] = "idle" /\ UNCHANGED <<lifecycle, authority, model_operation, writer, readers>>
  BY DEF Begin, locks
<1>2. c \notin readers /\ lifecycle # c /\ authority # c /\ model_operation # c /\ writer # c
  BY <1>1 DEF HoldsAt
<1> QED
  BY <1>1, <1>2 DEF Spares, HoldsAt

\* the session's threads take the model's lock and the writer,
LEMMA ThreadHolds ==
    ASSUME ThreadsOK, NEW t \in {"frames", "input", "replies"}, NEW stage \in Stages, HoldsAt(t),
           Go(t, stage), UNCHANGED <<lifecycle, authority, readers>>,
           \/ model_operation' = model_operation /\ model_operation # t
           \/ model_operation' = None
           \/ model_operation' = t /\ stage = "update",
           \/ writer' = writer /\ writer # t
           \/ writer' = None
           \/ writer' = t /\ stage = "writing" /\ t # "frames"
    PROVE  Spares(t) /\ HoldsAt(t)'
<1>1. t \in Threads /\ None \notin Threads /\ t \notin Calls
  BY Names
<1>2. at'[t] = stage
  BY <1>1, GoFacts
<1>3. t \notin readers /\ lifecycle # t /\ authority # t
  BY <1>1 DEF HoldsAt, ThreadsOK
<1>4. Spares(t)
  BY <1>1 DEF Spares
<1>5. HoldsAt(t)'
  BY <1>1, <1>2, <1>3 DEF HoldsAt
<1> QED
  BY <1>4, <1>5

LEMMA FramesHolds == ASSUME IInv, HoldsAt("frames"), Frames PROVE Spares("frames") /\ HoldsAt("frames")'
<1>i. ThreadsOK /\ "frames" \in Threads
  BY Names DEF IInv, Control
<1>w. writer # "frames"
  BY DEF HoldsAt
<1>s. {"look", "model", "write", "exited", "final", "concluded", "update", "sending"} \subseteq Stages
  BY DEF Stages
<1>1. CASE ReceiveOutput \/ HasActiveViews \/ MarkExited \/ CloseReplies \/ Conclude
  <2>1. PICK stage \in {"look", "model", "write", "exited", "final", "concluded"} :
           Go("frames", stage)
    BY <1>1 DEF ReceiveOutput, HasActiveViews, MarkExited, CloseReplies, Conclude
  <2>2. /\ UNCHANGED <<lifecycle, authority, model_operation, writer, readers>>
        /\ at["frames"] # "update"
    BY <1>1 DEF ReceiveOutput, HasActiveViews, MarkExited, CloseReplies, Conclude, locks
  <2>3. model_operation # "frames"
    BY <2>2 DEF HoldsAt
  <2> QED
    BY <1>i, <1>s, <1>w, <2>1, <2>2, <2>3, ThreadHolds
<1>2. CASE LockModel("frames")
  <2>1. /\ Go("frames", "update") /\ model_operation' = "frames"
        /\ UNCHANGED <<lifecycle, authority, writer, readers>>
    BY <1>2, Names DEF LockModel
  <2> QED
    BY <1>i, <1>s, <1>w, <2>1, ThreadHolds
<1>3. CASE Feed
  <2>1. PICK reply \in BOOLEAN : ExecuteUpdate("frames", reply)
    BY <1>3 DEF Feed
  <2>2. writer' = writer
    BY <2>1 DEF ExecuteUpdate
  <2>3. CASE ~reply
    BY <1>i, <1>w, <2>1, <2>2, <2>3, ReturnHolds DEF ExecuteUpdate
  <2>4. CASE reply
    <3>1. /\ model_operation' = None /\ Go("frames", "sending")
          /\ UNCHANGED <<lifecycle, authority, readers>>
      BY <2>1, <2>4 DEF ExecuteUpdate
    <3> QED
      BY <1>i, <1>s, <1>w, <2>2, <3>1, ThreadHolds
  <2> QED
    BY <2>3, <2>4
<1>4. CASE Send("frames")
  BY <1>4, <1>i, <1>w, ReturnHolds DEF Send
<1> QED
  BY <1>1, <1>2, <1>3, <1>4 DEF Frames

LEMMA InputHolds == ASSUME IInv, HoldsAt("input"), Input PROVE Spares("input") /\ HoldsAt("input")'
<1>i. ThreadsOK /\ "input" \in Threads
  BY Names DEF IInv, Control
<1>s. {"ended", "model", "writer", "update", "writing"} \subseteq Stages
  BY DEF Stages
<1>1. CASE ReceiveInput
  <2>1. PICK stage \in {"ended", "model", "writer"} : Go("input", stage)
    <3> DEFINE stage == CASE Head(queue) = "shutdown" \/ exited -> "ended"
                          [] Head(queue) = "scroll" -> "model"
                          [] OTHER -> "writer"
    <3>1. stage \in {"ended", "model", "writer"}
      OBVIOUS
    <3>2. Go("input", stage)
      BY <1>1 DEF ReceiveInput
    <3> QED
      BY <3>1, <3>2
  <2>2. at["input"] = "recv" /\ UNCHANGED <<lifecycle, authority, model_operation, writer, readers>>
    BY <1>1 DEF ReceiveInput, locks
  <2>3. model_operation # "input" /\ writer # "input"
    BY <2>2 DEF HoldsAt
  <2> QED
    BY <1>i, <1>s, <2>1, <2>2, <2>3, ThreadHolds
<1>2. CASE LockModel("input")
  <2>1. /\ Go("input", "update") /\ model_operation' = "input" /\ at["input"] = "model"
        /\ UNCHANGED <<lifecycle, authority, writer, readers>>
    BY <1>2, Names DEF LockModel
  <2>2. writer # "input"
    BY <2>1 DEF HoldsAt
  <2> QED
    BY <1>i, <1>s, <2>1, <2>2, ThreadHolds
<1>3. CASE Scroll
  <2>1. Return("input") /\ writer' = writer /\ at["input"] = "update"
    BY <1>3 DEF Scroll, ExecuteUpdate
  <2>2. writer # "input"
    BY <2>1 DEF HoldsAt
  <2> QED
    BY <1>i, <2>1, <2>2, ReturnHolds
<1>4. CASE AlternateScroll
  <2>1. /\ Go("input", "writer") /\ ReleaseModel("input") /\ at["input"] = "update"
        /\ UNCHANGED <<lifecycle, authority, writer, readers>>
    BY <1>4 DEF AlternateScroll
  <2>2. writer # "input"
    BY <2>1 DEF HoldsAt
  <2> QED
    BY <1>i, <1>s, <2>1, <2>2, ThreadHolds DEF ReleaseModel
<1>5. CASE LockWriter("input")
  <2>1. /\ Go("input", "writing") /\ writer' = "input" /\ at["input"] = "writer"
        /\ UNCHANGED <<lifecycle, authority, model_operation, readers>>
    BY <1>5 DEF LockWriter
  <2>2. model_operation # "input"
    BY <2>1 DEF HoldsAt
  <2> QED
    BY <1>i, <1>s, <2>1, <2>2, ThreadHolds
<1> QED
  BY <1>1, <1>2, <1>3, <1>4, <1>5 DEF Input

LEMMA RepliesHolds ==
    ASSUME IInv, HoldsAt("replies"), Replies PROVE Spares("replies") /\ HoldsAt("replies")'
<1>i. ThreadsOK /\ "replies" \in Threads /\ PlacedAt("replies")
  BY Names DEF IInv, Control
<1>s. {"ended", "writer", "writing"} \subseteq Stages
  BY DEF Stages
<1>m. model_operation # "replies"
  BY <1>i DEF HoldsAt, PlacedAt
<1>1. CASE ReceiveReplies
  <2>1. PICK stage \in {"ended", "writer"} : Go("replies", stage)
    BY <1>1 DEF ReceiveReplies
  <2>2. at["replies"] = "recv" /\ UNCHANGED <<lifecycle, authority, model_operation, writer, readers>>
    BY <1>1 DEF ReceiveReplies, locks
  <2>3. writer # "replies"
    BY <2>2 DEF HoldsAt
  <2> QED
    BY <1>i, <1>m, <1>s, <2>1, <2>2, <2>3, ThreadHolds
<1>2. CASE LockWriter("replies")
  <2>1. /\ Go("replies", "writing") /\ writer' = "replies"
        /\ UNCHANGED <<lifecycle, authority, model_operation, readers>>
    BY <1>2 DEF LockWriter
  <2> QED
    BY <1>i, <1>m, <1>s, <2>1, ThreadHolds
<1> QED
  BY <1>1, <1>2 DEF Replies

\* and leave the writer when the write returns.
LEMMA WriteReturnsHolds ==
    ASSUME IInv, NEW t \in {"input", "replies"}, HoldsAt(t), NEW failed \in BOOLEAN,
           WriteReturns(t, failed)
    PROVE  Spares(t) /\ HoldsAt(t)'
<1>i. ThreadsOK /\ t \in Threads /\ {"recv", "ended"} \subseteq Stages
  BY Names DEF IInv, Control, Stages
<1>1. PICK stage \in {"recv", "ended"} : Go(t, stage)
  <2> DEFINE stage == CASE t = "input" -> IF exited THEN "ended" ELSE "recv"
                        [] OTHER -> IF failed THEN "ended" ELSE "recv"
  <2>1. stage \in {"recv", "ended"}
    OBVIOUS
  <2>2. Go(t, stage)
    BY DEF WriteReturns
  <2> QED
    BY <2>1, <2>2
<1>2. /\ writer' = None /\ UNCHANGED <<lifecycle, authority, model_operation, readers>>
      /\ at[t] = "writing"
  BY DEF WriteReturns
<1>3. model_operation # t
  BY <1>2 DEF HoldsAt
<1> QED
  BY <1>i, <1>1, <1>2, <1>3, ThreadHolds

LEMMA NextHolds ==
    ASSUME IInv, \A t \in Threads : HoldsAt(t), [Next]_vars PROVE \A t \in Threads : HoldsAt(t)'
<1>1. ASSUME NEW t \in Threads, Steps(t), Spares(t), HoldsAt(t)' PROVE \A u \in Threads : HoldsAt(u)'
  BY <1>1, SparesHolds DEF IInv
<1>2. ASSUME UNCHANGED <<threads, locks>> PROVE \A u \in Threads : HoldsAt(u)'
  BY <1>2 DEF threads, locks, HoldsAt, Resizes
<1>3. ASSUME NEW c \in Calls, NEW v \in Views, NEW kind \in mix.asks[c], Begin(c, kind, v)
      PROVE  Steps(c) /\ Spares(c) /\ HoldsAt(c)'
  <2>1. kind \in Requests
    BY TerminalIOAssumption DEF IInv, TypeOK
  <2> QED
    BY <1>3, <2>1, BeginSteps, BeginHolds, Names
<1>4. ASSUME World \/ UNCHANGED vars PROVE UNCHANGED <<threads, locks>>
  BY <1>4, WorldFacts DEF vars
<1>5. ASSUME NEW c \in Calls, Call(c) PROVE Steps(c) /\ Spares(c) /\ HoldsAt(c)'
  BY <1>5, CallSteps, CallHolds, Names
<1>6. CASE Frames \/ Input \/ Replies
           \/ \E t \in {"input", "replies"}, failed \in BOOLEAN : WriteReturns(t, failed)
  BY <1>1, <1>6, FramesSteps, InputSteps, RepliesSteps, WriteReturnsSteps, FramesHolds,
     InputHolds, RepliesHolds, WriteReturnsHolds, Names
<1> QED
  BY <1>1, <1>2, <1>3, <1>4, <1>5, <1>6, Names DEF Next, World

\* A ticket is issued to a thread that goes to hand the reply over, and given up
\* when it has; nobody else's changes.
LEMMA TicketMoves ==
    ASSUME IInv, [Next]_vars
    PROVE  \/ UNCHANGED <<ticket, next_ticket>> /\ \A u \in Threads : at[u] = "sending" => at'[u] = "sending"
           \/ \E t \in Threads : Send(t) /\ Steps(t)
           \/ \E t \in Threads : Issues(t) /\ at'[t] = "sending"
<1> DEFINE Quiet == /\ UNCHANGED <<ticket, next_ticket>>
                    /\ \A u \in Threads : at[u] = "sending" => at'[u] = "sending"
<1>i. ThreadsOK /\ Calls \subseteq Threads /\ {"frames", "input", "replies"} \subseteq Threads
  BY Names DEF IInv, Control
<1>1. ASSUME NEW t \in Threads, Steps(t), at[t] # "sending", UNCHANGED <<ticket, next_ticket>>
      PROVE  Quiet
  BY <1>1 DEF Steps, Moved
<1>2. ASSUME NEW t \in Threads, Steps(t), at[t] = "update", NEW reply \in BOOLEAN,
             ExecuteUpdate(t, reply)
      PROVE  Quiet \/ (Issues(t) /\ at'[t] = "sending")
  <2>1. CASE reply
    <3>1. Issues(t) /\ Go(t, "sending") /\ "sending" \in Stages
      BY <1>2, <2>1 DEF ExecuteUpdate, Issues, Stages
    <3> QED
      BY <1>i, <3>1, GoFacts
  <2>2. CASE ~reply
    BY <1>1, <1>2, <2>2 DEF ExecuteUpdate
  <2> QED
    BY <2>1, <2>2
<1>3. ASSUME NEW c \in Calls, Call(c)
      PROVE  Quiet \/ Send(c) \/ (Issues(c) /\ at'[c] = "sending")
  <2>i. c \in Threads /\ Steps(c)
    BY <1>3, <1>i, CallSteps
  <2>1. CASE Refresh(c) \/ ApplyResize(c) \/ SetColors(c)
    <3>1. PICK reply \in BOOLEAN : ExecuteUpdate(c, reply) /\ at[c] = "update"
      BY <2>1 DEF Refresh, ApplyResize, SetColors, Waiting
    <3> QED
      BY <1>2, <2>i, <3>1
  <2>2. CASE \/ LookUp(c) \/ EnterLifecycle(c) \/ LockModel(c) \/ AttachView(c) \/ DetachView(c)
             \/ RemoveViewSelection(c) \/ AuthorizeRead(c) \/ AuthorizeResize(c)
    <3>1. at[c] # "sending" /\ UNCHANGED <<ticket, replies>>
      BY <2>2 DEF LookUp, EnterLifecycle, LockModel, AttachView, DetachView, RemoveViewSelection,
         AuthorizeRead, AuthorizeResize, Waiting
    <3> QED
      BY <1>1, <2>i, <3>1 DEF replies
  <2>3. CASE \/ AuthorizeAndEnqueue(c) \/ AutomationInput(c) \/ TrackViewSelection(c)
             \/ FailResize(c) \/ WriteRegistry(c) \/ Terminate(c)
    <3>1. at[c] # "sending" /\ UNCHANGED <<ticket, next_ticket>>
      BY <2>3 DEF AuthorizeAndEnqueue, AutomationInput, TrackViewSelection, FailResize,
         WriteRegistry, Terminate, Waiting, replies
    <3> QED
      BY <1>1, <2>i, <3>1
  <2> QED
    BY <1>3, <2>1, <2>2, <2>3 DEF Call
<1>4. ASSUME Frames PROVE Quiet \/ Send("frames") \/ (Issues("frames") /\ at'["frames"] = "sending")
  <2>i. Steps("frames")
    BY <1>4, FramesSteps
  <2>1. CASE Feed
    <3>1. PICK reply \in BOOLEAN : ExecuteUpdate("frames", reply) /\ at["frames"] = "update"
      BY <2>1 DEF Feed
    <3> QED
      BY <1>2, <1>i, <2>i, <3>1
  <2>2. CASE ReceiveOutput \/ HasActiveViews \/ LockModel("frames") \/ MarkExited \/ CloseReplies
             \/ Conclude
    <3>1. at["frames"] # "sending" /\ UNCHANGED <<ticket, next_ticket>>
      BY <2>2 DEF ReceiveOutput, HasActiveViews, LockModel, MarkExited, CloseReplies, Conclude, replies
    <3> QED
      BY <1>1, <1>i, <2>i, <3>1
  <2> QED
    BY <1>4, <2>1, <2>2 DEF Frames
<1>5. ASSUME Input \/ Replies \/ \E t \in {"input", "replies"}, failed \in BOOLEAN : WriteReturns(t, failed)
      PROVE  Quiet
  <2>1. PICK t \in {"input", "replies"} : Steps(t)
    BY <1>5, InputSteps, RepliesSteps, WriteReturnsSteps
  <2>2. UNCHANGED <<ticket, next_ticket>>
    BY <1>5 DEF Input, Replies, ReceiveInput, LockModel, Scroll, AlternateScroll, LockWriter,
       ExecuteUpdate, ReceiveReplies, WriteReturns, replies
  <2>3. at[t] # "sending"
    BY <1>i, <2>1, Names DEF IInv, Control, PlacedAt
  <2> QED
    BY <1>1, <1>i, <2>1, <2>2, <2>3
<1>6. ASSUME NEW c \in Calls, NEW v \in Views, NEW kind \in mix.asks[c], Begin(c, kind, v)
      PROVE  Quiet
  <2>1. kind \in Requests
    BY TerminalIOAssumption DEF IInv, TypeOK
  <2>2. Steps(c) /\ at[c] # "sending" /\ UNCHANGED <<ticket, next_ticket>>
    BY <1>6, <2>1, BeginSteps DEF Begin, replies
  <2> QED
    BY <1>1, <1>i, <2>2
<1>7. ASSUME World \/ UNCHANGED vars PROVE Quiet
  BY <1>7, WorldFacts DEF vars, threads, replies
<1> HIDE DEF Quiet
<1>8. ASSUME NEW c \in Calls, Call(c)
      PROVE  Quiet \/ (Send(c) /\ Steps(c)) \/ (Issues(c) /\ at'[c] = "sending")
  BY <1>3, <1>8, CallSteps
<1>9. ASSUME Frames
      PROVE  Quiet \/ (Send("frames") /\ Steps("frames")) \/ (Issues("frames") /\ at'["frames"] = "sending")
  BY <1>4, <1>9, FramesSteps
<1>10. \/ Quiet
       \/ \E t \in Threads : Send(t) /\ Steps(t)
       \/ \E t \in Threads : Issues(t) /\ at'[t] = "sending"
  BY <1>i, <1>5, <1>6, <1>7, <1>8, <1>9 DEF Next, World
<1> QED
  BY <1>10 DEF Quiet

\* No ticket gets lost.
LEMMA NextHanded == ASSUME IInv, Handed, [Next]_vars PROVE Handed'
<1>i. RepliesOK /\ Ticketed /\ ThreadsOK
  BY RepliesTyped DEF IInv, Control
<1>n. next_send \in Nat /\ next_ticket \in Nat
  BY <1>i DEF RepliesOK
<1>1. /\ closed => closed'
      /\ next_send' = next_send \/ \E t \in Threads : Send(t)
  <2>1. ASSUME \/ Undisturbed \/ CloseReplies \/ ReceiveReplies
               \/ \E c \in Calls : Terminate(c)
               \/ \E failed \in BOOLEAN : WriteReturns("replies", failed)
        PROVE  next_send' = next_send /\ (closed => closed')
    BY <2>1, <1>i DEF RepliesOK, Undisturbed, CloseReplies, ReceiveReplies, Terminate,
       WriteReturns, batches
  <2>2. ASSUME NEW t \in Threads, Send(t) PROVE closed => closed'
    BY <2>2 DEF Send
  <2> QED
    BY <2>1, <2>2, NextReplies
<1>2. ASSUME ~closed', NEW k \in Nat, next_send' <= k, k < next_ticket'
      PROVE  \E t \in Threads : at'[t] = "sending" /\ ticket'[t] = k
  <2>0. ~closed
    BY <1>1, <1>2
  <2>1. CASE UNCHANGED <<ticket, next_ticket>> /\ \A u \in Threads : at[u] = "sending" => at'[u] = "sending"
    <3>1. next_send <= k
      <4>1. CASE next_send' = next_send
        BY <1>2, <4>1
      <4>2. CASE \E t \in Threads : Send(t)
        BY <1>n, <1>2, <2>0, <4>2 DEF Send
      <4> QED
        BY <1>1, <4>1, <4>2
    <3>2. PICK t \in Threads : at[t] = "sending" /\ ticket[t] = k
      BY <1>2, <2>0, <2>1, <3>1 DEF Handed
    <3> QED
      BY <2>1, <3>2
  <2>2. ASSUME NEW t \in Threads, Send(t), Steps(t)
        PROVE  \E u \in Threads : at'[u] = "sending" /\ ticket'[u] = k
    <3>1. /\ next_send' = next_send + 1 /\ ticket[t] = next_send /\ next_ticket' = next_ticket
          /\ ticket' = [ticket EXCEPT ![t] = None]
      BY <2>0, <2>2 DEF Send, MaySend
    <3>2. next_send <= k /\ k # next_send
      BY <1>n, <1>2, <3>1
    <3>3. PICK u \in Threads : at[u] = "sending" /\ ticket[u] = k
      BY <1>2, <2>0, <3>1, <3>2 DEF Handed
    <3>4. u # t
      BY <3>1, <3>2, <3>3
    <3> QED
      BY <1>i, <2>2, <3>1, <3>3, <3>4 DEF Steps, Moved, ThreadsOK
  <2>3. ASSUME NEW t \in Threads, Issues(t), at'[t] = "sending"
        PROVE  \E u \in Threads : at'[u] = "sending" /\ ticket'[u] = k
    <3>1. /\ next_ticket' = next_ticket + 1 /\ ticket' = [ticket EXCEPT ![t] = next_ticket]
          /\ at[t] # "sending" /\ \A u \in Threads \ {t} : at'[u] = at[u]
      BY <2>3 DEF Issues, Steps, Moved
    <3>2. CASE k = next_ticket
      BY <1>i, <2>3, <3>1, <3>2 DEF ThreadsOK
    <3>3. CASE k # next_ticket
      <4>1. k < next_ticket
        BY <1>n, <1>2, <3>1, <3>3
      <4>2. next_send <= k
        <5>1. CASE next_send' = next_send
          BY <1>2, <5>1
        <5>2. CASE \E u \in Threads : Send(u)
          BY <1>n, <1>2, <2>0, <5>2 DEF Send
        <5> QED
          BY <1>1, <5>1, <5>2
      <4>3. PICK u \in Threads : at[u] = "sending" /\ ticket[u] = k
        BY <2>0, <4>1, <4>2 DEF Handed
      <4> QED
        BY <1>i, <3>1, <4>3 DEF ThreadsOK
    <3> QED
      BY <3>2, <3>3
  <2> QED
    BY <2>1, <2>2, <2>3, TicketMoves
<1>3. at'["replies"] = "ended" => closed'
  <2> SUFFICES ASSUME at'["replies"] = "ended", at["replies"] # "ended" PROVE closed'
    BY <1>1 DEF Handed
  <2>1. ASSUME NEW t \in Threads, Steps(t) PROVE t = "replies"
    BY <2>1, Names DEF Steps, Moved
  <2>2. ~UNCHANGED threads
    BY DEF threads
  <2>3. ~UNCHANGED vars /\ ~World
    BY <2>2, WorldFacts DEF vars
  <2>4. ASSUME NEW c \in Calls, NEW v \in Views, NEW kind \in mix.asks[c], Begin(c, kind, v)
        PROVE  FALSE
    <3>1. kind \in Requests
      BY TerminalIOAssumption DEF IInv, TypeOK
    <3> QED
      BY <2>1, <2>4, <3>1, BeginSteps, Names
  <2>5. ~(\E c \in Calls : Call(c)) /\ ~Frames /\ ~Input
        /\ \A failed \in BOOLEAN : ~WriteReturns("input", failed)
    BY <2>1, CallSteps, FramesSteps, InputSteps, WriteReturnsSteps, Names
  <2>6. Replies \/ \E failed \in BOOLEAN : WriteReturns("replies", failed)
    BY <2>3, <2>4, <2>5 DEF Next, World
  <2>7. CASE ReceiveReplies
    <3>1. CASE pending = <<>>
      BY <2>7, <3>1 DEF ReceiveReplies, replies
    <3>2. CASE pending # <<>>
      <4>1. Go("replies", "writer") /\ "writer" \in Stages
        BY <2>7, <3>2 DEF ReceiveReplies, Stages
      <4> QED
        BY <1>i, <4>1, GoFacts, Names
    <3> QED
      BY <3>1, <3>2
  <2>8. CASE LockWriter("replies")
    <3>1. Go("replies", "writing") /\ "writing" \in Stages
      BY <2>8 DEF LockWriter, Stages
    <3> QED
      BY <1>i, <3>1, GoFacts, Names
  <2>9. ASSUME NEW failed \in BOOLEAN, WriteReturns("replies", failed) PROVE closed'
    <3>1. CASE failed
      BY <2>9, <3>1 DEF WriteReturns
    <3>2. CASE ~failed
      <4>1. Go("replies", "recv") /\ "recv" \in Stages
        BY <2>9, <3>2 DEF WriteReturns, Stages
      <4> QED
        BY <1>i, <4>1, GoFacts, Names
    <3> QED
      BY <3>1, <3>2
  <2> QED
    BY <2>6, <2>7, <2>8, <2>9 DEF Replies
<1> QED
  BY <1>2, <1>3 DEF Handed

LEMMA InitOrderly == Init => Orderly
<1> SUFFICES ASSUME Init PROVE Orderly
  OBVIOUS
<1>1. \A t \in Threads : HoldsAt(t)
  BY Names DEF Init, HoldsAt
<1>2. next_send = 0 /\ next_ticket = 0 /\ at["replies"] = "recv"
  BY Names DEF Init
<1>3. Handed
  BY <1>2 DEF Handed
<1> QED
  BY <1>1, <1>3 DEF Orderly

THEOREM LocksInOrder == Spec => []Orderly
<1>1. IInv /\ Orderly /\ [Next]_vars => Orderly'
  <2> SUFFICES ASSUME IInv, Orderly, [Next]_vars PROVE Orderly'
    OBVIOUS
  <2>1. \A t \in Threads : HoldsAt(t)'
    BY NextHolds DEF Orderly
  <2>2. Handed'
    BY NextHanded DEF Orderly
  <2> QED
    BY <2>1, <2>2 DEF Orderly
<1> QED
  BY <1>1, InitOrderly, Inductive, PTL DEF Spec

\* Of some tickets one is the first, by well-foundedness.
LEMMA Earliest ==
    ASSUME NEW K, K \subseteq Nat, K # {}
    PROVE  \E k \in K : \A j \in K : k <= j
<1> DEFINE R == OpToRel(<, Nat)
<1>1. IsWellFoundedOn(R, Nat)
  BY NatLessThanWellFounded
<1>2. \A j, k \in Nat : j < k => <<j, k>> \in R
  BY DEF OpToRel
<1> HIDE DEF R
<1>3. PICK k \in K : \A j \in K : <<j, k>> \notin R
  BY <1>1, WFMin
<1>4. k \in Nat /\ \A j \in K : j \in Nat /\ ~(j < k)
  BY <1>2, <1>3
<1> QED
  BY <1>4

\* The last of a set of threads that all pause at places of the order waits for
\* none of the others; of those with a reply in hand it is the first ticket.
LEMMA OrderlyNoCircle == ASSUME IInv, Orderly PROVE NoCircularWait
<1> SUFFICES ASSUME NEW S \in SUBSET Threads, S # {}
             PROVE  \E t \in S : \A u \in S : ~WaitsOn(t, u)
  BY DEF NoCircularWait
<1>i. Ticketed /\ \A t \in Threads : PlacedAt(t)
  BY DEF IInv, Control
<1>h. ASSUME NEW u \in S
      PROVE  /\ u \in readers => at[u] \in {"lifecycle", "authority", "model", "update", "sending"}
             /\ lifecycle = u => at[u] \in {"authority", "model", "update"}
             /\ authority = u => at[u] \in {"model", "update", "sending"}
             /\ model_operation = u => at[u] = "update"
             /\ writer = u => at[u] = "writing"
  <2>1. HoldsAt(u)
    BY DEF Orderly
  <2> QED
    BY <2>1 DEF HoldsAt
<1>1. CASE \E t \in S : at[t] \notin Pause
  BY <1>1 DEF WaitsOn, Pause
<1>2. CASE \A t \in S : at[t] \in Pause
  <2>u. \A u \in S : at[u] \notin {"update", "writing"}
    BY <1>2 DEF Pause
  <2>1. CASE \E t \in S : at[t] = "writer"
    BY <1>h, <2>u, <2>1 DEF WaitsOn
  <2>2. CASE \E t \in S : at[t] = "model"
    BY <1>h, <2>u, <2>2 DEF WaitsOn
  <2>3. CASE (\A t \in S : at[t] # "writer") /\ \E t \in S : at[t] = "sending"
    <3> DEFINE K == {ticket[t] : t \in {u \in S : at[u] = "sending"}}
    <3>1. K \subseteq Nat
      BY <1>i DEF Ticketed
    <3>2. K # {}
      BY <2>3
    <3>3. PICK k \in K : \A j \in K : k <= j
      <4> HIDE DEF K
      <4> QED
        BY <3>1, <3>2, Earliest
    <3>4. PICK t \in S : at[t] = "sending" /\ ticket[t] = k
      BY <3>3
    <3>5. \A u \in S : at[u] = "sending" => ~(ticket[u] < ticket[t])
      <4> SUFFICES ASSUME NEW u \in S, at[u] = "sending", ticket[u] < ticket[t] PROVE FALSE
        OBVIOUS
      <4>1. ticket[u] \in K /\ ticket[u] \in Nat /\ ticket[t] \in Nat
        BY <1>i, <3>4 DEF Ticketed
      <4> HIDE DEF K
      <4> QED
        BY <3>3, <3>4, <4>1
    <3>6. "replies" \notin S
      BY <1>2, <1>i, <2>3, Names DEF PlacedAt, Pause
    <3> QED
      BY <3>4, <3>5, <3>6 DEF WaitsOn
  <2>4. CASE (\A t \in S : at[t] \notin {"model", "sending"})
             /\ \E t \in S : at[t] \in {"authority", "look", "final"}
    BY <1>h, <2>u, <2>4 DEF WaitsOn
  <2>5. CASE (\A t \in S : at[t] \notin {"model", "sending", "authority", "look", "final"})
             /\ \E t \in S : at[t] = "lifecycle"
    BY <1>h, <2>u, <2>5 DEF WaitsOn
  <2>6. CASE (\A t \in S : at[t] \notin {"model", "sending", "authority", "look", "final", "lifecycle"})
             /\ \E t \in S : at[t] = "write"
    BY <1>h, <2>u, <2>6 DEF WaitsOn
  <2>7. CASE \A t \in S : at[t] = "registry"
    BY <2>7 DEF WaitsOn
  <2> QED
    BY <1>2, <2>1, <2>2, <2>3, <2>4, <2>5, <2>6, <2>7 DEF Pause
<1> QED
  BY <1>1, <1>2

\* Whoever is blocked waits for somebody, who is doing something.
LEMMA BlockedWaits ==
    ASSUME IInv, Orderly, NEW t \in Threads, Blocked(t)
    PROVE  \E u \in Threads : WaitsOn(t, u) /\ (~Blocked(u) => Running(u))
<1>i. /\ Ticketed /\ RepliesOK /\ ThreadsOK /\ Calls \subseteq Threads
      /\ {lifecycle, authority, model_operation, writer} \subseteq Threads \cup {None}
      /\ readers \subseteq Threads /\ "replies" \in Threads /\ PlacedAt("replies")
  BY Names, RepliesTyped DEF IInv, Control, ThreadsOK
<1>h. \A u \in Threads : HoldsAt(u)
  BY DEF Orderly
<1>1. CASE at[t] = "registry"
  <2>1. PICK u \in Threads : at[u] = "write"
    BY <1>1 DEF Blocked, RegistryOpen
  <2> QED
    BY <1>1, <2>1 DEF WaitsOn, Running, Pause
<1>2. CASE at[t] = "write"
  <2>1. PICK u \in readers : TRUE
    BY <1>2 DEF Blocked
  <2>2. u \in Threads /\ at[u] \in Pause \cup {"update"}
    BY <1>i, <1>h, <2>1 DEF HoldsAt, Pause
  <2> QED
    BY <1>2, <2>1, <2>2 DEF WaitsOn, Running
<1>3. CASE at[t] = "lifecycle"
  <2>1. lifecycle \in Threads
    BY <1>i, <1>3 DEF Blocked
  <2>2. at[lifecycle] \in Pause \cup {"update"}
    BY <1>h, <2>1 DEF HoldsAt, Pause
  <2> QED
    BY <1>3, <2>1, <2>2 DEF WaitsOn, Running
<1>4. CASE at[t] \in {"authority", "look", "final"}
  <2>1. authority \in Threads
    BY <1>i, <1>4 DEF Blocked
  <2>2. at[authority] \in Pause \cup {"update"}
    BY <1>h, <2>1 DEF HoldsAt, Pause
  <2> QED
    BY <1>4, <2>1, <2>2 DEF WaitsOn, Running
<1>5. CASE at[t] = "model"
  <2>1. model_operation \in Threads
    BY <1>i, <1>5 DEF Blocked
  <2>2. at[model_operation] = "update"
    BY <1>h, <2>1 DEF HoldsAt
  <2> QED
    BY <1>5, <2>1, <2>2 DEF WaitsOn, Running
<1>6. CASE at[t] = "writer"
  <2>1. writer \in Threads
    BY <1>i, <1>6 DEF Blocked
  <2>2. at[writer] = "writing"
    BY <1>h, <2>1 DEF HoldsAt
  <2> QED
    BY <1>6, <2>1, <2>2 DEF WaitsOn, Running
<1>7. CASE at[t] = "sending"
  <2>1. ~closed /\ ~(ticket[t] = next_send /\ (draining \/ pending = <<>>))
    BY <1>7 DEF Blocked, MaySend
  <2>2. /\ ticket[t] \in Nat /\ ticket[t] < next_ticket /\ next_send <= ticket[t]
        /\ next_send \in Nat /\ next_ticket \in Nat
    BY <1>i, <1>7, <2>1 DEF Ticketed, RepliesOK
  <2>3. CASE ticket[t] # next_send
    <3>1. next_send < ticket[t] /\ next_send <= next_send /\ next_send < next_ticket
      BY <2>2, <2>3
    <3>2. PICK u \in Threads : at[u] = "sending" /\ ticket[u] = next_send
      BY <2>1, <2>2, <3>1 DEF Orderly, Handed
    <3> QED
      BY <1>7, <2>1, <3>1, <3>2 DEF WaitsOn, Running, Pause
  <2>4. CASE ticket[t] = next_send
    <3>1. ~draining /\ pending # <<>>
      BY <2>1, <2>4
    <3>2. at["replies"] \in {"recv", "writer", "writing"}
      BY <1>i, <2>1, Names DEF Orderly, Handed, PlacedAt
    <3> QED
      BY <1>i, <1>7, <2>1, <3>1, <3>2 DEF WaitsOn, Running, Pause
  <2> QED
    BY <2>3, <2>4
<1> QED
  BY <1>1, <1>2, <1>3, <1>4, <1>5, <1>6, <1>7 DEF Blocked

\* The locks are taken in one order and no reply is waited for that nobody has,
\* so the threads of a session never wait for one another in a circle.
THEOREM NeverWaitInACircle == Spec => []NoCircularWait
<1>1. IInv /\ Orderly => NoCircularWait
  BY OrderlyNoCircle
<1> QED
  BY <1>1, Inductive, LocksInOrder, PTL

\* However many calls contend, and whatever the program fails to read: as long as
\* a thread is blocked there is one that is not, and all that can keep that one
\* where it is is the program it writes to.
THEOREM SomeoneAlwaysGoesOn == Spec => []SomeoneGoesOn
<1>1. IInv /\ Orderly => SomeoneGoesOn
  <2> SUFFICES ASSUME IInv, Orderly, NEW w \in Threads, Blocked(w)
               PROVE  \E u \in Threads : Running(u)
    BY DEF SomeoneGoesOn
  <2> DEFINE S == {t \in Threads : Blocked(t)}
  <2>1. PICK t \in S : \A u \in S : ~WaitsOn(t, u)
    <3>1. S \in SUBSET Threads /\ S # {}
      OBVIOUS
    <3> HIDE DEF S
    <3> QED
      BY <3>1, OrderlyNoCircle DEF NoCircularWait
  <2>2. PICK u \in Threads : WaitsOn(t, u) /\ (~Blocked(u) => Running(u))
    BY BlockedWaits
  <2> QED
    BY <2>1, <2>2
<1> QED
  BY <1>1, Inductive, LocksInOrder, PTL

=============================================================================
