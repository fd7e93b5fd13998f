----------------------------- MODULE TerminalIO -----------------------------
(***************************************************************************)
(* The threads and the locks of one session (session.rs, replies.rs): the  *)
(* calls of its clients, the frame thread that feeds the program's output  *)
(* to the terminal model, the input actor and the reply writer that share  *)
(* the PTY's writer, and the ladder of a termination.  The program may     *)
(* stop reading what is written to it, for good.                           *)
(*                                                                         *)
(* A lock that is only ever held over steps that cannot block (summary,    *)
(* input_order, the model's own, the reply queue's) is not a variable: its *)
(* critical section is one step.                                           *)
(***************************************************************************)
EXTENDS Naturals, Sequences, FiniteSets, SequencesExt

CONSTANTS
    Calls,       \* requests to the daemon, finitely many, each made once
    Views,       \* view ids
    None,        \* no thread, no call, no view
    QueueSize,   \* slots of the input queue
    DrainCap,    \* replies a draining batch holds
    MaxChunks,   \* slots of the channel from the PTY's read thread
    Mixes        \* bound: what each call may ask, which views are attached at
                 \* first, how many replies the terminal gives meanwhile and
                 \* whether its model may fail to resize

\* Requests whose handler looks the session up in an `if let`, and so keeps the
\* registry's read lock while it serves them ...
Holding == {"input", "resize", "colors", "unfenced", "detach"}
\* ... and those that only look it up.
Requests == Holding \cup {"attach", "claim", "select", "automation", "terminate", "write"}

ASSUME TerminalIOAssumption ==
    /\ IsFiniteSet(Calls)
    /\ {QueueSize, DrainCap, MaxChunks} \subseteq Nat \ {0}
    /\ Mixes \subseteq
           [asks : [Calls -> SUBSET Requests], attached : SUBSET Views, replies : Nat,
            faults : BOOLEAN]
    /\ None \notin Calls \cup Views \cup {"frames", "input", "replies"}
    /\ {"frames", "input", "replies"} \cap Calls = {}

VARIABLES
    mix,                \* one of Mixes
    \* What each thread is doing.
    request,            \* call -> what it asks, of which view, and the human-input
                        \* epoch its client knew
    at,                 \* thread -> where it is
    ticket,             \* thread -> the reply it has prepared
    \* Locks: the thread that holds each.
    lifecycle, authority, model_operation, writer,
    readers,            \* the calls that hold the registry's read lock
    \* The session.
    attached,           \* views the authority holds
    selected,           \* views the model tracks a selection for
    unfenced,           \* history: views read through selection_text
    size,               \* the authority's size ...
    model_size,         \* ... the terminal's in the model ...
    pty_size,           \* ... and the PTY's
    resizing,           \* the size a claim or a resize is about to give
    metadata,           \* the size in the model's last snapshot
    split,              \* history: a failed resize could not be undone ...
    refusals,           \* ... and how many failed since that snapshot; 2 for more
    exited,             \* Session::exited
    termination_started,
    \* Input.
    queue,              \* the input queue: "text", "scroll", "shutdown"
    accepted,           \* history: what was queued, in that order
    \* ReplyQueue.
    pending, next_ticket, next_send, draining, overflowed, closed,
    taken,              \* the batch the reply writer has in hand
    delivered,          \* history: the replies written to the PTY
    \* The PTY.
    chunks,             \* output between the read thread and the frame thread
    read_ended,         \* the read thread has ended
    slave,              \* "open" while some process holds it
    forced              \* a byte is in the shutdown pipe

threads == <<request, at, ticket>>
locks == <<lifecycle, authority, model_operation, writer, readers>>
views == <<attached, selected, unfenced>>
terminal == <<model_size, pty_size, metadata, split, refusals>>
sizes == <<size, resizing, terminal>>
input == <<queue, accepted>>
batches == <<pending, overflowed, taken, delivered>>
replies == <<batches, next_ticket, next_send, draining, closed>>
pty == <<mix, chunks, read_ended, slave, forced>>
vars == <<threads, locks, views, sizes, exited, termination_started, input, replies, pty>>

Threads == Calls \cup {"frames", "input", "replies"}
Tickets == Nat
Sizes == {"small", "large"}
Batch == Seq(Tickets)

NoRequest == [kind |-> None, view |-> None, planned |-> 0]

Stages == {"idle", "registry", "lifecycle", "authority", "model", "update", "sending",
           "terminate", "done", "recv", "look", "final", "exited", "write", "concluded",
           "writer", "writing", "ended"}

TypeOK ==
    /\ mix \in Mixes
    /\ request \in [Calls -> {NoRequest} \cup
           [kind : Requests, view : Views, planned : 0..Cardinality(Calls)]]
    /\ at \in [Threads -> Stages]
    /\ ticket \in [Threads -> Tickets \cup {None}]
    /\ {lifecycle, authority, model_operation, writer} \subseteq Threads \cup {None}
    /\ readers \subseteq Calls
    /\ {attached, selected, unfenced} \subseteq SUBSET Views
    /\ {size, model_size, pty_size, resizing, metadata} \subseteq Sizes
    /\ refusals \in 0..2
    /\ {split, exited, termination_started, draining, overflowed, closed,
        read_ended, forced} \subseteq BOOLEAN
    /\ queue \in BoundedSeq({"text", "scroll", "shutdown"}, QueueSize)
    /\ accepted \in Seq([by : {"human", "automation", "other"},
                         planned : 0..Cardinality(Calls)])
    /\ {pending, taken, delivered} \subseteq Batch
    /\ {next_ticket, next_send} \subseteq 0..mix.replies
    /\ chunks \in 0..MaxChunks
    /\ slave \in {"open", "closed"}

Init ==
    /\ mix \in Mixes
    /\ request = [c \in Calls |-> NoRequest]
    /\ at = [t \in Threads |-> IF t \in Calls THEN "idle" ELSE "recv"]
    /\ ticket = [t \in Threads |-> None]
    /\ lifecycle = None /\ authority = None /\ model_operation = None /\ writer = None
    /\ readers = {}
    /\ attached = mix.attached /\ selected = {} /\ unfenced = {}
    /\ size = "small" /\ model_size = "small" /\ pty_size = "small"
    /\ resizing = "small" /\ metadata = "small" /\ split = FALSE /\ refusals = 0
    /\ exited = FALSE /\ termination_started = FALSE
    /\ queue = <<>> /\ accepted = <<>>
    /\ pending = <<>> /\ next_ticket = 0 /\ next_send = 0
    /\ draining = FALSE /\ overflowed = FALSE /\ closed = FALSE
    /\ taken = <<>> /\ delivered = <<>>
    /\ chunks = 0 /\ read_ended = FALSE /\ slave = "open" /\ forced = FALSE

-----------------------------------------------------------------------------
(* Steps that several threads share. *)

Go(t, stage) == at' = [at EXCEPT ![t] = stage]

ReleaseModel(t) == model_operation' = IF model_operation = t THEN None ELSE model_operation

\* A call returns and its guards are dropped; a thread goes back to its loop.
Return(t) ==
    /\ request' = IF t \in Calls THEN [request EXCEPT ![t] = NoRequest] ELSE request
    /\ lifecycle' = IF lifecycle = t THEN None ELSE lifecycle
    /\ authority' = IF authority = t THEN None ELSE authority
    /\ ReleaseModel(t)
    /\ readers' = readers \ {t}
    /\ Go(t, CASE t \in Calls -> "done"
               [] t = "frames" -> IF exited THEN "write" ELSE "recv"
               [] OTHER -> IF exited THEN "ended" ELSE "recv")

\* Nobody waits for the registry's write lock: a reader that comes after a
\* waiting writer waits behind it.
RegistryOpen == \A t \in Threads : at[t] # "write"

Waiting(t, kind, stage) == at[t] = stage /\ request[t].kind = kind

Accepts == Len(queue) < QueueSize /\ at["input"] # "ended"

\* A fault: a queue without a bound.
TrySendFaulty(operation) == queue' = Append(queue, operation)

\* try_send: a full or closed queue refuses.
TrySend(operation) == queue' = IF Accepts THEN Append(queue, operation) ELSE queue

human_input_epoch == Cardinality({k \in DOMAIN accepted : accepted[k].by = "human"})

\* Enqueue one operation and record it, under the input_order lock.
Enqueue(operation, record) ==
    /\ TrySend(operation)
    /\ accepted' = IF Accepts THEN Append(accepted, record) ELSE accepted

\* The thread waits for model_operation; a fenced read drops the authority as
\* soon as it has it.
LockModel(t) ==
    /\ at[t] = "model"
    /\ model_operation = None
    /\ model_operation' = t
    /\ authority' = IF t \in Calls /\ request[t].kind = "select" THEN None ELSE authority
    /\ Go(t, "update")
    /\ UNCHANGED <<request, ticket, lifecycle, writer, readers, views, sizes, exited,
                   termination_started, input, replies, pty>>

\* The size a claim or a resize commits as it returns.
Commit(t) ==
    size' = IF t \in Calls /\ request[t].kind \in {"claim", "resize"} THEN resizing ELSE size

\* A fault: the lock is kept until the reply has been handed over.
ExecuteUpdateFaulty(t, reply) ==
    /\ IF reply
       THEN /\ next_ticket < mix.replies
            /\ next_ticket' = next_ticket + 1
            /\ ticket' = [ticket EXCEPT ![t] = next_ticket]
            /\ Go(t, "sending")
            /\ UNCHANGED <<request, size, locks>>
       ELSE /\ Return(t)
            /\ Commit(t)
            /\ UNCHANGED <<next_ticket, ticket>>
    /\ UNCHANGED <<writer, exited, termination_started, input, batches,
                   next_send, draining, closed, pty>>

\* execute_update: what the update publishes leaves under model_operation, and
\* the reply it may hold gets its ticket there; the lock is dropped before the
\* thread hands the reply over.
ExecuteUpdate(t, reply) ==
    /\ IF reply
       THEN /\ next_ticket < mix.replies
            /\ model_operation' = None
            /\ next_ticket' = next_ticket + 1
            /\ ticket' = [ticket EXCEPT ![t] = next_ticket]
            /\ Go(t, "sending")
            /\ UNCHANGED <<request, size, lifecycle, authority, readers>>
       ELSE /\ Return(t)
            /\ Commit(t)
            /\ UNCHANGED <<next_ticket, ticket>>
    /\ UNCHANGED <<writer, exited, termination_started, input, batches,
                   next_send, draining, closed, pty>>

\* snapshot_update: the metadata takes the terminal's size before a frame is
\* encoded, which may fail; without a snapshot there is no reply either.
Snapshot(reply) ==
    \/ metadata' = model_size /\ refusals' = IF refusals = 1 THEN 0 ELSE refusals
    \/ ~reply /\ UNCHANGED <<metadata, refusals>>

\* A fault: whoever comes first goes first.
MaySendFaulty(t) == closed \/ draining \/ pending = <<>>

\* A producer waits for its turn and, outside drain mode, for the queued batch
\* to be taken.
MaySend(t) == closed \/ (ticket[t] = next_send /\ (draining \/ pending = <<>>))

\* ReplyQueue::send
Send(t) ==
    /\ at[t] = "sending"
    /\ MaySend(t)
    /\ IF closed
       THEN UNCHANGED <<next_send, pending, overflowed>>
       ELSE /\ next_send' = next_send + 1
            /\ LET fits == ~overflowed /\ Len(pending) < DrainCap
               IN  /\ pending' = IF fits THEN Append(pending, ticket[t]) ELSE pending
                   /\ overflowed' = ~fits
    /\ ticket' = [ticket EXCEPT ![t] = None]
    /\ Return(t)
    /\ Commit(t)
    /\ UNCHANGED <<writer, views, terminal, resizing, exited, termination_started, input,
                   next_ticket, draining, closed, taken, delivered, pty>>

-----------------------------------------------------------------------------
(* The calls of clients. *)

\* Where a request begins once its session is found.
First(kind) ==
    CASE kind \in {"attach", "input", "automation"} -> "lifecycle"
      [] kind \in {"claim", "resize", "select", "detach"} -> "authority"
      [] kind \in {"colors", "unfenced"} -> "model"
      [] kind = "terminate" -> "terminate"
      [] kind = "write" -> "write"

\* A request arrives.  No handler of the daemon makes the fenced read: a host
\* that embeds the session does, with the session at hand.  An automation was
\* planned against the epoch its client has read by now.
Begin(c, kind, v) ==
    /\ at[c] = "idle"
    /\ request' = [request EXCEPT ![c] =
                      [kind |-> kind, view |-> v,
                       planned |-> IF kind = "automation" THEN human_input_epoch ELSE 0]]
    /\ Go(c, IF kind \in {"write", "select"} THEN First(kind) ELSE "registry")
    /\ UNCHANGED <<ticket, locks, views, sizes, exited, termination_started, input, replies, pty>>

\* The session is found; a termination first detaches the views its client has
\* attached.
LookUp(c) ==
    /\ at[c] = "registry"
    /\ RegistryOpen
    /\ readers' = IF request[c].kind \in Holding THEN readers \cup {c} ELSE readers
    /\ \/ Go(c, First(request[c].kind))
       \/ request[c].kind = "terminate" /\ Go(c, "authority")
    /\ UNCHANGED <<request, ticket, lifecycle, authority, model_operation, writer, views,
                   sizes, exited, termination_started, input, replies, pty>>

\* attach_view_with_access and authorize_and_enqueue take lifecycle first.
EnterLifecycle(c) ==
    /\ Waiting(c, "attach", "lifecycle") \/ Waiting(c, "input", "lifecycle")
    /\ lifecycle = None
    /\ lifecycle' = c
    /\ Go(c, "authority")
    /\ UNCHANGED <<request, ticket, authority, model_operation, writer, readers, views,
                   sizes, exited, termination_started, input, replies, pty>>

\* authorize_and_enqueue: the view may be gone; a full queue refuses.
AuthorizeAndEnqueue(c) ==
    /\ Waiting(c, "input", "authority")
    /\ authority = None
    /\ \/ /\ request[c].view \in attached
          /\ \/ Enqueue("text", [by |-> "human", planned |-> 0])
             \/ Enqueue("scroll", [by |-> "other", planned |-> 0])
       \/ /\ request[c].view \notin attached
          /\ UNCHANGED input
    /\ Return(c)
    /\ UNCHANGED <<ticket, writer, views, sizes, exited,
                   termination_started, replies, pty>>

\* A fault: whatever was typed since.
AcceptsAutomationFaulty(c) == TRUE

\* automation_input: refused if a human has typed since it was planned.
AcceptsAutomation(c) == human_input_epoch = request[c].planned

AutomationInput(c) ==
    /\ Waiting(c, "automation", "lifecycle")
    /\ lifecycle = None
    /\ IF AcceptsAutomation(c)
       THEN Enqueue("text", [by |-> "automation", planned |-> request[c].planned])
       ELSE UNCHANGED input
    /\ Return(c)
    /\ UNCHANGED <<ticket, writer, views, sizes, exited,
                   termination_started, replies, pty>>

\* attach_view_with_access: attached, and then rendered for.
AttachView(c) ==
    /\ Waiting(c, "attach", "authority")
    /\ authority = None
    /\ attached' = attached \cup {request[c].view}
    /\ Go(c, "model")
    /\ UNCHANGED <<request, ticket, locks, selected, unfenced, sizes, exited,
                   termination_started, input, replies, pty>>

Refresh(c) ==
    /\ Waiting(c, "attach", "update")
    /\ ExecuteUpdate(c, FALSE) /\ Snapshot(FALSE)
    /\ UNCHANGED <<views, model_size, pty_size, resizing, split>>

\* A termination goes on once the view is detached.
Detached(c) ==
    IF request[c].kind = "terminate"
    THEN Go(c, "terminate") /\ ReleaseModel(c)
         /\ UNCHANGED <<request, lifecycle, authority, readers>>
    ELSE Return(c)

\* detach_view: the selection goes after the authority's lock has been dropped.
DetachView(c) ==
    /\ Waiting(c, "detach", "authority") \/ Waiting(c, "terminate", "authority")
    /\ authority = None
    /\ attached' = attached \ {request[c].view}
    /\ IF request[c].view \in attached
       THEN Go(c, "model") /\ UNCHANGED <<request, locks>>
       ELSE Detached(c) /\ UNCHANGED writer
    /\ UNCHANGED <<ticket, selected,
                   unfenced, sizes, exited, termination_started, input, replies, pty>>

RemoveViewSelection(c) ==
    /\ Waiting(c, "detach", "update") \/ Waiting(c, "terminate", "update")
    /\ selected' = selected \ {request[c].view}
    /\ Detached(c)
    /\ UNCHANGED <<ticket, writer, attached, unfenced, sizes, exited, termination_started,
                   input, replies, pty>>

\* A fault: the authority is dropped before the model is had.
AuthorizeReadFaulty(c) ==
    /\ Waiting(c, "select", "authority")
    /\ authority = None
    /\ request[c].view \in attached
    /\ Go(c, "model")
    /\ UNCHANGED <<request, ticket, locks, views, sizes, exited, termination_started, input,
                   replies, pty>>

\* selection_text_for_attachment: authorized, and the authority kept until
\* model_operation is had.
AuthorizeRead(c) ==
    /\ Waiting(c, "select", "authority")
    /\ authority = None
    /\ IF request[c].view \in attached
       THEN /\ authority' = c
            /\ Go(c, "model")
            /\ UNCHANGED <<request, lifecycle, model_operation, readers>>
       ELSE Return(c)
    /\ UNCHANGED <<ticket, writer, views, sizes, exited, termination_started, input,
                   replies, pty>>

\* track_view_selection, also of an unfenced read (selection_text).
TrackViewSelection(c) ==
    /\ Waiting(c, "select", "update") \/ Waiting(c, "unfenced", "update")
    /\ selected' = selected \cup {request[c].view}
    /\ unfenced' = unfenced \cup (IF request[c].kind = "unfenced" THEN {request[c].view} ELSE {})
    /\ Return(c)
    /\ UNCHANGED <<ticket, writer, attached, sizes, exited,
                   termination_started, input, replies, pty>>

\* claim_control, resize_view: granted over a copy, and the authority held until
\* the terminal has the new size; without a new size there is nothing to apply.
AuthorizeResize(c) ==
    /\ Waiting(c, "claim", "authority") \/ Waiting(c, "resize", "authority")
    /\ authority = None
    /\ \/ /\ request[c].view \in attached
          /\ authority' = c
          /\ resizing' \in Sizes \ {size}
          /\ Go(c, "model")
          /\ UNCHANGED <<request, lifecycle, model_operation, readers>>
       \/ Return(c) /\ UNCHANGED resizing
    /\ UNCHANGED <<ticket, writer, views, size, terminal, exited, termination_started, input,
                   replies, pty>>

\* apply_resize: the PTY, then the model.
ApplyResize(c) ==
    /\ Waiting(c, "claim", "update") \/ Waiting(c, "resize", "update")
    /\ pty_size' = resizing /\ model_size' = resizing /\ metadata' = resizing
    /\ split' = FALSE /\ refusals' = 0
    /\ \E reply \in BOOLEAN : ExecuteUpdate(c, reply)
    /\ UNCHANGED <<views, resizing>>

\* A fault: the terminal is left as it is.
FailModelResizeFaulty(undone) ==
    \/ undone /\ UNCHANGED <<model_size, metadata>>
    \/ model_size' = resizing /\ metadata' \in {metadata, resizing}

\* TerminalModel::resize that fails.  The terminal refuses the size; or it has
\* it, and there is no snapshot, or one that the metadata has taken and no
\* frame.  Then the terminal goes back to what the metadata had been, unless it
\* refuses that.
FailModelResize(undone) ==
    \/ undone /\ UNCHANGED <<model_size, metadata>>
    \/ /\ model_size' = IF undone THEN metadata ELSE resizing
       /\ metadata' \in {metadata, resizing}

\* apply_resize that fails.  The PTY refuses the size, and nothing is done; or
\* the model fails, and the PTY is put back, which may fail too.
FailResize(c) ==
    /\ Waiting(c, "claim", "update") \/ Waiting(c, "resize", "update")
    /\ \/ UNCHANGED terminal
       \/ \E undone, restored \in BOOLEAN :
             /\ mix.faults
             /\ FailModelResize(undone)
             /\ pty_size' = IF restored THEN size ELSE resizing
             /\ split' = (split \/ ~undone \/ ~restored)
             /\ refusals' = IF refusals = 0 THEN 1 ELSE 2
    /\ resizing' = size
    /\ Return(c)
    /\ UNCHANGED <<ticket, writer, views, size, exited, termination_started, input, replies,
                   pty>>

\* set_colors: a program may have asked to hear of a changed scheme.
SetColors(c) ==
    /\ Waiting(c, "colors", "update")
    /\ \E reply \in BOOLEAN : ExecuteUpdate(c, reply) /\ Snapshot(reply)
    /\ UNCHANGED <<views, model_size, pty_size, resizing, split>>

\* A fault: the queue is left as it is.
StopWaitingFaulty == UNCHANGED draining

StopWaiting == draining' = TRUE

\* terminate: an interrupt if the queue has room; reply producers stop waiting
\* for capacity; the ladder starts, unless its thread cannot be spawned.
Terminate(c) ==
    /\ Waiting(c, "terminate", "terminate")
    /\ IF exited \/ termination_started
       THEN UNCHANGED <<termination_started, input, draining>>
       ELSE /\ termination_started' \in BOOLEAN
            /\ Enqueue("text", [by |-> "other", planned |-> 0])
            /\ StopWaiting
    /\ Return(c)
    /\ UNCHANGED <<ticket, writer, views, sizes, exited,
                   batches, next_ticket, next_send, closed, pty>>

\* The registry's write lock, for another session that is created, released or
\* removed.
WriteRegistry(c) ==
    /\ Waiting(c, "write", "write")
    /\ readers = {}
    /\ Return(c)
    /\ UNCHANGED <<ticket, writer, views, sizes, exited,
                   termination_started, input, replies, pty>>

-----------------------------------------------------------------------------
(* The frame thread. *)

\* A batch of output is taken ...
ReceiveOutput ==
    /\ at["frames"] = "recv"
    /\ chunks > 0
    /\ chunks' = 0
    /\ Go("frames", "look")
    /\ UNCHANGED <<request, ticket, locks, views, sizes, exited, termination_started,
                   input, replies, mix, read_ended, slave, forced>>

\* ... and fed, with a frame if some view is attached (has_active_views), which
\* also decides whether the final refresh is made.
HasActiveViews ==
    /\ authority = None
    /\ \/ at["frames"] = "look" /\ Go("frames", "model")
       \/ at["frames"] = "final" /\ Go("frames", IF attached = {} THEN "write" ELSE "model")
    /\ UNCHANGED <<request, ticket, locks, views, sizes, exited, termination_started,
                   input, replies, pty>>

Feed ==
    /\ at["frames"] = "update"
    /\ \E reply \in (IF exited THEN {FALSE} ELSE BOOLEAN) :
          ExecuteUpdate("frames", reply) /\ Snapshot(reply)
    /\ UNCHANGED <<views, model_size, pty_size, resizing, split>>

\* The output has ended: the exit is marked before the input actor is woken.
MarkExited ==
    /\ at["frames"] = "recv"
    /\ chunks = 0 /\ read_ended
    /\ exited' = TRUE
    /\ Go("frames", "exited")
    /\ UNCHANGED <<request, ticket, locks, views, sizes, termination_started, input,
                   replies, pty>>

CloseReplies ==
    /\ at["frames"] = "exited"
    /\ closed' = TRUE
    /\ TrySend("shutdown")
    /\ Go("frames", "final")
    /\ UNCHANGED <<request, ticket, locks, views, sizes, exited, termination_started,
                   accepted, batches, next_ticket, next_send, draining, pty>>

\* on_exit decides retention under the registry's write lock; then concluded.
Conclude ==
    /\ at["frames"] = "write"
    /\ readers = {}
    /\ Go("frames", "concluded")
    /\ UNCHANGED <<request, ticket, locks, views, sizes, exited, termination_started,
                   input, replies, pty>>

-----------------------------------------------------------------------------
(* The input actor, the reply writer and the writer they share. *)

\* The actor takes an operation and encodes it, a scroll under model_operation.
ReceiveInput ==
    /\ at["input"] = "recv"
    /\ queue # <<>>
    /\ queue' = Tail(queue)
    /\ Go("input", CASE Head(queue) = "shutdown" \/ exited -> "ended"
                     [] Head(queue) = "scroll" -> "model"
                     [] OTHER -> "writer")
    /\ UNCHANGED <<request, ticket, locks, views, sizes, exited, termination_started,
                   accepted, replies, pty>>

\* apply_scroll: the viewport moves and nothing is written ...
Scroll ==
    /\ at["input"] = "update"
    /\ ExecuteUpdate("input", FALSE) /\ Snapshot(FALSE)
    /\ UNCHANGED <<views, model_size, pty_size, resizing, split>>

\* ... or, on the alternate screen, the program is sent arrow keys.
AlternateScroll ==
    /\ at["input"] = "update"
    /\ ReleaseModel("input")
    /\ Go("input", "writer")
    /\ UNCHANGED <<request, ticket, lifecycle, authority, writer, readers, views, sizes,
                   exited, termination_started, input, replies, pty>>

\* ReplyQueue::recv: the whole batch, and the cap starts over; a closed queue
\* ends the writer once it is empty.
ReceiveReplies ==
    /\ at["replies"] = "recv"
    /\ pending # <<>> \/ closed
    /\ taken' = pending
    /\ pending' = <<>>
    /\ overflowed' = FALSE
    /\ Go("replies", IF pending = <<>> THEN "ended" ELSE "writer")
    /\ UNCHANGED <<request, ticket, locks, views, sizes, exited, termination_started,
                   input, next_ticket, next_send, draining, closed, delivered, pty>>

\* write_to_pty: whole batches, one writer at a time.
LockWriter(t) ==
    /\ at[t] = "writer"
    /\ writer = None
    /\ writer' = t
    /\ Go(t, "writing")
    /\ UNCHANGED <<request, ticket, lifecycle, authority, model_operation, readers, views,
                   sizes, exited, termination_started, input, replies, pty>>

\* The write returns when the program has read enough, or fails once nobody
\* holds the slave; a failed reply write ends the reply writer and its queue.
WriteReturns(t, failed) ==
    /\ at[t] = "writing"
    /\ failed => slave = "closed"
    /\ writer' = None
    /\ Go(t, CASE t = "input" -> IF exited THEN "ended" ELSE "recv"
               [] OTHER -> IF failed THEN "ended" ELSE "recv")
    /\ IF t = "replies"
       THEN /\ taken' = <<>>
            /\ delivered' = IF failed THEN delivered ELSE delivered \o taken
            /\ closed' = (closed \/ failed)
       ELSE UNCHANGED <<taken, delivered, closed>>
    /\ UNCHANGED <<request, ticket, lifecycle, authority, model_operation, readers, views,
                   sizes, exited, termination_started, input, pending, overflowed, next_ticket,
                   next_send, draining, pty>>

-----------------------------------------------------------------------------
(* The program, the PTY's read thread and the ladder. *)

Output ==
    /\ slave = "open" /\ ~read_ended /\ ~forced
    /\ chunks < MaxChunks
    /\ chunks' = chunks + 1
    /\ UNCHANGED <<threads, locks, views, sizes, exited, termination_started, input, replies,
                   mix, read_ended, slave, forced>>

\* The last process that holds the slave goes.
CloseSlave ==
    /\ slave = "open"
    /\ slave' = "closed"
    /\ UNCHANGED <<threads, locks, views, sizes, exited, termination_started, input, replies,
                   mix, chunks, read_ended, forced>>

\* polled_read_loop: end of file, or the shutdown pipe; a thread that waits for
\* room in its channel sees neither.
EndRead ==
    /\ slave = "closed" \/ forced
    /\ chunks < MaxChunks
    /\ ~read_ended
    /\ read_ended' = TRUE
    /\ UNCHANGED <<threads, locks, views, sizes, exited, termination_started, input, replies,
                   mix, chunks, slave, forced>>

\* The ladder's last rung (force_reader_shutdown); its signals may have ended
\* the program before (CloseSlave).
ForceReaderShutdown ==
    /\ termination_started /\ ~exited /\ ~forced
    /\ forced' = TRUE
    /\ UNCHANGED <<threads, locks, views, sizes, exited, termination_started, input, replies,
                   mix, chunks, read_ended, slave>>

-----------------------------------------------------------------------------
Call(c) ==
    \/ LookUp(c) \/ EnterLifecycle(c) \/ LockModel(c) \/ Send(c)
    \/ AuthorizeAndEnqueue(c) \/ AutomationInput(c)
    \/ AttachView(c) \/ Refresh(c) \/ DetachView(c) \/ RemoveViewSelection(c)
    \/ AuthorizeRead(c) \/ TrackViewSelection(c)
    \/ AuthorizeResize(c) \/ ApplyResize(c) \/ FailResize(c) \/ SetColors(c)
    \/ Terminate(c) \/ WriteRegistry(c)

Frames ==
    \/ ReceiveOutput \/ HasActiveViews \/ LockModel("frames") \/ Feed \/ Send("frames")
    \/ MarkExited \/ CloseReplies \/ Conclude

Input ==
    ReceiveInput \/ LockModel("input") \/ Scroll \/ AlternateScroll \/ LockWriter("input")

Replies == ReceiveReplies \/ LockWriter("replies")

Next ==
    \/ \E c \in Calls, v \in Views : \E kind \in mix.asks[c] : Begin(c, kind, v)
    \/ \E c \in Calls : Call(c)
    \/ Frames \/ Input \/ Replies
    \/ \E t \in {"input", "replies"}, failed \in BOOLEAN : WriteReturns(t, failed)
    \/ Output \/ CloseSlave \/ EndRead \/ ForceReaderShutdown

\* Every thread that can go on does, and a ladder reaches its last rung.  No
\* client must call and no program must write, exit or, above all, read.
Fairness ==
    /\ \A c \in Calls : WF_vars(Call(c))
    /\ WF_vars(Frames) /\ WF_vars(Input) /\ WF_vars(Replies)
    /\ WF_vars(EndRead) /\ WF_vars(ForceReaderShutdown)

Spec == Init /\ [][Next]_vars /\ Fairness

-----------------------------------------------------------------------------
(* Safety. *)

Increasing(s) == \A k \in 1..Len(s) - 1 : s[k] < s[k + 1]
Contiguous(s) == \A k \in 1..Len(s) - 1 : s[k + 1] = s[k] + 1

\* The program gets the terminal's answers in the order the model gave them,
\* whichever producer reaches the queue first; none is dropped before
\* termination, and a batch "never skips a reply and then carries a later one".
RepliesInOrder ==
    LET all == delivered \o taken \o pending
    IN  /\ Increasing(all) /\ Contiguous(taken) /\ Contiguous(pending)
        /\ ~draining /\ ~closed => all = [k \in 1..next_send |-> k - 1]

\* Automation that was accepted follows exactly the human input its client had
\* seen when it planned it: nobody typed in between (input_order.rs).
AutomationNotOvertaken ==
    \A k \in DOMAIN accepted : accepted[k].by = "automation" =>
        accepted[k].planned = Cardinality({j \in 1..k - 1 : accepted[j].by = "human"})

\* Whoever holds the authority's lock sees one size everywhere, and a resize
\* that succeeds brings that about whatever was before.  One that fails leaves
\* neither the PTY nor the terminal with the size it refused, unless an undo
\* fails as well or it is the second without a snapshot between them: the first
\* may have left the refused size in the metadata, and the second puts the
\* terminal back to that (TerminalModel::resize).
SizesAgree ==
    authority = None /\ ~split /\ refusals < 2 => size = model_size /\ model_size = pty_size

\* A selection is tracked for an attached view only, or its detach is about to
\* remove it; an unfenced read may leave one behind (selection_text).
SelectionsAttached ==
    \A v \in (selected \ attached) \ unfenced :
        \E c \in Calls : /\ request[c].view = v
                         /\ request[c].kind \in {"detach", "terminate"}
                         /\ at[c] \in {"model", "update"}

-----------------------------------------------------------------------------
(* Liveness. *)

\* Whatever the program fails to read, the model comes free: no thread waits
\* for the PTY, for the reply queue or for another lock while it holds it.
ModelComesFree == []<>(model_operation = None)

\* A termination concludes the session, although a write may never return, and
\* leaves no thread of it but those inside or behind such a write.
TerminationConcludes ==
    termination_started ~>
        [](/\ at["frames"] = "concluded"
           /\ at["input"] \in {"writing", "writer", "ended"}
           /\ at["replies"] \in {"writing", "writer", "ended"})

-----------------------------------------------------------------------------
(* What the code says of itself, and does not keep *)

\* "Sidecar atomically resizes PTY and terminal state"
\* (draft/architecture-design.md:1220): where every undo succeeds, all or nothing.
\* Two resizes that fail to encode their frame leave the terminal alone with the
\* size both refused.
ResizesAreAtomic == authority = None /\ ~split => size = model_size /\ model_size = pty_size

\* No call is starved of a lock, and a write fails once nobody can read it.
PatientSpec ==
    /\ Spec
    /\ \A c \in Calls : SF_vars(Call(c))
    /\ WF_vars(\E t \in {"input", "replies"} : WriteReturns(t, TRUE))

\* A producer that waits does so "until the program reads its input or
\* termination stops the waiting" (replies.rs:15-20): a requested termination
\* reaches the queue.  A claim that waits there holds the authority, which the
\* request wants first, to detach its client's views.
TerminationGetsThrough ==
    (\E c \in Calls : request[c].kind = "terminate") ~> (draining \/ exited)
=============================================================================
