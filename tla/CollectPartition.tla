-------------------------- MODULE CollectPartition --------------------------
(***************************************************************************)
(* Collecting one partition: fetch_partition spawns one task per parameter *)
(* set, every task sends what it extracted into an mpsc channel, and the   *)
(* collector (transform_channel, then join_partition_handles, then         *)
(* create_dfs) turns the channel into frames.  Two kinds of collector use  *)
(* the same channel and the same join:                                     *)
(*                                                                         *)
(*   "generic"  collect_by_block / collect_by_transaction: a task sends    *)
(*              exactly one message, Ok or Err;                            *)
(*   "batched"  the multicall, rpc-batch and state-override runners: a     *)
(*              task sends one Ok message per row of its batch; its error  *)
(*              is the task's return value and never enters the channel.   *)
(*                                                                         *)
(* When the collector returns early it drops the receiver and the join     *)
(* handles: the tasks are detached and run on.                             *)
(***************************************************************************)
EXTENDS Integers, Sequences, FiniteSets

CONSTANTS
  NTasks,    \* parameter sets (generic) or batches (batched) of the partition
  NRows,     \* bound: rows in one batch
  Capacity,  \* of the channel, 1 in the code
  Permits    \* of Source::semaphore, max_concurrent_requests

ASSUME CollectAssumption ==
  /\ NTasks \in Nat /\ NRows \in Nat \ {0}
  /\ Capacity \in Nat \ {0} /\ Permits \in Nat \ {0}

Task == 1 .. NTasks
Message == [task : Task, row : 1 .. NRows, ok : BOOLEAN]

VARIABLES
  style,     \* which kind of collector runs
  rows,      \* rows of each task's batch, 1 for a generic task
  collector, \* where the collecting future is
  spawned,   \* tasks 1 .. spawned exist
  sender,    \* the collector's own Sender is alive
  receiver,  \* the Receiver is alive
  channel,   \* messages sent and not yet received
  task,      \* where each task is
  sending,   \* messages a task has yet to send
  columns,   \* how many times each row is in the columns
  failure    \* the error the collector returned

vars == <<style, rows, collector, spawned, sender, receiver, channel, task, sending,
          columns, failure>>

Failed == {"request_err", "send_err", "panicked"}
TaskPoints == {"queued", "request", "send", "ok"} \cup Failed
CollectorPoints == {"fetch", "transform", "join", "frames", "ok", "err"}
Failures == {"none", "params", "message", "transform", "task", "frames"}

Init ==
  /\ style \in {"generic", "batched"}
  /\ rows \in [Task -> 1 .. NRows]
  /\ style = "generic" => \A t \in Task : rows[t] = 1
  /\ collector = "fetch"
  /\ spawned = 0
  /\ sender = TRUE
  /\ receiver = TRUE
  /\ channel = <<>>
  /\ task = [t \in Task |-> "unborn"]
  /\ sending = [t \in Task |-> <<>>]
  /\ columns = [t \in Task |-> [r \in 1 .. NRows |-> 0]]
  /\ failure = "none"

-----------------------------------------------------------------------------
(* The collecting future.                                                  *)

\* `?` or return Err: the columns, the receiver and the handles are dropped.
ReturnErr(why) ==
  /\ collector' = "err"
  /\ failure' = why
  /\ receiver' = FALSE
  /\ sender' = FALSE

\* partition.param_sets(..)? before anything is spawned.
ParamsErr ==
  /\ collector = "fetch"
  /\ spawned = 0
  /\ ReturnErr("params")
  /\ UNCHANGED <<style, rows, spawned, channel, task, sending, columns>>

\* tokio::spawn: the task may run at once, on another worker.
Spawn ==
  /\ collector = "fetch"
  /\ spawned < NTasks
  /\ spawned' = spawned + 1
  /\ task' = [task EXCEPT ![spawned + 1] = "queued"]
  /\ UNCHANGED <<style, rows, collector, sender, receiver, channel, sending, columns, failure>>

\* Mutant: the collector keeps its own sender while it receives.
MutKeepSender ==
  /\ collector = "fetch"
  /\ spawned = NTasks
  /\ collector' = "transform"
  /\ UNCHANGED <<style, rows, spawned, sender, receiver, channel, task, sending, columns, failure>>

\* fetch_partition returns, which drops the sender it was given.
Fetched ==
  /\ collector = "fetch"
  /\ spawned = NTasks
  /\ sender' = FALSE
  /\ collector' = "transform"
  /\ UNCHANGED <<style, rows, spawned, receiver, channel, task, sending, columns, failure>>

Alive(t) == task[t] \in {"queued", "request", "send"}

RecvOk ==
  /\ collector = "transform"
  /\ channel # <<>>
  /\ Head(channel).ok
  /\ channel' = Tail(channel)
  /\ LET m == Head(channel)
     IN columns' = [columns EXCEPT ![m.task][m.row] = @ + 1]
  /\ UNCHANGED <<style, rows, collector, spawned, sender, receiver, task, sending, failure>>

\* Self::transform(..)? on a response that does not fit.
TransformErr ==
  /\ collector = "transform"
  /\ channel # <<>>
  /\ Head(channel).ok
  /\ channel' = Tail(channel)
  /\ ReturnErr("transform")
  /\ UNCHANGED <<style, rows, spawned, task, sending, columns>>

\* Mutant: an error message is skipped and the loop goes on.
MutSkipErr ==
  /\ collector = "transform"
  /\ channel # <<>>
  /\ ~Head(channel).ok
  /\ channel' = Tail(channel)
  /\ UNCHANGED <<style, rows, collector, spawned, sender, receiver, task, sending, columns, failure>>

RecvErr ==
  /\ collector = "transform"
  /\ channel # <<>>
  /\ ~Head(channel).ok
  /\ channel' = Tail(channel)
  /\ ReturnErr("message")
  /\ UNCHANGED <<style, rows, spawned, task, sending, columns>>

\* recv() yields None: nothing is queued and every sender is gone.
ChannelClosed ==
  /\ collector = "transform"
  /\ channel = <<>>
  /\ ~sender
  /\ \A t \in Task : ~Alive(t)
  /\ receiver' = FALSE
  /\ collector' = "join"
  /\ UNCHANGED <<style, rows, spawned, sender, channel, task, sending, columns, failure>>

\* Mutant: the handles are awaited and their results ignored.
MutIgnoreResults ==
  /\ collector = "join"
  /\ \A t \in Task : ~Alive(t)
  /\ collector' = "frames"
  /\ UNCHANGED <<style, rows, spawned, sender, receiver, channel, task, sending, columns, failure>>

\* join_partition_handles: wait for all, then the first bad one in order.
Join ==
  /\ collector = "join"
  /\ \A t \in Task : ~Alive(t)
  /\ \/ /\ \E t \in Task : task[t] \in Failed
        /\ ReturnErr("task")
     \/ /\ \A t \in Task : task[t] \notin Failed
        /\ collector' = "frames"
        /\ UNCHANGED <<failure, receiver, sender>>
  /\ UNCHANGED <<style, rows, spawned, channel, task, sending, columns>>

\* columns.create_dfs
Frames ==
  /\ collector = "frames"
  /\ \/ collector' = "ok" /\ UNCHANGED <<failure, receiver, sender>>
     \/ ReturnErr("frames")
  /\ UNCHANGED <<style, rows, spawned, channel, task, sending, columns>>

-----------------------------------------------------------------------------
(* The spawned tasks.                                                      *)

InFlight == {t \in Task : task[t] = "request"}

\* Source::permit_request: one permit for as long as the request is out.
Request(t) ==
  /\ task[t] = "queued"
  /\ Cardinality(InFlight) < Permits
  /\ task' = [task EXCEPT ![t] = "request"]
  /\ UNCHANGED <<style, rows, collector, spawned, sender, receiver, channel, sending, columns,
                 failure>>

\* f_request / the batch runner answers: everything it owes, in order.
Extracted(t) ==
  /\ task[t] = "request"
  /\ task' = [task EXCEPT ![t] = "send"]
  /\ sending' = [sending EXCEPT ![t] =
                   [r \in 1 .. rows[t] |-> [task |-> t, row |-> r, ok |-> TRUE]]]
  /\ UNCHANGED <<style, rows, collector, spawned, sender, receiver, channel, columns, failure>>

\* A generic task sends its error; a batched one returns it.
ExtractErr(t) ==
  /\ task[t] = "request"
  /\ \/ /\ style = "generic"
        /\ task' = [task EXCEPT ![t] = "send"]
        /\ sending' = [sending EXCEPT ![t] = <<[task |-> t, row |-> 1, ok |-> FALSE]>>]
     \/ /\ style = "batched"
        /\ task' = [task EXCEPT ![t] = "request_err"]
        /\ UNCHANGED sending
  /\ UNCHANGED <<style, rows, collector, spawned, sender, receiver, channel, columns, failure>>

\* A panic in extract unwinds the task: no message, the sender is dropped.
Panic(t) ==
  /\ task[t] = "request"
  /\ task' = [task EXCEPT ![t] = "panicked"]
  /\ UNCHANGED <<style, rows, collector, spawned, sender, receiver, channel, sending, columns,
                 failure>>

\* sender.send(..).await waits for room while the receiver lives.
Send(t) ==
  /\ task[t] = "send"
  /\ receiver
  /\ Len(channel) < Capacity
  /\ sending[t] # <<>>
  /\ channel' = Append(channel, Head(sending[t]))
  /\ sending' = [sending EXCEPT ![t] = Tail(@)]
  /\ UNCHANGED <<style, rows, collector, spawned, sender, receiver, task, columns, failure>>

\* Every send went through: the task returns Ok(()).
Sent(t) ==
  /\ task[t] = "send"
  /\ sending[t] = <<>>
  /\ task' = [task EXCEPT ![t] = "ok"]
  /\ UNCHANGED <<style, rows, collector, spawned, sender, receiver, channel, sending, columns,
                 failure>>

\* The receiver is gone: "tokio mpsc send failure".
SendErr(t) ==
  /\ task[t] = "send"
  /\ ~receiver
  /\ sending[t] # <<>>
  /\ task' = [task EXCEPT ![t] = "send_err"]
  /\ UNCHANGED <<style, rows, collector, spawned, sender, receiver, channel, sending, columns,
                 failure>>

-----------------------------------------------------------------------------
CollectorStep ==
  \/ ParamsErr \/ Spawn \/ Fetched
  \/ RecvOk \/ TransformErr \/ RecvErr \/ ChannelClosed
  \/ Join \/ Frames

TaskStep(t) ==
  \/ Request(t) \/ Extracted(t) \/ ExtractErr(t) \/ Panic(t)
  \/ Send(t) \/ Sent(t) \/ SendErr(t)

\* The partition is answered and every task has returned.
Quiet ==
  /\ collector \in {"ok", "err"}
  /\ \A t \in Task : ~Alive(t)
  /\ UNCHANGED vars

Next == CollectorStep \/ (\E t \in Task : TaskStep(t)) \/ Quiet

Spec == Init /\ [][Next]_vars

(***************************************************************************)
(* tokio polls every woken future again, a request ends, and both the      *)
(* channel and the request semaphore serve their waiters in order: a task  *)
(* that keeps finding room or a permit taken is nevertheless served, which *)
(* is strong fairness of Send and Request.                                 *)
(***************************************************************************)
Fairness ==
  /\ WF_vars(CollectorStep)
  /\ \A t \in Task : WF_vars(TaskStep(t)) /\ SF_vars(Request(t)) /\ SF_vars(Send(t))

FairSpec == Spec /\ Fairness

-----------------------------------------------------------------------------
(***************************************************************************)
(* Frames are handed out only when every row of every task is in the       *)
(* columns exactly once: a panicking task, a batch error that never        *)
(* entered the channel and a lost message all turn into an error instead   *)
(* of a short file.                                                        *)
(***************************************************************************)
FramesAreWhole ==
  collector = "ok" =>
    \A t \in Task, r \in 1 .. NRows : columns[t][r] = IF r <= rows[t] THEN 1 ELSE 0

(***************************************************************************)
(* "tokio mpsc send failure" is only ever a symptom: it strikes tasks that *)
(* were detached by an error the caller has already been given, so the     *)
(* join can never report it in place of the cause.                         *)
(***************************************************************************)
SendFailureIsNeverTheCause ==
  \A t \in Task : task[t] = "send_err" =>
    collector = "err" /\ failure \in {"message", "transform"}

(***************************************************************************)
(* The caller is answered and no task is left waiting for room in the      *)
(* channel or for a permit, the detached ones included.                    *)
(***************************************************************************)
EverythingReturns ==
  /\ <>(collector \in {"ok", "err"})
  /\ \A t \in Task : [](Alive(t) => <>~Alive(t))

-----------------------------------------------------------------------------
(* What the caller sees of all this.                                       *)

RowsOwed == {p \in Task \X (1 .. NRows) : p[2] <= rows[p[1]]}

RowsCollected == {p \in Task \X (1 .. NRows) : columns[p[1]][p[2]] > 0}

Promise == INSTANCE AllOrNothing WITH
  owed <- RowsOwed,
  collected <- RowsCollected,
  outcome <- IF collector \in {"ok", "err"} THEN collector ELSE "pending"

(***************************************************************************)
(* The pipeline of tasks, channel and join implements AllOrNothing: rows   *)
(* are only ever added, the frames are handed out when all are there, and  *)
(* an answer is final.                                                     *)
(***************************************************************************)
ImplementsAllOrNothing == Promise!Spec

(***************************************************************************)
(* What the caller is told is true: the frames it gets are whole, and the  *)
(* error it gets is the one that stopped the collection.                   *)
(***************************************************************************)
AnswerIsTrue == FramesAreWhole /\ SendFailureIsNeverTheCause
=============================================================================
