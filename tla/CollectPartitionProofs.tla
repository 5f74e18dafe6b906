----------------------- MODULE CollectPartitionProofs -----------------------
(***************************************************************************)
(* For any number of tasks and rows, any channel capacity and any number   *)
(* of permits, whatever fails and in whatever order: the frames handed out *)
(* are whole, "tokio mpsc send failure" is never the error reported, and   *)
(* the pipeline implements AllOrNothing.                                   *)
(***************************************************************************)
EXTENDS CollectPartition, SequenceTheorems, TLAPS

TypeOK ==
  /\ style \in {"generic", "batched"}
  /\ rows \in [Task -> 1 .. NRows]
  /\ collector \in CollectorPoints
  /\ spawned \in 0 .. NTasks
  /\ sender \in BOOLEAN
  /\ receiver \in BOOLEAN
  /\ channel \in Seq(Message)
  /\ task \in [Task -> TaskPoints \cup {"unborn"}]
  /\ sending \in [Task -> Seq(Message)]
  /\ columns \in [Task -> [1 .. NRows -> Nat]]
  /\ failure \in Failures

(***************************************************************************)
(* Where the collector can be, given where the tasks are.  The receiver    *)
(* lives exactly as long as the collector may still receive; whoever finds *)
(* it gone either was detached by an error read from the channel, or has   *)
(* nothing left to send.                                                   *)
(***************************************************************************)
ControlInv ==
  /\ receiver <=> collector \in {"fetch", "transform"}
  /\ \A t \in Task : task[t] = "unborn" <=> t > spawned
  /\ collector \in {"transform", "join", "frames", "ok"} => spawned = NTasks
  /\ collector \in {"join", "frames", "ok"} => channel = <<>> /\ \A t \in Task : ~Alive(t)
  /\ collector \in {"frames", "ok"} => \A t \in Task : task[t] \notin Failed
  /\ collector = "err" /\ failure \notin {"message", "transform"} => \A t \in Task : ~Alive(t)
  /\ SendFailureIsNeverTheCause

(***************************************************************************)
(* Every message of a task is in one place.  A task whose extraction       *)
(* succeeded has handed over its first rows in order; each of these is in  *)
(* the channel or in the columns, never in both, and only an error of the  *)
(* collector takes one away.  A task whose extraction failed has one error *)
(* message, which stays in its hands or in the channel until the collector *)
(* returns it.                                                             *)
(***************************************************************************)
Elements(s) == {s[i] : i \in DOMAIN s}

NoTwice(s) == \A i, j \in DOMAIN s : i # j => s[i] # s[j]

Queue == Elements(channel)

RowOf(t, r) == [task |-> t, row |-> r, ok |-> TRUE]

ErrorOf(t) == [task |-> t, row |-> 1, ok |-> FALSE]

Untouched(t) ==
  /\ sending[t] = <<>>
  /\ \A m \in Queue : m.task # t
  /\ \A r \in 1 .. NRows : columns[t][r] = 0

Handed(t) == rows[t] - Len(sending[t])

HandsOverRows(t) ==
  /\ Handed(t) >= 0
  /\ \A i \in 1 .. Len(sending[t]) : sending[t][i] = RowOf(t, Handed(t) + i)
  /\ \A r \in 1 .. NRows : columns[t][r] = 0 \/ (columns[t][r] = 1 /\ r <= Handed(t))
  /\ \A m \in Queue : m.task = t => m.ok /\ m.row <= Handed(t) /\ columns[t][m.row] = 0
  /\ collector # "err" =>
       \A r \in 1 .. Handed(t) : columns[t][r] = 1 \/ RowOf(t, r) \in Queue

HandsOverError(t) ==
  /\ \A r \in 1 .. NRows : columns[t][r] = 0
  /\ \A m \in Queue : m.task = t => m = ErrorOf(t)
  /\ \/ sending[t] = <<ErrorOf(t)>> /\ ErrorOf(t) \notin Queue
     \/ sending[t] = <<>> /\ (collector = "err" \/ ErrorOf(t) \in Queue)

Before(t) == task[t] \in {"unborn", "queued", "request", "request_err", "panicked"}

MessagesOf(t) ==
  /\ Before(t) => Untouched(t)
  /\ ~Before(t) => HandsOverRows(t) \/ HandsOverError(t)
  /\ task[t] = "ok" => sending[t] = <<>>

MessagesInv == NoTwice(channel) /\ \A t \in Task : MessagesOf(t)

IInv == TypeOK /\ ControlInv /\ MessagesInv

-----------------------------------------------------------------------------
(* A step, as the list of actions a proof about Next must go through.      *)

LEMMA NextCases ==
  ASSUME [Next]_vars
  PROVE  \/ ParamsErr \/ Spawn \/ Fetched
         \/ RecvOk \/ TransformErr \/ RecvErr \/ ChannelClosed
         \/ Join \/ Frames
         \/ \E t \in Task : Request(t)
         \/ \E t \in Task : Extracted(t)
         \/ \E t \in Task : ExtractErr(t)
         \/ \E t \in Task : Panic(t)
         \/ \E t \in Task : Send(t)
         \/ \E t \in Task : Sent(t)
         \/ \E t \in Task : SendErr(t)
         \/ UNCHANGED vars
  BY DEF Next, CollectorStep, TaskStep, Quiet

(* What receiving and sending do to the set of messages in a channel that  *)
(* holds no message twice.                                                 *)

LEMMA Receive ==
  ASSUME NEW S, NEW s \in Seq(S), s # <<>>, NoTwice(s)
  PROVE  /\ Head(s) \in S /\ Head(s) \in Elements(s)
         /\ Tail(s) \in Seq(S)
         /\ NoTwice(Tail(s))
         /\ Elements(Tail(s)) = Elements(s) \ {Head(s)}
  <1>1. /\ Len(s) \in Nat \ {0}
        /\ DOMAIN s = 1 .. Len(s)
        /\ Head(s) = s[1] /\ s[1] \in S
        /\ Tail(s) \in Seq(S)
        /\ Len(Tail(s)) = Len(s) - 1
        /\ DOMAIN Tail(s) = 1 .. Len(s) - 1
        /\ \A i \in 1 .. Len(s) - 1 : Tail(s)[i] = s[i + 1]
    OBVIOUS
  <1>2. NoTwice(Tail(s))
    BY <1>1 DEF NoTwice
  <1>3. Elements(Tail(s)) \subseteq Elements(s) \ {Head(s)}
    BY <1>1 DEF Elements, NoTwice
  <1>4. ASSUME NEW x \in Elements(s), x # Head(s)
        PROVE  x \in Elements(Tail(s))
    <2>1. PICK i \in 1 .. Len(s) : x = s[i]
      BY <1>1, <1>4 DEF Elements
    <2>2. i - 1 \in 1 .. Len(s) - 1 /\ (i - 1) + 1 = i
      BY <1>1, <1>4, <2>1
    <2> QED
      BY <1>1, <2>1, <2>2 DEF Elements
  <1>5. Head(s) \in Elements(s)
    BY <1>1 DEF Elements
  <1>6. Elements(Tail(s)) = Elements(s) \ {Head(s)}
    BY <1>3, <1>4
  <1> QED
    BY <1>1, <1>2, <1>5, <1>6

LEMMA Enqueue ==
  ASSUME NEW S, NEW s \in Seq(S), NEW m \in S, NoTwice(s), m \notin Elements(s)
  PROVE  /\ Append(s, m) \in Seq(S)
         /\ NoTwice(Append(s, m))
         /\ Elements(Append(s, m)) = Elements(s) \cup {m}
  <1>1. /\ Len(s) \in Nat
        /\ DOMAIN s = 1 .. Len(s)
        /\ Append(s, m) \in Seq(S)
        /\ DOMAIN Append(s, m) = 1 .. Len(s) + 1
        /\ Append(s, m)[Len(s) + 1] = m
        /\ \A i \in 1 .. Len(s) : Append(s, m)[i] = s[i]
    OBVIOUS
  <1>2. NoTwice(Append(s, m))
    BY <1>1 DEF NoTwice, Elements
  <1>3. Elements(Append(s, m)) = Elements(s) \cup {m}
    BY <1>1 DEF Elements
  <1> QED
    BY <1>1, <1>2, <1>3

-----------------------------------------------------------------------------
LEMMA InitIInv == Init => IInv
  <1> SUFFICES ASSUME Init PROVE IInv
    OBVIOUS
  <1> USE CollectAssumption DEF Init
  <1>1. TypeOK
    BY DEF TypeOK, CollectorPoints, TaskPoints, Failures, Message
  <1>2. ControlInv
    BY DEF ControlInv, Task, SendFailureIsNeverTheCause
  <1>3. MessagesInv
    BY DEF MessagesInv, MessagesOf, Before, Untouched, Queue, Elements, NoTwice
  <1> QED
    BY <1>1, <1>2, <1>3 DEF IInv

-----------------------------------------------------------------------------
(* Messages are determined by their three fields.                          *)
LEMMA MessageIs ==
  /\ \A m \in Message : m = [task |-> m.task, row |-> m.row, ok |-> m.ok]
  /\ \A m \in Message : m.task \in Task /\ m.row \in 1 .. NRows /\ m.ok \in BOOLEAN
  BY DEF Message

LEMMA QueueType ==
  ASSUME TypeOK
  PROVE  \A m \in Queue : m \in Message
  BY DEF TypeOK, Queue, Elements

(* What adding one response does to the columns.                           *)
LEMMA Bump ==
  ASSUME NEW S, NEW R, NEW f \in [S -> [R -> Nat]], NEW t \in S, NEW r \in R, NEW g,
         g = [f EXCEPT ![t][r] = @ + 1]
  PROVE  /\ g \in [S -> [R -> Nat]]
         /\ g[t][r] = f[t][r] + 1
         /\ \A s \in S : s # t => g[s] = f[s]
         /\ \A q \in R : q # r => g[t][q] = f[t][q]
  <1> DEFINE h == [f[t] EXCEPT ![r] = f[t][r] + 1]
  <1>1. h \in [R -> Nat] /\ h[r] = f[t][r] + 1 /\ \A q \in R : q # r => h[q] = f[t][q]
    OBVIOUS
  <1>2. g = [f EXCEPT ![t] = h]
    OBVIOUS
  <1> HIDE DEF h
  <1> QED
    BY <1>1, <1>2

(* What a batch runner returns.                                            *)
LEMMA AnswerIs ==
  ASSUME NEW t \in Task, NEW n \in 1 .. NRows
  PROVE  LET answer == [r \in 1 .. n |-> [task |-> t, row |-> r, ok |-> TRUE]]
         IN  answer \in Seq(Message) /\ Len(answer) = n
  <1> DEFINE answer == [r \in 1 .. n |-> [task |-> t, row |-> r, ok |-> TRUE]]
  <1>1. n \in Nat /\ \A r \in 1 .. n : r \in 1 .. NRows
    BY CollectAssumption
  <1>2. \A r \in 1 .. n : [task |-> t, row |-> r, ok |-> TRUE] \in Message
    BY <1>1 DEF Message
  <1>3. answer \in [1 .. n -> Message]
    BY <1>2
  <1> HIDE DEF answer
  <1>4. answer \in Seq(Message) /\ Len(answer) = n
    BY <1>1, <1>3
  <1> QED
    BY <1>4 DEF answer

LEMMA TypeStep == IInv /\ [Next]_vars => TypeOK'
  <1> SUFFICES ASSUME IInv, [Next]_vars PROVE TypeOK'
    OBVIOUS
  <1> USE CollectAssumption DEF TypeOK, CollectorPoints, Failures, TaskPoints, Failed
  <1>0. TypeOK /\ MessagesInv
    BY DEF IInv, MessagesInv
  <1>1. ASSUME ParamsErr PROVE TypeOK'
    BY <1>0, <1>1 DEF ParamsErr, ReturnErr
  <1>2. ASSUME Spawn PROVE TypeOK'
    <2>1. spawned' \in 0 .. NTasks
      BY <1>0, <1>2 DEF Spawn
    <2>2. task' \in [Task -> TaskPoints \cup {"unborn"}]
      BY <1>0, <1>2 DEF Spawn
    <2> QED
      BY <1>0, <1>2, <2>1, <2>2 DEF Spawn
  <1>3. ASSUME Fetched PROVE TypeOK'
    BY <1>0, <1>3 DEF Fetched
  <1>4. ASSUME RecvOk PROVE TypeOK'
    <2>1. channel' \in Seq(Message) /\ Head(channel) \in Message
      BY <1>0, <1>4, Receive DEF RecvOk, MessagesInv
    <2>2. columns' \in [Task -> [1 .. NRows -> Nat]]
      <3> DEFINE m == Head(channel)
      <3>1. m.task \in Task /\ m.row \in 1 .. NRows
        BY <2>1, MessageIs
      <3>2. columns' = [columns EXCEPT ![m.task][m.row] = @ + 1]
        BY <1>4 DEF RecvOk
      <3> HIDE DEF m
      <3>3. columns \in [Task -> [1 .. NRows -> Nat]]
        BY <1>0
      <3> QED
        BY <3>1, <3>2, <3>3, Bump
    <2> QED
      BY <1>0, <1>4, <2>1, <2>2 DEF RecvOk
  <1>5. ASSUME TransformErr PROVE TypeOK'
    BY <1>0, <1>5, Receive DEF TransformErr, ReturnErr, MessagesInv
  <1>6. ASSUME RecvErr PROVE TypeOK'
    BY <1>0, <1>6, Receive DEF RecvErr, ReturnErr, MessagesInv
  <1>7. ASSUME ChannelClosed PROVE TypeOK'
    BY <1>0, <1>7 DEF ChannelClosed
  <1>8. ASSUME Join PROVE TypeOK'
    BY <1>0, <1>8 DEF Join, ReturnErr
  <1>9. ASSUME Frames PROVE TypeOK'
    BY <1>0, <1>9 DEF Frames, ReturnErr
  <1>10. ASSUME NEW t \in Task, Request(t) PROVE TypeOK'
    BY <1>0, <1>10 DEF Request
  <1>11. ASSUME NEW t \in Task, Extracted(t) PROVE TypeOK'
    <2> DEFINE answer == [r \in 1 .. rows[t] |-> [task |-> t, row |-> r, ok |-> TRUE]]
    <2>1. rows[t] \in 1 .. NRows
      BY <1>0
    <2>2. answer \in Seq(Message)
      BY <2>1, AnswerIs
    <2> HIDE DEF answer
    <2>3. sending' = [sending EXCEPT ![t] = answer]
      BY <1>11 DEF Extracted, answer
    <2>4. sending' \in [Task -> Seq(Message)]
      BY <1>0, <2>2, <2>3
    <2> QED
      BY <1>0, <1>11, <2>4 DEF Extracted
  <1>12. ASSUME NEW t \in Task, ExtractErr(t) PROVE TypeOK'
    <2>1. [task |-> t, row |-> 1, ok |-> FALSE] \in Message
      BY DEF Message
    <2>2. <<[task |-> t, row |-> 1, ok |-> FALSE]>> \in Seq(Message)
      BY <2>1
    <2>3. sending' \in [Task -> Seq(Message)]
      BY <1>0, <1>12, <2>2 DEF ExtractErr
    <2>4. task' \in [Task -> TaskPoints \cup {"unborn"}]
      BY <1>0, <1>12 DEF ExtractErr
    <2> QED
      BY <1>0, <1>12, <2>3, <2>4 DEF ExtractErr
  <1>13. ASSUME NEW t \in Task, Panic(t) PROVE TypeOK'
    BY <1>0, <1>13 DEF Panic
  <1>14. ASSUME NEW t \in Task, Send(t) PROVE TypeOK'
    <2>1. sending[t] \in Seq(Message) /\ sending[t] # <<>> /\ channel \in Seq(Message)
      BY <1>0, <1>14 DEF Send
    <2>2. Tail(sending[t]) \in Seq(Message) /\ Head(sending[t]) \in Message
      BY <2>1
    <2>3. sending' \in [Task -> Seq(Message)]
      BY <1>0, <1>14, <2>2 DEF Send
    <2>4. channel' \in Seq(Message)
      BY <1>14, <2>1, <2>2 DEF Send
    <2> QED
      BY <1>0, <1>14, <2>3, <2>4 DEF Send
  <1>15. ASSUME NEW t \in Task, Sent(t) PROVE TypeOK'
    BY <1>0, <1>15 DEF Sent
  <1>16. ASSUME NEW t \in Task, SendErr(t) PROVE TypeOK'
    BY <1>0, <1>16 DEF SendErr
  <1>17. ASSUME UNCHANGED vars PROVE TypeOK'
    BY <1>0, <1>17 DEF vars
  <1> QED
    BY NextCases, <1>1, <1>2, <1>3, <1>4, <1>5, <1>6, <1>7, <1>8, <1>9, <1>10, <1>11, <1>12,
       <1>13, <1>14, <1>15, <1>16, <1>17

LEMMA ControlStep == IInv /\ [Next]_vars => ControlInv'
  <1> SUFFICES ASSUME IInv, [Next]_vars PROVE ControlInv'
    OBVIOUS
  <1> USE CollectAssumption
      DEF ControlInv, SendFailureIsNeverTheCause, Alive, Failed
  <1>0. TypeOK /\ ControlInv
    BY DEF IInv
  <1>1. ASSUME ParamsErr PROVE ControlInv'
    <2>1. \A t \in Task : task[t] = "unborn"
      BY <1>0, <1>1 DEF ParamsErr, Task
    <2> QED
      BY <1>0, <1>1, <2>1 DEF ParamsErr, ReturnErr
  <1>2. ASSUME Spawn PROVE ControlInv'
    <2>1. collector = "fetch" /\ collector' = "fetch"
      BY <1>2 DEF Spawn
    <2>2. \A t \in Task : t > spawned' <=> t > spawned /\ t # spawned + 1
      BY <1>0, <1>2 DEF Spawn, Task, TypeOK
    <2>3. \A t \in Task : task'[t] = IF t = spawned + 1 THEN "queued" ELSE task[t]
      BY <1>0, <1>2 DEF Spawn, TypeOK
    <2>4. \A t \in Task : task'[t] = "unborn" <=> t > spawned'
      BY <1>0, <2>2, <2>3
    <2>5. \A t \in Task : task'[t] # "send_err"
      BY <1>0, <2>1, <2>3
    <2> QED
      BY <1>0, <1>2, <2>1, <2>4, <2>5 DEF Spawn
  <1>3. ASSUME Fetched PROVE ControlInv'
    BY <1>0, <1>3 DEF Fetched
  <1>4. ASSUME RecvOk PROVE ControlInv'
    BY <1>0, <1>4 DEF RecvOk
  <1>5. ASSUME TransformErr PROVE ControlInv'
    BY <1>0, <1>5 DEF TransformErr, ReturnErr
  <1>6. ASSUME RecvErr PROVE ControlInv'
    BY <1>0, <1>6 DEF RecvErr, ReturnErr
  <1>7. ASSUME ChannelClosed PROVE ControlInv'
    BY <1>0, <1>7 DEF ChannelClosed
  <1>8. ASSUME Join PROVE ControlInv'
    BY <1>0, <1>8 DEF Join, ReturnErr
  <1>9. ASSUME Frames PROVE ControlInv'
    BY <1>0, <1>9 DEF Frames, ReturnErr
  (* A step of a task leaves the collector where it is, takes one living   *)
  (* task to another point, and brings none to life.                       *)
  <1>10. ASSUME NEW t \in Task, NEW point \in TaskPoints, Alive(t),
                task' = [task EXCEPT ![t] = point],
                UNCHANGED <<collector, spawned, receiver, failure>>,
                collector \in {"join", "frames", "ok"} => channel' = channel,
                point = "send_err" => ~receiver
         PROVE  ControlInv'
    <2>1. \A u \in Task : u # t => task'[u] = task[u]
      BY <1>0, <1>10 DEF TypeOK
    <2>2. task'[t] = point /\ point # "unborn" /\ task[t] # "unborn"
      BY <1>0, <1>10 DEF TypeOK, TaskPoints
    <2>3. collector \notin {"join", "frames", "ok"}
      BY <1>0, <1>10
    <2>4. collector = "err" => failure \in {"message", "transform"}
      BY <1>0, <1>10
    <2>5. point = "send_err" => collector = "err"
      BY <1>0, <1>10, <2>3 DEF TypeOK, CollectorPoints
    <2> QED
      BY <1>0, <1>10, <2>1, <2>2, <2>3, <2>4, <2>5
  <1>11. ASSUME NEW t \in Task, Request(t) PROVE ControlInv'
    BY <1>10, <1>11 DEF Request, TaskPoints
  <1>12. ASSUME NEW t \in Task, Extracted(t) PROVE ControlInv'
    BY <1>10, <1>12 DEF Extracted, TaskPoints
  <1>13. ASSUME NEW t \in Task, ExtractErr(t) PROVE ControlInv'
    BY <1>10, <1>13 DEF ExtractErr, TaskPoints
  <1>14. ASSUME NEW t \in Task, Panic(t) PROVE ControlInv'
    BY <1>10, <1>14 DEF Panic, TaskPoints
  <1>15. ASSUME NEW t \in Task, Send(t) PROVE ControlInv'
    BY <1>0, <1>15 DEF Send
  <1>16. ASSUME NEW t \in Task, Sent(t) PROVE ControlInv'
    BY <1>10, <1>16 DEF Sent, TaskPoints
  <1>17. ASSUME NEW t \in Task, SendErr(t) PROVE ControlInv'
    BY <1>10, <1>17 DEF SendErr, TaskPoints
  <1>18. ASSUME UNCHANGED vars PROVE ControlInv'
    BY <1>0, <1>18 DEF vars
  <1> QED
    BY NextCases, <1>1, <1>2, <1>3, <1>4, <1>5, <1>6, <1>7, <1>8, <1>9, <1>11, <1>12, <1>13,
       <1>14, <1>15, <1>16, <1>17, <1>18

-----------------------------------------------------------------------------
(* A task whose own state is left alone keeps its promise as long as the   *)
(* channel keeps its messages and gains none, or the collector gives up.   *)
LEMMA Bystander ==
  ASSUME NEW t \in Task, MessagesOf(t),
         task'[t] = task[t], rows'[t] = rows[t],
         sending'[t] = sending[t], columns'[t] = columns[t],
         collector = "err" => collector' = "err",
         \A m \in Queue' : m.task = t => m \in Queue,
         collector' = "err" \/ \A m \in Queue : m.task = t => m \in Queue'
  PROVE  MessagesOf(t)'
  <1>1. ErrorOf(t).task = t /\ \A r : RowOf(t, r).task = t
    BY DEF RowOf, ErrorOf
  <1>2. Before(t)' = Before(t)
    BY DEF Before
  <1>3. Untouched(t) => Untouched(t)'
    BY DEF Untouched
  <1>4. Handed(t)' = Handed(t)
    BY DEF Handed
  <1>5. HandsOverRows(t) => HandsOverRows(t)'
    BY <1>1, <1>4 DEF HandsOverRows
  <1>6. HandsOverError(t) => HandsOverError(t)'
    BY <1>1 DEF HandsOverError
  <1> QED
    BY <1>2, <1>3, <1>5, <1>6 DEF MessagesOf

(* A step that touches neither the channel nor any message.                *)
LEMMA NothingMoves ==
  ASSUME MessagesInv, UNCHANGED <<rows, channel, sending, columns>>,
         \A t \in Task : task'[t] = task[t] \/ (task[t] # "ok" /\ Before(t) /\ Before(t)')
                         \/ (~Before(t) /\ ~Before(t)' /\ (task'[t] = "ok" => sending[t] = <<>>)),
         collector = "err" => collector' = "err"
  PROVE  MessagesInv'
  <1>1. ASSUME NEW t \in Task PROVE MessagesOf(t)'
    <2>1. MessagesOf(t)
      BY DEF MessagesInv
    <2>2. Untouched(t) => Untouched(t)'
      BY DEF Untouched, Queue
    <2>3. HandsOverRows(t) => HandsOverRows(t)'
      BY DEF HandsOverRows, Handed, Queue
    <2>4. HandsOverError(t) => HandsOverError(t)'
      BY DEF HandsOverError, Queue
    <2> QED
      BY <2>1, <2>2, <2>3, <2>4 DEF MessagesOf, Before
  <1> QED
    BY <1>1 DEF MessagesInv

(* The collector takes the oldest message and gives up.                    *)
LEMMA DropsMessage ==
  ASSUME TypeOK, MessagesInv, channel # <<>>, channel' = Tail(channel), collector' = "err",
         UNCHANGED <<rows, task, sending, columns>>
  PROVE  MessagesInv'
  <1>1. NoTwice(channel)' /\ Queue' = Queue \ {Head(channel)}
    BY Receive DEF MessagesInv, TypeOK, Queue
  <1>2. ASSUME NEW t \in Task PROVE MessagesOf(t)'
    BY <1>1, Bystander DEF MessagesInv
  <1> QED
    BY <1>1, <1>2 DEF MessagesInv

(* The response the collector adds to the columns was nowhere in them.     *)
LEMMA ReceivedOnce ==
  ASSUME TypeOK, MessagesInv, NEW m \in Queue, m.ok
  PROVE  /\ m.task \in Task /\ m.row \in 1 .. NRows
         /\ HandsOverRows(m.task)
         /\ m.row <= Handed(m.task) /\ Handed(m.task) <= rows[m.task]
         /\ columns[m.task][m.row] = 0
  <1>1. m.task \in Task /\ m.row \in 1 .. NRows
    BY QueueType, MessageIs
  <1> DEFINE t == m.task
  <1>2. MessagesOf(t)
    BY <1>1 DEF MessagesInv
  <1>3. ~Before(t)
    BY <1>2 DEF MessagesOf, Untouched
  <1>4. ~HandsOverError(t)
    BY DEF HandsOverError, ErrorOf
  <1>5. HandsOverRows(t)
    BY <1>2, <1>3, <1>4 DEF MessagesOf
  <1>6. Len(sending[t]) \in Nat /\ rows[t] \in Nat
    BY <1>1, CollectAssumption DEF TypeOK
  <1> QED
    BY <1>1, <1>5, <1>6 DEF HandsOverRows, Handed

LEMMA RecvOkMessages ==
  ASSUME TypeOK, MessagesInv, RecvOk
  PROVE  MessagesInv'
  <1> DEFINE m == Head(channel)
  <1>1. NoTwice(channel)' /\ Queue' = Queue \ {m} /\ m \in Queue
    BY Receive DEF MessagesInv, TypeOK, Queue, RecvOk
  <1>2. m.ok
    BY DEF RecvOk
  <1>3. columns' = [columns EXCEPT ![m.task][m.row] = @ + 1]
    BY DEF RecvOk
  <1>4. /\ task' = task /\ rows' = rows /\ sending' = sending /\ collector' = collector
    BY DEF RecvOk
  <1> HIDE DEF m
  <1>5. /\ m.task \in Task /\ m.row \in 1 .. NRows
        /\ HandsOverRows(m.task) /\ m.row <= Handed(m.task) /\ columns[m.task][m.row] = 0
    BY <1>1, <1>2, ReceivedOnce
  <1>6. /\ columns'[m.task][m.row] = 1
        /\ \A t \in Task : t # m.task => columns'[t] = columns[t]
        /\ \A r \in 1 .. NRows : r # m.row => columns'[m.task][r] = columns[m.task][r]
    <2>1. columns \in [Task -> [1 .. NRows -> Nat]]
      BY DEF TypeOK
    <2>2. /\ columns'[m.task][m.row] = columns[m.task][m.row] + 1
          /\ \A t \in Task : t # m.task => columns'[t] = columns[t]
          /\ \A r \in 1 .. NRows : r # m.row => columns'[m.task][r] = columns[m.task][r]
      BY <1>3, <1>5, <2>1, Bump
    <2> QED
      BY <1>5, <2>2
  <1>7. ASSUME NEW t \in Task, t # m.task PROVE MessagesOf(t)'
    BY <1>1, <1>4, <1>6, <1>7, Bystander DEF MessagesInv
  <1>8. ASSUME NEW t, t = m.task PROVE MessagesOf(t)'
    <2>1. Handed(t)' = Handed(t) /\ Before(t)' = Before(t)
      BY <1>4 DEF Handed, Before
    <2>2. \A q \in Queue : q.task = t /\ q # m => q.row # m.row
      <3> SUFFICES ASSUME NEW q \in Queue, q.task = t, q.row = m.row PROVE q = m
        OBVIOUS
      <3>1. q.ok = TRUE /\ m.ok = TRUE
        BY <1>1, <1>5, <1>8, QueueType, MessageIs DEF HandsOverRows
      <3> QED
        BY <1>1, <1>8, <3>1, QueueType, MessageIs
    <2>3. \A q \in Queue' : q.task = t => q.ok /\ q.row <= Handed(t) /\ columns'[t][q.row] = 0
      BY <1>1, <1>5, <1>6, <1>8, <2>2, QueueType, MessageIs DEF HandsOverRows
    <2>4. \A r \in 1 .. NRows : columns'[t][r] = 0 \/ (columns'[t][r] = 1 /\ r <= Handed(t))
      BY <1>5, <1>6, <1>8 DEF HandsOverRows
    <2>5. Handed(t) <= NRows /\ Handed(t) \in Int
      BY <1>5, <1>8, CollectAssumption DEF TypeOK, Handed
    <2>6. ASSUME NEW r \in 1 .. Handed(t), collector # "err"
          PROVE  columns'[t][r] = 1 \/ RowOf(t, r) \in Queue'
      <3>1. CASE r = m.row
        BY <1>6, <1>8, <3>1
      <3>2. CASE r # m.row
        <4>1. RowOf(t, r) # m
          BY <3>2 DEF RowOf
        <4>2. r \in 1 .. NRows
          BY <2>5, CollectAssumption
        <4> QED
          BY <1>1, <1>5, <1>6, <1>8, <2>6, <3>2, <4>1, <4>2 DEF HandsOverRows
      <3> QED
        BY <3>1, <3>2
    <2>7. HandsOverRows(t)'
      <3>1. \A i \in 1 .. Len(sending[t]) : sending[t][i] = RowOf(t, Handed(t) + i)
        BY <1>5, <1>8 DEF HandsOverRows
      <3>2. Handed(t) >= 0
        BY <1>5, <1>8 DEF HandsOverRows
      <3> QED
        BY <1>4, <2>1, <2>3, <2>4, <2>6, <3>1, <3>2 DEF HandsOverRows
    <2>8. MessagesOf(t) /\ ~Before(t)
      BY <1>1, <1>5, <1>8 DEF MessagesInv, MessagesOf, Untouched
    <2> QED
      BY <1>4, <2>1, <2>7, <2>8 DEF MessagesOf
  <1> QED
    BY <1>1, <1>7, <1>8 DEF MessagesInv

(* A task that has just extracted holds all its rows, and no other place   *)
(* holds any of them.                                                      *)
LEMMA ExtractedMessages ==
  ASSUME TypeOK, MessagesInv, NEW t \in Task, Extracted(t)
  PROVE  MessagesInv'
  <1> DEFINE answer == [r \in 1 .. rows[t] |-> [task |-> t, row |-> r, ok |-> TRUE]]
  <1>1. /\ channel' = channel /\ rows' = rows /\ columns' = columns /\ collector' = collector
        /\ Queue' = Queue
    BY DEF Extracted, Queue
  <1>2. ASSUME NEW u \in Task, u # t PROVE MessagesOf(u)'
    <2>1. task'[u] = task[u] /\ sending'[u] = sending[u]
      BY <1>2 DEF Extracted, TypeOK
    <2> QED
      BY <1>1, <2>1, Bystander DEF MessagesInv
  <1>3. rows[t] \in 1 .. NRows
    BY DEF TypeOK
  <1>4. answer \in Seq(Message) /\ Len(answer) = rows[t]
    BY <1>3, AnswerIs
  <1>5. \A i \in 1 .. rows[t] : answer[i] = RowOf(t, i)
    BY DEF RowOf
  <1>6. sending'[t] = answer /\ task'[t] = "send"
    BY DEF Extracted, TypeOK
  <1> HIDE DEF answer
  <1>7. Untouched(t)
    BY DEF Extracted, MessagesInv, MessagesOf, Before
  <1>8. Handed(t)' = 0
    BY <1>1, <1>3, <1>4, <1>6, CollectAssumption DEF Handed
  <1>9. HandsOverRows(t)'
    <2>1. \A i \in 1 .. rows[t] : 0 + i = i
      BY <1>3, CollectAssumption
    <2> QED
      BY <1>1, <1>4, <1>5, <1>6, <1>7, <1>8, <2>1 DEF HandsOverRows, Untouched
  <1>10. MessagesOf(t)'
    BY <1>6, <1>9 DEF MessagesOf, Before
  <1> QED
    BY <1>1, <1>2, <1>10 DEF MessagesInv

(* The error of a generic task is in its hands; that of a batched one is   *)
(* its result.                                                             *)
LEMMA ExtractErrMessages ==
  ASSUME TypeOK, MessagesInv, NEW t \in Task, ExtractErr(t)
  PROVE  MessagesInv'
  <1>1. /\ channel' = channel /\ rows' = rows /\ columns' = columns /\ collector' = collector
        /\ Queue' = Queue
    BY DEF ExtractErr, Queue
  <1>2. ASSUME NEW u \in Task, u # t PROVE MessagesOf(u)'
    <2>1. task'[u] = task[u] /\ sending'[u] = sending[u]
      BY <1>2 DEF ExtractErr, TypeOK
    <2> QED
      BY <1>1, <2>1, Bystander DEF MessagesInv
  <1>3. Untouched(t)
    BY DEF ExtractErr, MessagesInv, MessagesOf, Before
  <1>4. CASE style = "generic"
    <2>1. task'[t] = "send" /\ sending'[t] = <<ErrorOf(t)>>
      BY <1>4 DEF ExtractErr, TypeOK, ErrorOf
    <2>2. ErrorOf(t) \notin Queue /\ \A m \in Queue : m.task # t
      BY <1>3 DEF Untouched, ErrorOf
    <2>3. HandsOverError(t)'
      BY <1>1, <1>3, <2>1, <2>2 DEF HandsOverError, Untouched
    <2> QED
      BY <1>1, <1>2, <2>1, <2>3 DEF MessagesInv, MessagesOf, Before
  <1>5. CASE style # "generic"
    <2>1. task'[t] = "request_err" /\ sending'[t] = sending[t]
      BY <1>5 DEF ExtractErr, TypeOK
    <2>2. Untouched(t)'
      BY <1>1, <1>3, <2>1 DEF Untouched
    <2> QED
      BY <1>1, <1>2, <2>1, <2>2 DEF MessagesInv, MessagesOf, Before
  <1> QED
    BY <1>4, <1>5

(* What a task sends next is not in the channel yet.                       *)
LEMMA SendsOnce ==
  ASSUME TypeOK, MessagesInv, NEW t \in Task, ~Before(t), sending[t] # <<>>
  PROVE  /\ Head(sending[t]) \in Message
         /\ Head(sending[t]).task = t
         /\ Head(sending[t]) \notin Queue
  <1>1. /\ sending[t] \in Seq(Message) /\ Len(sending[t]) \in Nat \ {0}
        /\ Head(sending[t]) = sending[t][1] /\ sending[t][1] \in Message
        /\ rows[t] \in Nat
    BY CollectAssumption DEF TypeOK
  <1>2. CASE HandsOverRows(t)
    <2>1. sending[t][1] = RowOf(t, Handed(t) + 1)
      BY <1>1, <1>2 DEF HandsOverRows
    <2>2. Handed(t) \in Int
      BY <1>1 DEF Handed
    <2>3. \A m \in Queue : m.task = t => m.row # Handed(t) + 1
      BY <1>2, <2>2, QueueType, MessageIs, CollectAssumption DEF HandsOverRows
    <2> QED
      BY <1>1, <2>1, <2>3 DEF RowOf
  <1>3. CASE HandsOverError(t)
    <2>1. sending[t] = <<ErrorOf(t)>> /\ ErrorOf(t) \notin Queue
      BY <1>3 DEF HandsOverError
    <2> QED
      BY <1>1, <2>1 DEF ErrorOf
  <1> QED
    BY <1>2, <1>3 DEF MessagesInv, MessagesOf

LEMMA SendMessages ==
  ASSUME TypeOK, ControlInv, MessagesInv, NEW t \in Task, Send(t)
  PROVE  MessagesInv'
  <1> DEFINE m == Head(sending[t])
  <1>1. ~Before(t) /\ sending[t] # <<>> /\ task[t] = "send"
    BY DEF Send, Before
  <1>2. m \in Message /\ m.task = t /\ m \notin Queue
    BY <1>1, SendsOnce
  <1>3. NoTwice(channel)' /\ Queue' = Queue \cup {m}
    BY <1>2, Enqueue DEF Send, MessagesInv, TypeOK, Queue
  <1>4. /\ task' = task /\ rows' = rows /\ columns' = columns /\ collector' = collector
        /\ sending' = [sending EXCEPT ![t] = Tail(sending[t])]
    BY DEF Send
  <1>5. collector \in {"fetch", "transform"}
    BY DEF Send, ControlInv
  <1>6. ASSUME NEW u \in Task, u # t PROVE MessagesOf(u)'
    <2>1. sending'[u] = sending[u]
      BY <1>4, <1>6 DEF TypeOK
    <2>2. \A q \in Queue' : q.task = u => q \in Queue
      BY <1>2, <1>3, <1>6
    <2> QED
      BY <1>3, <1>4, <2>1, <2>2, Bystander DEF MessagesInv
  <1>7. /\ sending[t] \in Seq(Message) /\ Len(sending[t]) \in Nat \ {0}
        /\ m = sending[t][1]
        /\ sending'[t] = Tail(sending[t])
        /\ Len(sending'[t]) = Len(sending[t]) - 1
        /\ \A i \in 1 .. Len(sending[t]) - 1 : sending'[t][i] = sending[t][i + 1]
        /\ rows[t] \in Nat /\ rows[t] <= NRows
    BY <1>1, <1>4, CollectAssumption DEF TypeOK
  <1> HIDE DEF m
  <1>8. Before(t)' = Before(t)
    BY <1>4 DEF Before
  <1>9. CASE HandsOverRows(t)
    <2>1. Handed(t) \in Nat /\ Handed(t)' = Handed(t) + 1 /\ Handed(t)' <= NRows
      BY <1>4, <1>7, <1>9, CollectAssumption DEF Handed, HandsOverRows
    <2>2. m = RowOf(t, Handed(t) + 1)
      BY <1>7, <1>9 DEF HandsOverRows
    <2>3. \A i \in 1 .. Len(sending'[t]) : sending'[t][i] = RowOf(t, Handed(t)' + i)
      <3> SUFFICES ASSUME NEW i \in 1 .. Len(sending[t]) - 1
                   PROVE  sending'[t][i] = RowOf(t, Handed(t)' + i)
        BY <1>7
      <3>0. Len(sending[t]) \in Nat /\ i \in Nat
        BY <1>7
      <3>1. i + 1 \in 1 .. Len(sending[t]) /\ Handed(t) + (i + 1) = Handed(t)' + i
        BY <2>1, <3>0
      <3>2. sending'[t][i] = sending[t][i + 1]
        BY <1>7
      <3> QED
        BY <1>9, <3>1, <3>2 DEF HandsOverRows
    <2>4. \A r \in 1 .. NRows : columns'[t][r] = 0 \/ (columns'[t][r] = 1 /\ r <= Handed(t)')
      BY <1>4, <1>9, <2>1, CollectAssumption DEF HandsOverRows
    <2>5. columns[t][Handed(t) + 1] = 0
      BY <1>9, <2>1, CollectAssumption DEF HandsOverRows
    <2>6. ASSUME NEW q \in Queue', q.task = t
          PROVE  q.ok /\ q.row <= Handed(t)' /\ columns'[t][q.row] = 0
      <3>1. CASE q = m
        BY <1>4, <2>1, <2>2, <2>5, <3>1 DEF RowOf
      <3>2. CASE q \in Queue
        BY <1>4, <1>9, <2>1, <2>6, <3>2, QueueType, MessageIs, CollectAssumption
           DEF HandsOverRows
      <3> QED
        BY <1>3, <3>1, <3>2
    <2>7. ASSUME NEW r \in 1 .. Handed(t)'
          PROVE  columns'[t][r] = 1 \/ RowOf(t, r) \in Queue'
      <3>1. CASE r = Handed(t) + 1
        BY <1>3, <2>2, <3>1
      <3>2. CASE r \in 1 .. Handed(t)
        BY <1>3, <1>4, <1>5, <1>9, <3>2 DEF HandsOverRows
      <3> QED
        BY <2>1, <3>1, <3>2
    <2>8. HandsOverRows(t)'
      BY <2>1, <2>3, <2>4, <2>6, <2>7 DEF HandsOverRows
    <2> QED
      BY <1>1, <1>3, <1>4, <1>6, <1>8, <2>8 DEF MessagesInv, MessagesOf
  <1>10. CASE HandsOverError(t)
    <2>1. sending[t] = <<ErrorOf(t)>> /\ m = ErrorOf(t)
      BY <1>1, <1>7, <1>10 DEF HandsOverError
    <2>2. sending'[t] = <<>>
      BY <1>7, <2>1
    <2>3. HandsOverError(t)'
      BY <1>3, <1>4, <1>10, <2>1, <2>2 DEF HandsOverError
    <2> QED
      BY <1>1, <1>3, <1>4, <1>6, <1>8, <2>3 DEF MessagesInv, MessagesOf
  <1> QED
    BY <1>1, <1>9, <1>10 DEF MessagesInv, MessagesOf

LEMMA MessagesStep == IInv /\ [Next]_vars => MessagesInv'
  <1> SUFFICES ASSUME IInv, [Next]_vars PROVE MessagesInv'
    OBVIOUS
  <1>0. TypeOK /\ ControlInv /\ MessagesInv
    BY DEF IInv
  <1>1. ASSUME ParamsErr PROVE MessagesInv'
    BY <1>0, <1>1, NothingMoves DEF ParamsErr, ReturnErr
  <1>2. ASSUME Spawn PROVE MessagesInv'
    <2>1. \A t \in Task : task'[t] = task[t]
                          \/ (t = spawned + 1 /\ task'[t] = "queued")
      BY <1>0, <1>2 DEF Spawn, TypeOK
    <2>2. \A t \in Task : t = spawned + 1 => task[t] = "unborn"
      BY <1>0, CollectAssumption DEF ControlInv, TypeOK, Task
    <2> QED
      BY <1>0, <1>2, <2>1, <2>2, NothingMoves DEF Spawn, Before
  <1>3. ASSUME Fetched PROVE MessagesInv'
    BY <1>0, <1>3, NothingMoves DEF Fetched
  <1>4. ASSUME RecvOk PROVE MessagesInv'
    BY <1>0, <1>4, RecvOkMessages
  <1>5. ASSUME TransformErr PROVE MessagesInv'
    BY <1>0, <1>5, DropsMessage DEF TransformErr, ReturnErr
  <1>6. ASSUME RecvErr PROVE MessagesInv'
    BY <1>0, <1>6, DropsMessage DEF RecvErr, ReturnErr
  <1>7. ASSUME ChannelClosed PROVE MessagesInv'
    BY <1>0, <1>7, NothingMoves DEF ChannelClosed
  <1>8. ASSUME Join PROVE MessagesInv'
    BY <1>0, <1>8, NothingMoves DEF Join, ReturnErr
  <1>9. ASSUME Frames PROVE MessagesInv'
    BY <1>0, <1>9, NothingMoves DEF Frames, ReturnErr
  <1>10. ASSUME NEW t \in Task, Request(t) PROVE MessagesInv'
    BY <1>0, <1>10, NothingMoves DEF Request, Before, TypeOK
  <1>11. ASSUME NEW t \in Task, Extracted(t) PROVE MessagesInv'
    BY <1>0, <1>11, ExtractedMessages
  <1>12. ASSUME NEW t \in Task, ExtractErr(t) PROVE MessagesInv'
    BY <1>0, <1>12, ExtractErrMessages
  <1>13. ASSUME NEW t \in Task, Panic(t) PROVE MessagesInv'
    BY <1>0, <1>13, NothingMoves DEF Panic, Before, TypeOK
  <1>14. ASSUME NEW t \in Task, Send(t) PROVE MessagesInv'
    BY <1>0, <1>14, SendMessages
  <1>15. ASSUME NEW t \in Task, Sent(t) PROVE MessagesInv'
    BY <1>0, <1>15, NothingMoves DEF Sent, Before, TypeOK
  <1>16. ASSUME NEW t \in Task, SendErr(t) PROVE MessagesInv'
    BY <1>0, <1>16, NothingMoves DEF SendErr, Before, TypeOK
  <1>17. ASSUME UNCHANGED vars PROVE MessagesInv'
    BY <1>0, <1>17, NothingMoves DEF vars
  <1> QED
    BY NextCases, <1>1, <1>2, <1>3, <1>4, <1>5, <1>6, <1>7, <1>8, <1>9, <1>10, <1>11, <1>12,
       <1>13, <1>14, <1>15, <1>16, <1>17

-----------------------------------------------------------------------------
(* Once the join has found no failure, every task returned Ok(()) with     *)
(* nothing left to send and nothing in the channel: all its rows are in    *)
(* the columns.  An error message would still be in the channel.           *)
LEMMA JoinedIsWhole ==
  ASSUME IInv, collector \in {"frames", "ok"}
  PROVE  \A t \in Task, r \in 1 .. NRows : columns[t][r] = IF r <= rows[t] THEN 1 ELSE 0
  <1> SUFFICES ASSUME NEW t \in Task, NEW r \in 1 .. NRows
               PROVE  columns[t][r] = IF r <= rows[t] THEN 1 ELSE 0
    OBVIOUS
  <1>0. TypeOK /\ ControlInv /\ MessagesOf(t)
    BY DEF IInv, MessagesInv
  <1>1. task[t] = "ok"
    <2>1. ~Alive(t) /\ task[t] \notin Failed
      BY <1>0 DEF ControlInv
    <2>2. task[t] # "unborn"
      BY <1>0, CollectAssumption DEF ControlInv, Task
    <2> QED
      BY <1>0, <2>1, <2>2 DEF TypeOK, Alive, Failed, TaskPoints
  <1>2. sending[t] = <<>> /\ Len(sending[t]) = 0
    BY <1>0, <1>1 DEF MessagesOf
  <1>3. Queue = {}
    BY <1>0 DEF ControlInv, Queue, Elements
  <1>4. HandsOverRows(t)
    BY <1>0, <1>1, <1>2, <1>3 DEF MessagesOf, HandsOverError, Before
  <1>5. Handed(t) = rows[t] /\ rows[t] \in Nat
    BY <1>0, <1>2, CollectAssumption DEF Handed, TypeOK
  <1> QED
    BY <1>3, <1>4, <1>5, CollectAssumption DEF HandsOverRows

(***************************************************************************)
(* The pipeline keeps the invariant: each message is in one place, and the *)
(* receiver goes only when nobody needs it or an error took it.            *)
(***************************************************************************)
THEOREM CollectInvariant == Spec => []IInv
  <1>1. IInv /\ [Next]_vars => IInv'
    BY TypeStep, ControlStep, MessagesStep DEF IInv
  <1> QED
    BY InitIInv, <1>1, PTL DEF Spec

(***************************************************************************)
(* What the caller of collect_partition is told is true: the frames hold   *)
(* every row of every task once, and a failed send is never the error      *)
(* join_partition_handles reports.                                         *)
(***************************************************************************)
THEOREM AnswerTheorem == Spec => []AnswerIsTrue
  <1>1. IInv => AnswerIsTrue
    <2> SUFFICES ASSUME IInv PROVE AnswerIsTrue
      OBVIOUS
    <2>1. FramesAreWhole
      BY JoinedIsWhole DEF FramesAreWhole
    <2>2. SendFailureIsNeverTheCause
      BY DEF IInv, ControlInv
    <2> QED
      BY <2>1, <2>2 DEF AnswerIsTrue
  <1> QED
    BY CollectInvariant, <1>1, PTL

-----------------------------------------------------------------------------
(* The refinement.  A response is delivered when transform adds it to the  *)
(* columns; create_dfs commits; every early return aborts.                 *)

LEMMA RefinementInit == Init => Promise!Init
  BY CollectAssumption DEF Init, Promise!Init, RowsCollected

LEMMA RefinementStep ==
  ASSUME IInv, [Next]_vars
  PROVE  [Promise!Next]_(Promise!aonVars)
  <1>0. TypeOK /\ MessagesInv
    BY DEF IInv
  <1>1. ASSUME UNCHANGED <<rows, columns>>, collector \notin {"ok", "err"}, collector' = "err"
        PROVE  Promise!Abort
    BY <1>1 DEF Promise!Abort, RowsOwed, RowsCollected
  <1>2. ASSUME UNCHANGED <<rows, columns>>,
               collector' = collector \/ {collector, collector'} \cap {"ok", "err"} = {}
        PROVE  UNCHANGED Promise!aonVars
    BY <1>2 DEF Promise!aonVars, RowsOwed, RowsCollected
  <1>3. ASSUME ParamsErr PROVE Promise!Next
    BY <1>1, <1>3 DEF ParamsErr, ReturnErr, Promise!Next
  <1>4. ASSUME Spawn PROVE UNCHANGED Promise!aonVars
    BY <1>2, <1>4 DEF Spawn
  <1>5. ASSUME Fetched PROVE UNCHANGED Promise!aonVars
    BY <1>2, <1>5 DEF Fetched
  <1>6. ASSUME RecvOk PROVE Promise!Next
    <2> DEFINE m == Head(channel)
               p == <<m.task, m.row>>
    <2>1. m \in Queue /\ m.ok
      BY <1>0, <1>6, Receive DEF MessagesInv, TypeOK, Queue, RecvOk
    <2>2. columns' = [columns EXCEPT ![m.task][m.row] = @ + 1]
      BY <1>6 DEF RecvOk
    <2>3. collector = "transform" /\ collector' = "transform" /\ rows' = rows
      BY <1>6 DEF RecvOk
    <2> HIDE DEF m
    <2>4. /\ m.task \in Task /\ m.row \in 1 .. NRows
          /\ m.row <= Handed(m.task) /\ Handed(m.task) <= rows[m.task]
          /\ columns[m.task][m.row] = 0
      BY <1>0, <2>1, ReceivedOnce
    <2>5. m.row <= rows[m.task]
      BY <1>0, <2>4, CollectAssumption DEF TypeOK, Handed
    <2>6. columns \in [Task -> [1 .. NRows -> Nat]]
      BY <1>0 DEF TypeOK
    <2>7. /\ columns'[m.task][m.row] = columns[m.task][m.row] + 1
          /\ \A t \in Task : t # m.task => columns'[t] = columns[t]
          /\ \A r \in 1 .. NRows : r # m.row => columns'[m.task][r] = columns[m.task][r]
      BY <2>2, <2>4, <2>6, Bump
    <2>8. p \in RowsOwed /\ p \notin RowsCollected
      BY <2>4, <2>5 DEF RowsOwed, RowsCollected
    <2>9. \A t \in Task, r \in 1 .. NRows :
            columns'[t][r] > 0 <=> columns[t][r] > 0 \/ (t = m.task /\ r = m.row)
      BY <2>4, <2>6, <2>7
    <2>10. RowsCollected' = RowsCollected \cup {p}
      BY <2>4, <2>9 DEF RowsCollected
    <2>11. RowsOwed' = RowsOwed
      BY <2>3 DEF RowsOwed
    <2>12. Promise!Deliver(p)
      BY <2>3, <2>8, <2>10, <2>11 DEF Promise!Deliver
    <2> QED
      BY <2>8, <2>12 DEF Promise!Next
  <1>7. ASSUME TransformErr PROVE Promise!Next
    BY <1>1, <1>7 DEF TransformErr, ReturnErr, Promise!Next
  <1>8. ASSUME RecvErr PROVE Promise!Next
    BY <1>1, <1>8 DEF RecvErr, ReturnErr, Promise!Next
  <1>9. ASSUME ChannelClosed PROVE UNCHANGED Promise!aonVars
    BY <1>2, <1>9 DEF ChannelClosed
  <1>10. ASSUME Join PROVE Promise!Next \/ UNCHANGED Promise!aonVars
    <2>1. CASE collector' = "err"
      BY <1>1, <1>10, <2>1 DEF Join, ReturnErr, Promise!Next
    <2>2. CASE collector' = "frames"
      BY <1>2, <1>10, <2>2 DEF Join
    <2> QED
      BY <1>10, <2>1, <2>2 DEF Join, ReturnErr
  <1>11. ASSUME Frames PROVE Promise!Next
    <2>1. CASE collector' = "err"
      BY <1>1, <1>11, <2>1 DEF Frames, ReturnErr, Promise!Next
    <2>2. CASE collector' = "ok"
      <3>1. \A t \in Task, r \in 1 .. NRows : columns[t][r] > 0 <=> r <= rows[t]
        BY <1>11, JoinedIsWhole DEF Frames
      <3>2. RowsCollected = RowsOwed
        BY <3>1 DEF RowsCollected, RowsOwed
      <3>3. Promise!Commit
        BY <1>11, <2>2, <3>2 DEF Frames, Promise!Commit, RowsCollected, RowsOwed
      <3> QED
        BY <3>3 DEF Promise!Next
    <2> QED
      BY <1>11, <2>1, <2>2 DEF Frames, ReturnErr
  <1>12. ASSUME NEW t \in Task, TaskStep(t) PROVE UNCHANGED Promise!aonVars
    BY <1>2, <1>12
       DEF TaskStep, Request, Extracted, ExtractErr, Panic, Send, Sent, SendErr
  <1>13. ASSUME UNCHANGED vars PROVE UNCHANGED Promise!aonVars
    BY <1>2, <1>13 DEF vars
  <1> QED
    BY <1>3, <1>4, <1>5, <1>6, <1>7, <1>8, <1>9, <1>10, <1>11, <1>12, <1>13
       DEF Next, CollectorStep, Quiet

(***************************************************************************)
(* Tasks, channel and join together implement AllOrNothing: whatever       *)
(* fails, the caller gets all the rows or an error, once and for good.     *)
(***************************************************************************)
THEOREM CollectRefinesAllOrNothing == Spec => ImplementsAllOrNothing
  BY CollectInvariant, RefinementInit, RefinementStep, PTL
     DEF Spec, ImplementsAllOrNothing, Promise!Spec

=============================================================================
