------------------------------- MODULE Freeze -------------------------------
(***************************************************************************)
(* A freeze: the partitions of a query are planned against what the output *)
(* directory already holds, collected by one task each and written, frame  *)
(* by frame, through a temporary file.  The process may die at any step    *)
(* and the command be run again, over the same directory, with other       *)
(* partitions and other flags.                                             *)
(*                                                                         *)
(* One process at a time owns the directory: the temporary name carries    *)
(* nothing that would tell two processes apart.                            *)
(***************************************************************************)
EXTENDS Integers, FiniteSets

CONSTANTS
  Datatypes,    \* scalar datatypes with a schema in the query
  Groups,       \* query.datatypes: the MetaDatatypes
  DatatypesOf,  \* MetaDatatype::datatypes, those with a schema
  Partitions,   \* partitions a command can ask for
  Labels,       \* what partition.label puts into a file name
  LabelOf,      \* the label of each partition; two may share one
  ChunkPermits, \* max_concurrent_chunks, 0 for no limit
  MaxRuns       \* bound: commands run over the directory

ASSUME FreezeAssumption ==
  /\ DatatypesOf \in [Groups -> SUBSET Datatypes]
  /\ LabelOf \in [Partitions -> Labels]
  /\ ChunkPermits \in Nat
  /\ MaxRuns \in Nat
  /\ IsFiniteSet(Groups)
  /\ IsFiniteSet(Partitions)

Key == Groups \X Partitions
Path == Datatypes \X Labels

\* FileOutput::get_paths for one group.
get_paths(k) == {<<d, LabelOf[k[2]]>> : d \in DatatypesOf[k[1]]}

VARIABLES
  \* the directory
  final,      \* by Path: what is under the final name
  tmp,        \* by Path: what is under the "_tmp" name
  incomplete, \* runs whose incomplete_ report is on disk
  report,     \* by run: its final report
  \* the command
  run,        \* how many commands were started
  asked,      \* the partitions this one asks for
  overwrite, reporting, \* its flags
  phase,      \* where freeze is
  \* its tasks
  stage,      \* by Key: where the payload's task is
  left,       \* by Key: frames not yet written
  current,    \* by Key: the path being written
  \* the loop over the tasks' handles
  gathered,   \* the payloads whose handle has been joined
  \* the FreezeSummary: how often each partition is in the list; none of them names a datatype
  completed, errored, skipped,
  unnamed     \* entries of errored that have no partition

disk == <<final, tmp, incomplete, report>>
command == <<run, asked, overwrite, reporting>>
tasks == <<stage, left, current>>
summary == <<gathered, completed, errored, skipped, unnamed>>
vars == <<disk, command, phase, tasks, summary>>

Absent == [whole |-> FALSE, run |-> -1]
File == {Absent} \cup [whole : BOOLEAN, run : 0 .. MaxRuns]
Exists(f) == final[f] # Absent

Phases == {"idle", "plan", "initial_report", "collect", "report_create", "report_write",
           "report_remove", "ok", "dry", "err"}
Stages == {"none", "queued", "collect", "next", "write", "rename", "completed", "errored",
           "panicked"}

TypeOK ==
  /\ final \in [Path -> File]
  /\ tmp \in [Path -> {"absent", "partial", "whole"}]
  /\ incomplete \subseteq 1 .. MaxRuns
  /\ report \in [1 .. MaxRuns -> {"absent", "partial", "whole"}]
  /\ run \in 0 .. MaxRuns
  /\ asked \subseteq Partitions
  /\ overwrite \in BOOLEAN
  /\ reporting \in BOOLEAN
  /\ phase \in Phases
  /\ stage \in [Key -> Stages]
  /\ left \in [Key -> SUBSET Path]
  /\ current \in [Key -> SUBSET Path]
  /\ gathered \subseteq Key
  /\ completed \in [Partitions -> Nat]
  /\ errored \in [Partitions -> Nat]
  /\ skipped \in [Partitions -> Nat]
  /\ unnamed \in Nat

NoTasks ==
  /\ stage' = [k \in Key |-> "none"]
  /\ left' = [k \in Key |-> {}]
  /\ current' = [k \in Key |-> {}]

\* A Vec<Partition> of these payloads, by how often a partition is in it.
ListOf(keys) == [p \in Partitions |-> Cardinality({g \in Groups : <<g, p>> \in keys})]
Nobody == [p \in Partitions |-> 0]

NoSummary ==
  /\ gathered' = {}
  /\ completed' = Nobody /\ errored' = Nobody /\ skipped' = Nobody
  /\ unnamed' = 0

\* Whole files may be there from earlier commands.
Init ==
  /\ final \in [Path -> {Absent, [whole |-> TRUE, run |-> 0]}]
  /\ tmp = [f \in Path |-> "absent"]
  /\ incomplete = {}
  /\ report = [n \in 1 .. MaxRuns |-> "absent"]
  /\ run = 0
  /\ asked = {}
  /\ overwrite = FALSE
  /\ reporting = FALSE
  /\ phase = "idle"
  /\ stage = [k \in Key |-> "none"]
  /\ left = [k \in Key |-> {}]
  /\ current = [k \in Key |-> {}]
  /\ gathered = {}
  /\ completed = Nobody /\ errored = Nobody /\ skipped = Nobody
  /\ unnamed = 0

-----------------------------------------------------------------------------
(* freeze                                                                  *)

Start ==
  /\ phase \in {"idle", "ok", "dry", "err"}
  /\ run < MaxRuns
  /\ run' = run + 1
  /\ asked' \in SUBSET Partitions \ {{}}
  /\ overwrite' \in BOOLEAN
  /\ reporting' \in BOOLEAN
  /\ phase' = "plan"
  /\ NoTasks
  /\ NoSummary
  /\ UNCHANGED disk

\* An invalid query, or an output directory that cannot be created.
PlanErr ==
  /\ phase = "plan"
  /\ phase' = "err"
  /\ UNCHANGED <<disk, command, tasks, summary>>

\* Mutant: what is on disk is not looked at.
MutNothingSkipped == {}

\* get_payloads: what is skipped, what is left, and whether two payloads collide.
Skippable == {k \in Groups \X asked : ~overwrite /\ \A f \in get_paths(k) : Exists(f)}
Payloads == (Groups \X asked) \ Skippable
\* Mutant: colliding payloads go ahead.
MutNoCollisionCheck == FALSE

Collision == \E j, k \in Payloads : j # k /\ get_paths(j) \cap get_paths(k) # {}

get_payloads ==
  /\ phase = "plan"
  /\ \/ /\ Collision
        /\ phase' = "err"
        /\ UNCHANGED <<tasks, summary>>
     \/ /\ ~Collision
        /\ phase' = "dry"
        /\ UNCHANGED <<tasks, summary>>
     \/ /\ ~Collision
        /\ Payloads = {}
        /\ phase' = "ok"
        /\ skipped' = ListOf(Skippable)
        /\ UNCHANGED <<tasks, gathered, completed, errored, unnamed>>
     \/ /\ ~Collision
        /\ Payloads # {}
        /\ phase' = IF reporting THEN "initial_report" ELSE "collect"
        /\ skipped' = ListOf(Skippable)
        /\ stage' = [k \in Key |-> IF k \in Payloads THEN "queued" ELSE "none"]
        /\ UNCHANGED <<left, current, gathered, completed, errored, unnamed>>
  /\ UNCHANGED <<disk, command>>

\* write_report(None)?: the file may be there even when the write failed.
initial_report ==
  /\ phase = "initial_report"
  /\ \/ incomplete' = incomplete \cup {run} /\ phase' = "collect"
     \/ incomplete' \in {incomplete, incomplete \cup {run}} /\ phase' = "err"
  /\ UNCHANGED <<final, tmp, report, command, tasks, summary>>

Live(k) == stage[k] # "none" /\ k \notin gathered

\* freeze_partitions returned: the final report, in three steps.
collected ==
  /\ phase = "collect"
  /\ \A k \in Key : ~Live(k)
  /\ phase' = IF reporting THEN "report_create" ELSE "ok"
  /\ UNCHANGED <<disk, command, tasks, summary>>

\* Mutant: the incomplete report is deleted before the final one is written.
MutRemoveFirst ==
  /\ phase = "report_create"
  /\ report' = [report EXCEPT ![run] = "partial"]
  /\ phase' = "report_write"
  /\ incomplete' = incomplete \ {run}
  /\ UNCHANGED <<final, tmp, command, tasks, summary>>

report_create ==
  /\ phase = "report_create"
  /\ \/ report' = [report EXCEPT ![run] = "partial"] /\ phase' = "report_write"
     \/ UNCHANGED report /\ phase' = "err"
  /\ UNCHANGED <<final, tmp, incomplete, command, tasks, summary>>

report_write ==
  /\ phase = "report_write"
  /\ \/ report' = [report EXCEPT ![run] = "whole"] /\ phase' = "report_remove"
     \/ UNCHANGED report /\ phase' = "err"
  /\ UNCHANGED <<final, tmp, incomplete, command, tasks, summary>>

report_remove ==
  /\ phase = "report_remove"
  /\ \/ incomplete' = incomplete \ {run} /\ phase' = "ok"
     \/ UNCHANGED incomplete /\ phase' = "err"
  /\ UNCHANGED <<final, tmp, report, command, tasks, summary>>

-----------------------------------------------------------------------------
(* freeze_partition, one task per payload                                  *)

Stage(k, s) == stage' = [stage EXCEPT ![k] = s]

\* Mutant: a payload that fails keeps its permit.
MutErrorKeepsPermit ==
  {k \in Key : stage[k] \in {"collect", "next", "write", "rename", "errored", "panicked"}}

\* The permit is held until the task returns, through the writes.
Holding == {k \in Key : stage[k] \in {"collect", "next", "write", "rename"}}

acquire(k) ==
  /\ phase = "collect"
  /\ stage[k] = "queued"
  /\ ChunkPermits = 0 \/ Cardinality(Holding) < ChunkPermits
  /\ Stage(k, "collect")
  /\ UNCHANGED <<disk, command, phase, left, current, summary>>

\* collect_partition: all of the payload's frames or an error (CollectPartition).
collect_partition(k) ==
  /\ stage[k] = "collect"
  /\ \/ Stage(k, "next") /\ left' = [left EXCEPT ![k] = get_paths(k)]
     \/ Stage(k, "errored") /\ UNCHANGED left
     \/ Stage(k, "panicked") /\ UNCHANGED left
  /\ UNCHANGED <<disk, command, phase, current, summary>>

\* Mutant: the final name is opened and written in place.
MutWriteInPlace(k) ==
  /\ stage[k] = "next"
  /\ \E f \in left[k] :
       /\ final' = [final EXCEPT ![f] = [whole |-> FALSE, run |-> run]]
       /\ tmp' = [tmp EXCEPT ![f] = "partial"]
       /\ current' = [current EXCEPT ![k] = {f}]
       /\ left' = [left EXCEPT ![k] = @ \ {f}]
       /\ Stage(k, "write")
  /\ UNCHANGED <<incomplete, report, command, phase, summary>>

\* File::create of the temporary name truncates what is there.
create_tmp(k) ==
  /\ stage[k] = "next"
  /\ \E f \in left[k] :
       \/ /\ tmp' = [tmp EXCEPT ![f] = "partial"]
          /\ current' = [current EXCEPT ![k] = {f}]
          /\ left' = [left EXCEPT ![k] = @ \ {f}]
          /\ Stage(k, "write")
       \/ Stage(k, "errored") /\ UNCHANGED <<tmp, current, left>>
  /\ UNCHANGED <<final, incomplete, report, command, phase, summary>>

\* The writer finishes, or fails and leaves the temporary file behind.
finish_tmp(k) ==
  /\ stage[k] = "write"
  /\ \E f \in current[k] :
       \/ tmp' = [tmp EXCEPT ![f] = "whole"] /\ Stage(k, "rename")
       \/ UNCHANGED tmp /\ Stage(k, "errored")
  /\ UNCHANGED <<final, incomplete, report, command, phase, left, current, summary>>

rename(k) ==
  /\ stage[k] = "rename"
  /\ \E f \in current[k] :
       \/ /\ tmp[f] # "absent"
          /\ final' = [final EXCEPT ![f] = [whole |-> tmp[f] = "whole", run |-> run]]
          /\ tmp' = [tmp EXCEPT ![f] = "absent"]
          /\ Stage(k, "next")
       \/ UNCHANGED <<final, tmp>> /\ Stage(k, "errored")
  /\ current' = [current EXCEPT ![k] = {}]
  /\ UNCHANGED <<incomplete, report, command, phase, left, summary>>

finish_partition(k) ==
  /\ stage[k] = "next"
  /\ left[k] = {}
  /\ Stage(k, "completed")
  /\ UNCHANGED <<disk, command, phase, left, current, summary>>

Once(list, k) == [list EXCEPT ![k[2]] = @ + 1]

\* Mutant: a join error is dropped instead of being listed as errored.
MutDropJoinError(k) ==
  /\ phase = "collect"
  /\ k \notin gathered
  /\ \/ stage[k] = "completed" /\ completed' = Once(completed, k) /\ UNCHANGED errored
     \/ stage[k] = "errored" /\ errored' = Once(errored, k) /\ UNCHANGED completed
     \/ stage[k] = "panicked" /\ UNCHANGED <<completed, errored>>
  /\ gathered' = gathered \cup {k}
  /\ UNCHANGED <<disk, command, phase, tasks, skipped, unnamed>>

\* The aggregation loop of freeze_partitions, in completion order.  A task that panicked takes its
\* partition with it: the join error is listed without one.
gather(k) ==
  /\ phase = "collect"
  /\ k \notin gathered
  /\ \/ /\ stage[k] = "completed"
        /\ completed' = Once(completed, k)
        /\ UNCHANGED <<errored, unnamed>>
     \/ /\ stage[k] = "errored"
        /\ errored' = Once(errored, k)
        /\ UNCHANGED <<completed, unnamed>>
     \/ /\ stage[k] = "panicked"
        /\ unnamed' = unnamed + 1
        /\ UNCHANGED <<completed, errored>>
  /\ gathered' = gathered \cup {k}
  /\ UNCHANGED <<disk, command, phase, tasks, skipped>>

-----------------------------------------------------------------------------
\* The process dies: only the directory survives.
Crash ==
  /\ phase \notin {"idle", "ok", "dry", "err"}
  /\ phase' = "idle"
  /\ NoTasks
  /\ NoSummary
  /\ UNCHANGED <<disk, command>>

FreezeStep ==
  \/ PlanErr \/ get_payloads \/ initial_report \/ collected
  \/ report_create \/ report_write \/ report_remove

TaskStep(k) ==
  \/ acquire(k) \/ collect_partition(k) \/ create_tmp(k) \/ finish_tmp(k)
  \/ rename(k) \/ finish_partition(k)

Done ==
  /\ phase \in {"idle", "ok", "dry", "err"}
  /\ run = MaxRuns
  /\ UNCHANGED vars

Next ==
  \/ Start \/ FreezeStep \/ Crash \/ Done
  \/ \E k \in Key : TaskStep(k) \/ gather(k)

Spec == Init /\ [][Next]_vars

\* tokio polls what is woken; the semaphore serves its waiters in order.
FairSpec ==
  /\ Spec
  /\ WF_vars(FreezeStep)
  /\ \A k \in Key : WF_vars(TaskStep(k)) /\ SF_vars(acquire(k)) /\ WF_vars(gather(k))

-----------------------------------------------------------------------------
(***************************************************************************)
(* Nothing but a whole file is ever under a final name, whichever step the *)
(* process dies in, whichever write fails and whatever an earlier run left *)
(* behind: skipping a file because it exists never skips half of one.      *)
(***************************************************************************)
FilesAreWhole == \A f \in Path : Exists(f) => final[f].whole

(***************************************************************************)
(* When freeze hands out a summary, a partition is listed once for every   *)
(* datatype asked for it, but for its tasks that panicked, each of which   *)
(* is an entry of errored without a partition; no more of its datatypes    *)
(* are completed than this run wrote in full, and no more are skipped than *)
(* are there.  With nothing under errored, which is when the program exits *)
(* 0 (main.rs), every file asked for is there.                             *)
(***************************************************************************)
Summarised == phase \in {"report_create", "report_write", "report_remove", "ok"}

Panicked == {k \in Key : stage[k] = "panicked"}
GroupsWritten(p) == {g \in Groups : \A f \in get_paths(<<g, p>>) : final[f].run = run}
GroupsThere(p) == {g \in Groups : \A f \in get_paths(<<g, p>>) : Exists(f)}

SummaryIsTrue ==
  Summarised =>
    /\ unnamed = Cardinality(Panicked)
    /\ \A p \in Partitions :
         /\ completed[p] + errored[p] + skipped[p] + ListOf(Panicked)[p] =
              IF p \in asked THEN Cardinality(Groups) ELSE 0
         /\ completed[p] <= Cardinality(GroupsWritten(p))
         /\ skipped[p] <= Cardinality(GroupsThere(p))
    /\ unnamed = 0 /\ errored = Nobody => \A p \in asked : GroupsThere(p) = Groups

(***************************************************************************)
(* A run that started collecting with reports on is accounted for on disk  *)
(* until the end of time: by its incomplete_ report until its final report *)
(* has been written in full.                                               *)
(***************************************************************************)
RunsAccountedFor ==
  [][\A n \in 1 .. MaxRuns : n \in incomplete /\ n \notin incomplete' => report'[n] = "whole"]_vars

(***************************************************************************)
(* Without --overwrite the file of a datatype that is collected on its own *)
(* is never written again once it is there.                                *)
(***************************************************************************)
Alone(f) == \A g \in Groups : f[1] \in DatatypesOf[g] => DatatypesOf[g] = {f[1]}

LoneFilesKept ==
  [][~overwrite => \A f \in Path : Alone(f) /\ Exists(f) => final'[f] = final[f]]_vars

(***************************************************************************)
(* A freeze that does not die returns: no payload waits for a chunk permit *)
(* for ever, whatever becomes of the ones that hold them.                  *)
(***************************************************************************)
FreezeReturns == [](phase = "plan" => <>(phase \in {"idle", "ok", "dry", "err"}))
=============================================================================
