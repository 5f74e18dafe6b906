---------------------------- MODULE FreezeProofs ----------------------------
(***************************************************************************)
(* For any datatypes, groups, partitions and labels, any number of chunk   *)
(* permits and any number of commands, with crashes at every step: only    *)
(* whole files get a final name, lone files are kept, no run loses its     *)
(* record, and the summary is true.                                        *)
(***************************************************************************)
EXTENDS Freeze, FiniteSetTheorems, TLAPS

(***************************************************************************)
(* The strengthening.  A temporary file that is about to be renamed is     *)
(* whole only because no other task can have truncated it since, so the    *)
(* invariant must carry that the tasks of one run have disjoint paths and  *)
(* touch only their own.                                                   *)
(***************************************************************************)
Apart ==
  \A j, k \in Key : j # k /\ stage[j] # "none" /\ stage[k] # "none" =>
    get_paths(j) \cap get_paths(k) = {}

OwnPaths ==
  \A k \in Key :
    /\ left[k] \subseteq get_paths(k)
    /\ current[k] \subseteq get_paths(k)
    /\ left[k] \cap current[k] = {}
    /\ \A f, g \in current[k] : f = g
    /\ stage[k] \in {"none", "queued"} => left[k] = {}
    /\ stage[k] \in {"none", "queued", "collect", "next"} => current[k] = {}
    /\ stage[k] = "rename" => \A f \in current[k] : tmp[f] = "whole"

\* Nothing of a command exists while it is being planned.
Planning ==
  phase = "plan" =>
    /\ \A k \in Key : stage[k] = "none" /\ current[k] = {}
    /\ gathered = {} /\ completed = Nobody /\ errored = Nobody /\ unnamed = 0

Counted == phase # "idle" => run \in 1 .. MaxRuns

RecordKept == phase = "report_remove" => report[run] = "whole"

FileInv == TypeOK /\ Counted /\ RecordKept /\ Apart /\ OwnPaths /\ Planning /\ FilesAreWhole

\* What a task may still write.
ToWrite(k) == IF stage[k] \in {"queued", "collect"} THEN get_paths(k) ELSE left[k] \cup current[k]

LoneInv ==
  ~overwrite => \A k \in Key : \A f \in ToWrite(k) : Alone(f) => ~Exists(f)

\* From the plan to the end of the command, where every payload is.
Underway == phase \in {"initial_report", "collect"} \/ Summarised
Tracked == {k \in Key : stage[k] # "none"}
Unplanned == (Groups \X asked) \ Tracked
Written(k) == stage[k] \in {"next", "write", "rename", "completed"}

PlanKept ==
  /\ Tracked \subseteq Groups \X asked
  /\ skipped = ListOf(Unplanned)
  /\ \A k \in Unplanned : \A f \in get_paths(k) : Exists(f)

\* The joined tasks that ended so.
Ended(s) == {k \in gathered : stage[k] = s}

Gathered ==
  /\ \A k \in gathered : stage[k] \in {"completed", "errored", "panicked"}
  /\ completed = ListOf(Ended("completed"))
  /\ errored = ListOf(Ended("errored"))
  /\ unnamed = Cardinality(Ended("panicked"))
  /\ Summarised => \A k \in Key : ~Live(k)

Progress ==
  \A k \in Key :
    /\ Written(k) =>
         \A f \in get_paths(k) : f \in left[k] \/ f \in current[k] \/ final[f].run = run
    /\ stage[k] = "completed" => left[k] = {} /\ current[k] = {}

SummaryInv == Underway => PlanKept /\ Gathered /\ Progress

-----------------------------------------------------------------------------
(* A step is one of the actions, or leaves everything alone.               *)
LEMMA NextCases ==
  ASSUME [Next]_vars
  PROVE  \/ Start
         \/ PlanErr
         \/ get_payloads
         \/ initial_report
         \/ collected
         \/ report_create
         \/ report_write
         \/ report_remove
         \/ Crash
         \/ \E k \in Key : acquire(k)
         \/ \E k \in Key : collect_partition(k)
         \/ \E k \in Key : create_tmp(k)
         \/ \E k \in Key : finish_tmp(k)
         \/ \E k \in Key : rename(k)
         \/ \E k \in Key : finish_partition(k)
         \/ \E k \in Key : gather(k)
         \/ UNCHANGED vars
  BY DEF Next, FreezeStep, TaskStep, Done

(* The paths of a payload are paths.                                       *)
LEMMA PathsArePaths ==
  ASSUME NEW k \in Key
  PROVE  get_paths(k) \subseteq Path
  BY FreezeAssumption DEF Key, Path, get_paths

(* A datatype collected on its own is the payload's only file.             *)
LEMMA LoneIsOnly ==
  ASSUME NEW k \in Key, NEW f \in get_paths(k), Alone(f)
  PROVE  get_paths(k) = {f}
  <1>1. PICK d \in DatatypesOf[k[1]] : f = <<d, LabelOf[k[2]]>>
    BY DEF get_paths
  <1>2. DatatypesOf[k[1]] = {d}
    BY <1>1 DEF Alone, Key
  <1> QED
    BY <1>1, <1>2 DEF get_paths

(* A list holds a partition a number of times.                             *)
LEMMA ListType ==
  ASSUME NEW S
  PROVE  ListOf(S) \in [Partitions -> Nat]
  <1>1. ASSUME NEW p \in Partitions
        PROVE  Cardinality({g \in Groups : <<g, p>> \in S}) \in Nat
    <2>1. {g \in Groups : <<g, p>> \in S} \subseteq Groups
      OBVIOUS
    <2> QED
      BY <2>1, FreezeAssumption, FS_Subset, FS_CardinalityType
  <1> QED
    BY <1>1 DEF ListOf

(* Pushing a payload's partition counts the payload.                       *)
LEMMA ListPush ==
  ASSUME NEW S, NEW k \in Key, k \notin S
  PROVE  ListOf(S \cup {k}) = Once(ListOf(S), k)
  <1> DEFINE Of(T, p) == {g \in Groups : <<g, p>> \in T}
  <1>1. PICK h \in Groups, q \in Partitions : k = <<h, q>>
    BY DEF Key
  <1>2. k[2] = q
    BY <1>1
  <1>3. ASSUME NEW p \in Partitions, p # q
        PROVE  Of(S \cup {k}, p) = Of(S, p)
    BY <1>1, <1>3
  <1>4. Of(S \cup {k}, q) = Of(S, q) \cup {h} /\ h \notin Of(S, q)
    BY <1>1
  <1>5. IsFiniteSet(Of(S, q))
    BY FreezeAssumption, FS_Subset
  <1>6. Cardinality(Of(S \cup {k}, q)) = Cardinality(Of(S, q)) + 1
    BY <1>4, <1>5, FS_AddElement
  <1> HIDE DEF Of
  <1>7. ListOf(S \cup {k}) = [p \in Partitions |-> Cardinality(Of(S \cup {k}, p))]
        /\ ListOf(S) = [p \in Partitions |-> Cardinality(Of(S, p))]
    BY DEF ListOf, Of
  <1> QED
    BY <1>2, <1>3, <1>6, <1>7 DEF Once

(* There are finitely many payloads.                                       *)
LEMMA KeysFinite == IsFiniteSet(Key)
  BY FreezeAssumption, FS_Product DEF Key

(* An empty list names nobody.                                             *)
LEMMA ListNobody == ListOf({}) = Nobody
  <1>1. \A p \in Partitions : {g \in Groups : <<g, p>> \in {}} = {}
    OBVIOUS
  <1> QED
    BY <1>1, FS_EmptySet DEF ListOf, Nobody

(* No action writes a value outside its variable's type.                   *)
LEMMA TypeStep ==
  ASSUME TypeOK, Counted, OwnPaths, [Next]_vars
  PROVE  TypeOK'
  <1> USE FreezeAssumption
  <1>1. CASE Start
    BY <1>1 DEF Start, TypeOK, NoTasks, NoSummary, Nobody, disk, Phases, Stages
  <1>2. CASE PlanErr
    BY <1>2 DEF PlanErr, TypeOK, disk, command, tasks, summary, Phases
  <1>3. CASE get_payloads
    <2>1. ListOf(Skippable) \in [Partitions -> Nat]
      BY ListType
    <2> QED
      BY <1>3, <2>1 DEF get_payloads, TypeOK, disk, command, tasks, summary, Phases, Stages
  <1>4. CASE initial_report
    BY <1>4 DEF initial_report, TypeOK, Counted, command, tasks, summary, Phases
  <1>5. CASE collected
    BY <1>5 DEF collected, TypeOK, disk, command, tasks, summary, Phases
  <1>6. CASE report_create
    BY <1>6 DEF report_create, TypeOK, Counted, command, tasks, summary, Phases
  <1>7. CASE report_write
    BY <1>7 DEF report_write, TypeOK, Counted, command, tasks, summary, Phases
  <1>8. CASE report_remove
    BY <1>8 DEF report_remove, TypeOK, Counted, command, tasks, summary, Phases
  <1>9. CASE Crash
    BY <1>9 DEF Crash, TypeOK, NoTasks, NoSummary, Nobody, disk, command, Phases, Stages
  <1>10. ASSUME NEW k \in Key, acquire(k) PROVE TypeOK'
    BY <1>10 DEF acquire, Stage, TypeOK, disk, command, summary, Stages
  <1>11. ASSUME NEW k \in Key, collect_partition(k) PROVE TypeOK'
    <2>1. stage' \in [Key -> Stages]
      BY <1>11 DEF collect_partition, Stage, TypeOK, Stages
    <2>2. left' \in [Key -> SUBSET Path]
      BY <1>11, PathsArePaths DEF collect_partition, TypeOK
    <2> QED
      BY <1>11, <2>1, <2>2 DEF collect_partition, TypeOK, disk, command, summary
  <1>12. ASSUME NEW k \in Key, create_tmp(k) PROVE TypeOK'
    <2>1. tmp' \in [Path -> {"absent", "partial", "whole"}] /\ stage' \in [Key -> Stages]
      BY <1>12 DEF create_tmp, Stage, TypeOK, Stages
    <2>2. left' \in [Key -> SUBSET Path] /\ current' \in [Key -> SUBSET Path]
      <3>1. \/ left' = left /\ current' = current
            \/ \E f \in left[k] : /\ left' = [left EXCEPT ![k] = @ \ {f}]
                                 /\ current' = [current EXCEPT ![k] = {f}]
        BY <1>12 DEF create_tmp
      <3>2. left \in [Key -> SUBSET Path] /\ current \in [Key -> SUBSET Path]
        BY DEF TypeOK
      <3>3. left' \in [Key -> SUBSET Path]
        BY <3>1, <3>2
      <3>4. \A f \in left[k] : {f} \in SUBSET Path
        BY <3>2
      <3> QED
        BY <3>1, <3>2, <3>3, <3>4
    <2> QED
      BY <1>12, <2>1, <2>2 DEF create_tmp, TypeOK, command, summary
  <1>13. ASSUME NEW k \in Key, finish_tmp(k) PROVE TypeOK'
    BY <1>13 DEF finish_tmp, Stage, TypeOK, command, summary, Stages
  <1>14. ASSUME NEW k \in Key, rename(k) PROVE TypeOK'
    <2>1. PICK f \in current[k] :
             \/ /\ final' = [final EXCEPT ![f] = [whole |-> tmp[f] = "whole", run |-> run]]
                /\ tmp' = [tmp EXCEPT ![f] = "absent"]
             \/ UNCHANGED <<final, tmp>>
      BY <1>14 DEF rename
    <2> DEFINE new == [whole |-> tmp[f] = "whole", run |-> run]
    <2>2. (tmp[f] = "whole") \in BOOLEAN
      OBVIOUS
    <2>3. new \in [whole : BOOLEAN, run : 0 .. MaxRuns]
      BY <2>2 DEF TypeOK
    <2>4. new \in File
      BY <2>3 DEF File
    <2>5. final' \in [Path -> File]
      <3> HIDE DEF new
      <3>1. final' = [final EXCEPT ![f] = new] \/ final' = final
        BY <2>1 DEF new
      <3> QED
        BY <3>1, <2>4 DEF TypeOK
    <2>6. tmp' \in [Path -> {"absent", "partial", "whole"}]
      <3>1. tmp' = [tmp EXCEPT ![f] = "absent"] \/ tmp' = tmp
        BY <2>1
      <3> QED
        BY <3>1 DEF TypeOK
    <2> QED
      BY <1>14, <2>5, <2>6 DEF rename, Stage, TypeOK, command, summary, Stages
  <1>15. ASSUME NEW k \in Key, finish_partition(k) PROVE TypeOK'
    BY <1>15 DEF finish_partition, Stage, TypeOK, disk, command, summary, Stages
  <1>16. ASSUME NEW k \in Key, gather(k) PROVE TypeOK'
    <2>1. \A n \in Nat : n + 1 \in Nat
      OBVIOUS
    <2>2. k[2] \in Partitions
      BY DEF Key
    <2>3. \A list \in [Partitions -> Nat] : Once(list, k) \in [Partitions -> Nat]
      BY <2>1, <2>2 DEF Once
    <2>4. gathered' \subseteq Key
      BY <1>16 DEF gather, TypeOK
    <2>5. completed' \in [Partitions -> Nat] /\ errored' \in [Partitions -> Nat] /\ unnamed' \in Nat
      BY <1>16, <2>1, <2>3 DEF gather, TypeOK
    <2> QED
      BY <1>16, <2>4, <2>5 DEF gather, TypeOK, disk, command, tasks
  <1>17. CASE UNCHANGED vars
    BY <1>17 DEF vars, disk, command, tasks, summary, TypeOK
  <1> QED
    BY <1>1, <1>2, <1>3, <1>4, <1>5, <1>6, <1>7, <1>8, <1>9, <1>10, <1>11, <1>12, <1>13,
       <1>14, <1>15, <1>16, <1>17, NextCases

(* Runs are numbered from 1, and report_remove follows a whole report.     *)
LEMMA RecordStep ==
  ASSUME TypeOK, Counted, RecordKept, [Next]_vars
  PROVE  Counted' /\ RecordKept'
  <1> USE FreezeAssumption DEF Counted, RecordKept
  <1>1. CASE Start
    BY <1>1 DEF Start, TypeOK
  <1>2. CASE PlanErr \/ get_payloads \/ initial_report \/ collected
    BY <1>2 DEF PlanErr, get_payloads, initial_report, collected, disk, command
  <1>3. CASE report_create
    BY <1>3 DEF report_create, command
  <1>4. CASE report_write
    BY <1>4 DEF report_write, command, TypeOK
  <1>5. CASE report_remove
    BY <1>5 DEF report_remove, command
  <1>6. CASE Crash
    BY <1>6 DEF Crash
  <1>7. ASSUME NEW k \in Key,
               acquire(k) \/ collect_partition(k) \/ create_tmp(k) \/ finish_tmp(k)
                 \/ rename(k) \/ finish_partition(k) \/ gather(k)
        PROVE  Counted' /\ RecordKept'
    BY <1>7 DEF acquire, collect_partition, create_tmp, finish_tmp, rename, finish_partition,
                gather, disk, command
  <1>8. CASE UNCHANGED vars
    BY <1>8 DEF vars, disk, command
  <1> QED
    BY <1>1, <1>2, <1>3, <1>4, <1>5, <1>6, <1>7, <1>8, NextCases

(* Only get_payloads makes tasks.                                          *)
LEMMA NoNewTasks ==
  ASSUME TypeOK, [Next]_vars, ~get_payloads, NEW k \in Key, stage'[k] # "none"
  PROVE  stage[k] # "none"
  <1>1. CASE Start \/ Crash
    BY <1>1 DEF Start, Crash, NoTasks
  <1>2. CASE PlanErr \/ initial_report \/ collected \/ report_create \/ report_write
               \/ report_remove
    BY <1>2 DEF PlanErr, initial_report, collected, report_create, report_write, report_remove,
                tasks
  <1>3. ASSUME NEW j \in Key,
               acquire(j) \/ collect_partition(j) \/ create_tmp(j) \/ finish_tmp(j)
                 \/ rename(j) \/ finish_partition(j) \/ gather(j)
        PROVE  stage[k] # "none"
    <2>1. stage[j] # "none"
      BY <1>3 DEF acquire, collect_partition, create_tmp, finish_tmp, rename, finish_partition,
                  gather
    <2>2. stage' = stage \/ \E s \in Stages : stage' = [stage EXCEPT ![j] = s]
      BY <1>3 DEF acquire, collect_partition, create_tmp, finish_tmp, rename, finish_partition,
                  gather, Stage, Stages, tasks
    <2> QED
      BY <2>1, <2>2 DEF TypeOK
  <1>4. CASE UNCHANGED vars
    BY <1>4 DEF vars, tasks
  <1> QED
    BY <1>1, <1>2, <1>3, <1>4, NextCases

(* get_payloads refuses colliding payloads: tasks have disjoint paths.     *)
LEMMA ApartStep ==
  ASSUME TypeOK, Apart, Planning, [Next]_vars
  PROVE  Apart'
  <1>1. CASE get_payloads
    <2>1. CASE UNCHANGED stage
      BY <2>1 DEF Apart, get_paths
    <2>2. CASE ~Collision /\ stage' = [k \in Key |-> IF k \in Payloads THEN "queued" ELSE "none"]
      <3>1. \A k \in Key : stage'[k] # "none" => k \in Payloads
        BY <2>2
      <3> QED
        BY <2>2, <3>1 DEF Apart, Collision, get_paths
    <2> QED
      BY <1>1, <2>1, <2>2 DEF get_payloads, tasks
  <1>2. CASE ~get_payloads
    BY <1>2, NoNewTasks DEF Apart, get_paths
  <1> QED
    BY <1>1, <1>2

\* What the steps of a task change.
TaskTypes ==
  /\ tmp \in [Path -> {"absent", "partial", "whole"}]
  /\ stage \in [Key -> Stages]
  /\ left \in [Key -> SUBSET Path]
  /\ current \in [Key -> SUBSET Path]

(* A task touches its own paths, and no other truncates its file.          *)
LEMMA OwnPathsStep ==
  ASSUME TypeOK, Apart, OwnPaths, Planning, [Next]_vars
  PROVE  OwnPaths'
  <1>1. CASE Start \/ Crash
    BY <1>1 DEF Start, Crash, NoTasks, OwnPaths
  <1>2. CASE PlanErr \/ initial_report \/ collected \/ report_create \/ report_write
               \/ report_remove
    BY <1>2 DEF PlanErr, initial_report, collected, report_create, report_write, report_remove,
                tasks, disk, OwnPaths, get_paths
  <1>3. CASE get_payloads
    <2>1. tmp' = tmp /\ left' = left /\ current' = current
      BY <1>3 DEF get_payloads, tasks, disk
    <2>2. \A k \in Key : left[k] = {} /\ current[k] = {}
      BY <1>3 DEF get_payloads, Planning, OwnPaths
    <2> QED
      BY <2>1, <2>2 DEF OwnPaths, get_paths
  <1>4. ASSUME NEW k \in Key, acquire(k) PROVE OwnPaths'
    BY <1>4 DEF acquire, Stage, disk, TypeOK, OwnPaths, get_paths
  <1>5. ASSUME NEW k \in Key, collect_partition(k) PROVE OwnPaths'
    <2>1. tmp' = tmp /\ current' = current /\ current[k] = {}
      BY <1>5 DEF collect_partition, disk, OwnPaths
    <2>2. left' = [left EXCEPT ![k] = get_paths(k)] \/ left' = left
      BY <1>5 DEF collect_partition
    <2>3. \E s \in {"next", "errored", "panicked"} : stage' = [stage EXCEPT ![k] = s]
      BY <1>5 DEF collect_partition, Stage
    <2> QED
      BY <2>1, <2>2, <2>3 DEF TypeOK, OwnPaths, get_paths
  <1>6. ASSUME NEW k \in Key, create_tmp(k) PROVE OwnPaths'
    <2>1. PICK f \in left[k] :
             \/ /\ tmp' = [tmp EXCEPT ![f] = "partial"]
                /\ current' = [current EXCEPT ![k] = {f}]
                /\ left' = [left EXCEPT ![k] = @ \ {f}]
                /\ stage' = [stage EXCEPT ![k] = "write"]
             \/ stage' = [stage EXCEPT ![k] = "errored"] /\ UNCHANGED <<tmp, current, left>>
      BY <1>6 DEF create_tmp, Stage
    <2>2. stage[k] = "next" /\ f \in get_paths(k)
      BY <1>6, <2>1 DEF create_tmp, OwnPaths
    <2>3. \A j \in Key : j # k /\ stage[j] = "rename" => f \notin current[j]
      BY <2>2 DEF Apart, OwnPaths
    <2>4. TaskTypes
      BY DEF TypeOK, TaskTypes
    <2> QED
      BY <2>1, <2>2, <2>3, <2>4 DEF TaskTypes, OwnPaths, get_paths
  <1>7. ASSUME NEW k \in Key, finish_tmp(k) PROVE OwnPaths'
    <2>1. PICK f \in current[k] :
             \/ tmp' = [tmp EXCEPT ![f] = "whole"] /\ stage' = [stage EXCEPT ![k] = "rename"]
             \/ UNCHANGED tmp /\ stage' = [stage EXCEPT ![k] = "errored"]
      BY <1>7 DEF finish_tmp, Stage
    <2>2. left' = left /\ current' = current /\ stage[k] = "write"
      BY <1>7 DEF finish_tmp
    <2>3. TaskTypes
      BY DEF TypeOK, TaskTypes
    <2> QED
      BY <2>1, <2>2, <2>3 DEF TaskTypes, OwnPaths, get_paths
  <1>8. ASSUME NEW k \in Key, rename(k) PROVE OwnPaths'
    <2>1. PICK f \in current[k] :
             \/ tmp' = [tmp EXCEPT ![f] = "absent"] /\ stage' = [stage EXCEPT ![k] = "next"]
             \/ tmp' = tmp /\ stage' = [stage EXCEPT ![k] = "errored"]
      BY <1>8 DEF rename, Stage
    <2>2. stage[k] = "rename" /\ left' = left /\ current' = [current EXCEPT ![k] = {}]
      BY <1>8 DEF rename
    <2>3. \A j \in Key : j # k /\ stage[j] = "rename" => f \notin current[j]
      BY <2>1, <2>2 DEF Apart, OwnPaths
    <2> QED
      BY <2>1, <2>2, <2>3 DEF TypeOK, OwnPaths, get_paths
  <1>9. ASSUME NEW k \in Key, finish_partition(k) \/ gather(k) PROVE OwnPaths'
    BY <1>9 DEF finish_partition, gather, Stage, disk, tasks, TypeOK, OwnPaths, get_paths
  <1>10. CASE UNCHANGED vars
    BY <1>10 DEF vars, disk, tasks, OwnPaths, get_paths
  <1> QED
    BY <1>1, <1>2, <1>3, <1>4, <1>5, <1>6, <1>7, <1>8, <1>9, <1>10, NextCases

(* A command is planned before it has tasks or results.                    *)
LEMMA PlanningStep ==
  ASSUME TypeOK, Planning, [Next]_vars
  PROVE  Planning'
  <1>1. CASE Start
    BY <1>1 DEF Start, NoTasks, NoSummary, Planning
  <1>2. CASE PlanErr \/ get_payloads \/ initial_report \/ collected \/ report_create
               \/ report_write \/ report_remove \/ Crash
    BY <1>2 DEF PlanErr, get_payloads, initial_report, collected, report_create, report_write,
                report_remove, Crash, Planning
  <1>3. ASSUME NEW k \in Key,
               acquire(k) \/ collect_partition(k) \/ create_tmp(k) \/ finish_tmp(k)
                 \/ rename(k) \/ finish_partition(k) \/ gather(k)
        PROVE  Planning'
    <2>1. phase' = phase /\ stage[k] # "none"
      BY <1>3 DEF acquire, collect_partition, create_tmp, finish_tmp, rename, finish_partition,
                  gather
    <2> QED
      BY <2>1 DEF Planning
  <1>4. CASE UNCHANGED vars
    BY <1>4 DEF vars, tasks, summary, Planning
  <1> QED
    BY <1>1, <1>2, <1>3, <1>4, NextCases

(* What becomes of the final names: only rename touches them.              *)
LEMMA OnlyRenameWrites ==
  ASSUME TypeOK, OwnPaths, [Next]_vars
  PROVE  \/ final' = final
         \/ \E k \in Key : \E f \in current[k] :
              /\ stage[k] = "rename"
              /\ f \in Path
              /\ final' = [final EXCEPT ![f] = [whole |-> TRUE, run |-> run]]
  <1>1. ASSUME NEW k \in Key, rename(k)
        PROVE  \/ final' = final
               \/ \E f \in current[k] :
                    /\ stage[k] = "rename"
                    /\ f \in Path
                    /\ final' = [final EXCEPT ![f] = [whole |-> TRUE, run |-> run]]
    <2>1. PICK f \in current[k] :
             \/ final' = [final EXCEPT ![f] = [whole |-> tmp[f] = "whole", run |-> run]]
             \/ final' = final
      BY <1>1 DEF rename
    <2>2. stage[k] = "rename" /\ (tmp[f] = "whole") = TRUE /\ f \in Path
      BY <1>1 DEF rename, OwnPaths, TypeOK
    <2> QED
      BY <2>1, <2>2
  <1>2. CASE \A k \in Key : ~rename(k)
    <2> USE <1>2 DEF disk
    <2>1. CASE Start \/ PlanErr \/ get_payloads \/ initial_report \/ collected \/ report_create
                 \/ report_write \/ report_remove \/ Crash
      BY <2>1 DEF Start, PlanErr, get_payloads, initial_report, collected, report_create,
                  report_write, report_remove, Crash
    <2>2. ASSUME NEW k \in Key,
                 acquire(k) \/ collect_partition(k) \/ create_tmp(k) \/ finish_tmp(k)
                   \/ finish_partition(k) \/ gather(k)
          PROVE  final' = final
      BY <2>2 DEF acquire, collect_partition, create_tmp, finish_tmp, finish_partition, gather
    <2>3. CASE UNCHANGED vars
      BY <2>3 DEF vars
    <2> QED
      BY <2>1, <2>2, <2>3, NextCases
  <1> QED
    BY <1>1, <1>2

(* rename moves a whole file under the final name.                         *)
LEMMA WholeStep ==
  ASSUME TypeOK, OwnPaths, FilesAreWhole, [Next]_vars
  PROVE  FilesAreWhole'
  <1>1. CASE final' = final
    BY <1>1 DEF FilesAreWhole, Exists
  <1>2. ASSUME NEW f \in Path, final' = [final EXCEPT ![f] = [whole |-> TRUE, run |-> run]]
        PROVE  FilesAreWhole'
    BY <1>2 DEF FilesAreWhole, Exists, TypeOK
  <1> QED
    BY <1>1, <1>2, OnlyRenameWrites

(* Without --overwrite no task is about to write a lone file that is there.*)
LEMMA LoneStep ==
  ASSUME TypeOK, Apart, OwnPaths, Planning, LoneInv, [Next]_vars
  PROVE  LoneInv'
  <1>1. CASE Start \/ Crash
    BY <1>1 DEF Start, Crash, NoTasks, LoneInv, ToWrite
  <1>2. CASE PlanErr \/ initial_report \/ collected \/ report_create \/ report_write
               \/ report_remove
    BY <1>2 DEF PlanErr, initial_report, collected, report_create, report_write, report_remove,
                tasks, disk, command, LoneInv, ToWrite, get_paths, Alone, Exists
  <1>3. CASE get_payloads
    <2>1. final' = final /\ left' = left /\ current' = current /\ overwrite' = overwrite
      BY <1>3 DEF get_payloads, tasks, disk, command
    <2>2. \A k \in Key : stage[k] = "none" /\ left[k] = {} /\ current[k] = {}
      BY <1>3 DEF get_payloads, Planning, OwnPaths
    <2>3. \A k \in Key : stage'[k] # "none" => k \in Payloads
      BY <1>3, <2>2 DEF get_payloads, tasks
    <2>4. ASSUME ~overwrite, NEW k \in Payloads, k \in Key, NEW f \in get_paths(k), Alone(f)
          PROVE  ~Exists(f)
      <3>1. PICK g \in get_paths(k) : ~Exists(g)
        BY <2>4 DEF Payloads, Skippable
      <3> QED
        BY <2>4, <3>1, LoneIsOnly
    <2>5. ASSUME ~overwrite, NEW k \in Key, NEW f \in ToWrite(k)', Alone(f)
          PROVE  ~Exists(f)
      <3>1. stage'[k] \in {"queued", "collect"} /\ f \in get_paths(k)
        BY <2>5, <2>1, <2>2 DEF ToWrite, get_paths
      <3> QED
        BY <3>1, <2>3, <2>4, <2>5
    <2> QED
      BY <2>1, <2>5 DEF LoneInv, Alone, Exists
  <1>4. ASSUME NEW k \in Key,
               acquire(k) \/ collect_partition(k) \/ create_tmp(k) \/ finish_tmp(k)
                 \/ finish_partition(k) \/ gather(k)
        PROVE  LoneInv'
    <2>1. final' = final /\ overwrite' = overwrite
      BY <1>4 DEF acquire, collect_partition, create_tmp, finish_tmp, finish_partition, gather,
                  disk, command
    <2>2. \A j \in Key \ {k} :
            stage'[j] = stage[j] /\ left'[j] = left[j] /\ current'[j] = current[j]
      BY <1>4 DEF acquire, collect_partition, create_tmp, finish_tmp, finish_partition, gather,
                  Stage, TypeOK, tasks
    <2>3. ToWrite(k)' \subseteq ToWrite(k)
      <3>1. CASE acquire(k)
        BY <3>1 DEF acquire, Stage, TypeOK, ToWrite, get_paths
      <3>2. CASE collect_partition(k)
        BY <3>2 DEF collect_partition, Stage, TypeOK, OwnPaths, ToWrite, get_paths
      <3>3. CASE create_tmp(k)
        BY <3>3 DEF create_tmp, Stage, TypeOK, ToWrite
      <3>4. CASE finish_tmp(k)
        BY <3>4 DEF finish_tmp, Stage, TypeOK, ToWrite
      <3>5. CASE finish_partition(k) \/ gather(k)
        BY <3>5 DEF finish_partition, gather, Stage, TypeOK, ToWrite, tasks
      <3> QED
        BY <1>4, <3>1, <3>2, <3>3, <3>4, <3>5
    <2>4. \A j \in Key : ToWrite(j)' \subseteq ToWrite(j)
      BY <2>2, <2>3 DEF ToWrite, get_paths
    <2> QED
      BY <2>1, <2>4 DEF LoneInv, Alone, Exists
  <1>5. ASSUME NEW k \in Key, rename(k) PROVE LoneInv'
    <2>1. PICK f \in current[k] : \A g \in Path \ {f} : final'[g] = final[g]
      BY <1>5 DEF rename, TypeOK
    <2>2. /\ stage[k] = "rename" /\ stage'[k] \in {"next", "errored"}
          /\ left'[k] = left[k] /\ current'[k] = {}
          /\ overwrite' = overwrite
      BY <1>5 DEF rename, Stage, TypeOK, command
    <2>3. \A j \in Key \ {k} :
            stage'[j] = stage[j] /\ left'[j] = left[j] /\ current'[j] = current[j]
      BY <1>5 DEF rename, Stage, TypeOK
    <2>4. ToWrite(k)' \subseteq ToWrite(k) \ {f}
      BY <2>1, <2>2 DEF ToWrite, OwnPaths
    <2>5. ASSUME NEW j \in Key \ {k} PROVE ToWrite(j)' \subseteq ToWrite(j) \ {f}
      <3>1. ToWrite(j)' = ToWrite(j)
        BY <2>3 DEF ToWrite, get_paths
      <3>2. CASE stage[j] = "none"
        BY <3>1, <3>2 DEF ToWrite, OwnPaths
      <3>3. CASE stage[j] # "none"
        <4>1. ToWrite(j) \subseteq get_paths(j) /\ f \in get_paths(k)
          BY <2>1 DEF ToWrite, OwnPaths
        <4> QED
          BY <3>1, <3>3, <4>1, <2>2 DEF Apart
      <3> QED
        BY <3>2, <3>3
    <2>6. \A j \in Key : ToWrite(j) \subseteq Path
      BY PathsArePaths DEF ToWrite, TypeOK
    <2>7. \A j \in Key : ToWrite(j)' \subseteq ToWrite(j) \ {f}
      BY <2>4, <2>5
    <2> QED
      BY <2>1, <2>2, <2>6, <2>7 DEF LoneInv, Alone, Exists
  <1>6. CASE UNCHANGED vars
    BY <1>6 DEF vars, disk, command, tasks, LoneInv, ToWrite, get_paths, Alone, Exists
  <1> QED
    BY <1>1, <1>2, <1>3, <1>4, <1>5, <1>6, NextCases

-----------------------------------------------------------------------------
(* Once planned, a command keeps its inputs and its tasks to its end.      *)
LEMMA UnderwayStays ==
  ASSUME TypeOK, [Next]_vars, ~get_payloads, Underway'
  PROVE  /\ Underway
         /\ run' = run /\ asked' = asked /\ skipped' = skipped
         /\ Tracked' = Tracked
  <1> USE DEF Underway, Summarised
  <1>1. CASE Start \/ PlanErr \/ Crash
    BY <1>1 DEF Start, PlanErr, Crash
  <1>2. CASE initial_report \/ collected \/ report_create \/ report_write \/ report_remove
    BY <1>2 DEF initial_report, collected, report_create, report_write, report_remove, command,
                tasks, summary, Tracked
  <1>3. ASSUME NEW k \in Key,
               acquire(k) \/ collect_partition(k) \/ create_tmp(k) \/ finish_tmp(k)
                 \/ rename(k) \/ finish_partition(k) \/ gather(k)
        PROVE  /\ Underway
               /\ run' = run /\ asked' = asked /\ skipped' = skipped
               /\ Tracked' = Tracked
    <2>1. /\ phase' = phase
          /\ run' = run /\ asked' = asked /\ skipped' = skipped
          /\ stage[k] # "none"
      BY <1>3 DEF acquire, collect_partition, create_tmp, finish_tmp, rename, finish_partition,
                  gather, command, summary
    <2>2. stage' = stage \/ \E s \in Stages \ {"none"} : stage' = [stage EXCEPT ![k] = s]
      BY <1>3 DEF acquire, collect_partition, create_tmp, finish_tmp, rename, finish_partition,
                  gather, Stage, Stages, tasks
    <2> QED
      BY <2>1, <2>2 DEF TypeOK, Tracked
  <1>4. CASE UNCHANGED vars
    BY <1>4 DEF vars, command, tasks, summary, Tracked
  <1> QED
    BY <1>1, <1>2, <1>3, <1>4, NextCases

(* A file stays, and one of this run's stays this run's.                   *)
LEMMA FilesStay ==
  ASSUME TypeOK, OwnPaths, [Next]_vars, run' = run, NEW f \in Path
  PROVE  /\ Exists(f) => Exists(f)'
         /\ final[f].run = run => final'[f].run = run
  <1>1. CASE final' = final
    BY <1>1 DEF Exists
  <1>2. ASSUME NEW g \in Path, final' = [final EXCEPT ![g] = [whole |-> TRUE, run |-> run]]
        PROVE  /\ Exists(f) => Exists(f)'
               /\ final[f].run = run => final'[f].run = run
    <2>1. CASE f = g
      <3>1. final'[f] = [whole |-> TRUE, run |-> run]
        BY <1>2, <2>1 DEF TypeOK
      <3> QED
        BY <3>1 DEF Exists, Absent
    <2>2. CASE f # g
      BY <1>2, <2>2 DEF TypeOK, Exists
    <2> QED
      BY <2>1, <2>2
  <1> QED
    BY <1>1, <1>2, OnlyRenameWrites

(* Skipped and collected payloads are together what was asked for.         *)
LEMMA PlanKeptStep ==
  ASSUME TypeOK, OwnPaths, Planning, SummaryInv, [Next]_vars, Underway'
  PROVE  PlanKept'
  <1>1. CASE get_payloads
    <2>1. final' = final /\ asked' = asked /\ skipped' = ListOf(Skippable)
      BY <1>1 DEF get_payloads, Underway, Summarised, disk, command
    <2>2. Tracked' = Payloads
      <3>1. Payloads \subseteq Key
        BY DEF Payloads, TypeOK, Key
      <3>2. CASE stage' = [k \in Key |-> IF k \in Payloads THEN "queued" ELSE "none"]
        BY <3>1, <3>2 DEF Tracked
      <3>3. CASE Payloads = {} /\ stage' = stage
        BY <1>1, <3>3 DEF get_payloads, Planning, Tracked
      <3> QED
        BY <1>1, <3>2, <3>3 DEF get_payloads, Underway, Summarised, tasks
    <2>3. \A k \in Skippable : \A f \in get_paths(k) : Exists(f)
      BY DEF Skippable
    <2>4. Skippable \subseteq Groups \X asked
      BY DEF Skippable
    <2>5. Unplanned' = Skippable
      BY <2>1, <2>2, <2>4 DEF Unplanned, Payloads
    <2> QED
      BY <2>1, <2>2, <2>3, <2>5 DEF PlanKept, Payloads, Exists, get_paths, ListOf
  <1>2. CASE ~get_payloads
    <2>1. PlanKept /\ run' = run /\ asked' = asked /\ skipped' = skipped /\ Tracked' = Tracked
      BY <1>2, UnderwayStays DEF SummaryInv
    <2>2. Unplanned' = Unplanned
      BY <2>1 DEF Unplanned
    <2>3. \A k \in Unplanned : \A f \in get_paths(k) : Exists(f)'
      <3>1. Unplanned \subseteq Key
        BY DEF TypeOK, Unplanned, Key
      <3> QED
        BY <2>1, <3>1, PathsArePaths, FilesStay DEF PlanKept
    <2> QED
      BY <2>1, <2>2, <2>3 DEF PlanKept, get_paths, ListOf
  <1> QED
    BY <1>1, <1>2

(* The loop over the tasks counts each of them once.                       *)
LEMMA GatheredStep ==
  ASSUME TypeOK, Planning, SummaryInv, [Next]_vars, Underway'
  PROVE  Gathered'
  <1>1. CASE get_payloads
    <2>1. gathered' = {} /\ completed' = Nobody /\ errored' = Nobody /\ unnamed' = 0
      BY <1>1 DEF get_payloads, Planning, Underway, Summarised, summary
    <2>2. Summarised' => \A k \in Key : stage'[k] = "none"
      BY <1>1 DEF get_payloads, Planning, Summarised, tasks
    <2>3. \A s : Ended(s)' = {}
      BY <2>1 DEF Ended
    <2>4. Cardinality({}) = 0
      BY FS_EmptySet
    <2> QED
      BY <2>1, <2>2, <2>3, <2>4, ListNobody DEF Gathered, Live, ListOf
  <1>2. CASE ~get_payloads
    <2>1. Gathered /\ Underway
      BY <1>2, UnderwayStays DEF SummaryInv
    <2>2. CASE PlanErr \/ Start \/ Crash
      BY <2>2 DEF PlanErr, Start, Crash, Underway, Summarised
    <2>3. CASE initial_report \/ collected \/ report_create \/ report_write \/ report_remove
      <3>1. /\ stage' = stage /\ gathered' = gathered
            /\ completed' = completed /\ errored' = errored /\ unnamed' = unnamed
        BY <2>3 DEF initial_report, collected, report_create, report_write, report_remove,
                    tasks, summary
      <3>2. \A s : Ended(s)' = Ended(s)
        BY <3>1 DEF Ended
      <3>3. Summarised' => \A k \in Key : ~Live(k)
        BY <2>1, <2>3 DEF initial_report, collected, report_create, report_write, report_remove,
                          Gathered, Summarised
      <3> QED
        BY <2>1, <3>1, <3>2, <3>3 DEF Gathered, ListOf, Live
    <2>4. ASSUME NEW k \in Key,
                 acquire(k) \/ collect_partition(k) \/ create_tmp(k) \/ finish_tmp(k)
                   \/ rename(k) \/ finish_partition(k)
          PROVE  Gathered'
      <3>1. /\ stage[k] \in {"queued", "collect", "next", "write", "rename"}
            /\ phase' = phase /\ gathered' = gathered
            /\ completed' = completed /\ errored' = errored /\ unnamed' = unnamed
        BY <2>4 DEF acquire, collect_partition, create_tmp, finish_tmp, rename,
                    finish_partition, summary
      <3>2. k \notin gathered
        BY <2>1, <3>1 DEF Gathered
      <3>3. \A j \in Key \ {k} : stage'[j] = stage[j]
        BY <2>4 DEF acquire, collect_partition, create_tmp, finish_tmp, rename,
                    finish_partition, Stage, TypeOK
      <3>4. \A s : Ended(s)' = Ended(s)
        BY <3>1, <3>2, <3>3 DEF Ended, TypeOK
      <3>5. ~Summarised'
        BY <2>1, <3>1, <3>2 DEF Gathered, Live, Summarised
      <3>6. \A j \in gathered : stage'[j] = stage[j]
        BY <3>2, <3>3 DEF TypeOK
      <3> QED
        BY <2>1, <3>1, <3>4, <3>5, <3>6 DEF Gathered, ListOf
    <2>5. ASSUME NEW k \in Key, gather(k) PROVE Gathered'
      <3>1. /\ phase = "collect" /\ phase' = phase /\ k \notin gathered
            /\ stage' = stage /\ gathered' = gathered \cup {k}
        BY <2>5 DEF gather, tasks
      <3>2. \A s : Ended(s)' = IF stage[k] = s THEN Ended(s) \cup {k} ELSE Ended(s)
        BY <3>1 DEF Ended
      <3>3. \A s : k \notin Ended(s)
        BY <3>1 DEF Ended
      <3>4. stage[k] \in {"completed", "errored", "panicked"}
        BY <2>5 DEF gather
      <3>5. completed' = ListOf(Ended("completed")')
        BY <2>1, <2>5, <3>2, <3>3, ListPush DEF gather, Gathered
      <3>6. errored' = ListOf(Ended("errored")')
        BY <2>1, <2>5, <3>2, <3>3, ListPush DEF gather, Gathered
      <3>7. unnamed' = Cardinality(Ended("panicked")')
        <4>1. IsFiniteSet(Ended("panicked"))
          BY KeysFinite, FS_Subset DEF Ended, TypeOK
        <4>2. Cardinality(Ended("panicked") \cup {k}) = Cardinality(Ended("panicked")) + 1
          BY <3>3, <4>1, FS_AddElement
        <4> QED
          BY <2>1, <2>5, <3>2, <4>2 DEF gather, Gathered
      <3>8. ~Summarised'
        BY <3>1 DEF Summarised
      <3>9. \A j \in gathered' : stage'[j] \in {"completed", "errored", "panicked"}
        BY <2>1, <3>1, <3>4 DEF Gathered
      <3> QED
        BY <3>5, <3>6, <3>7, <3>8, <3>9 DEF Gathered, ListOf
    <2>6. CASE UNCHANGED vars
      BY <2>1, <2>6 DEF vars, tasks, summary, Gathered, Ended, ListOf, Summarised, Live
    <2> QED
      BY <1>2, <2>2, <2>3, <2>4, <2>5, <2>6, NextCases
  <1> QED
    BY <1>1, <1>2

(* What a task has passed over it has written in this run.                 *)
LEMMA ProgressStep ==
  ASSUME TypeOK, OwnPaths, Planning, SummaryInv, [Next]_vars, Underway'
  PROVE  Progress'
  <1>1. CASE get_payloads
    <2>1. \A k \in Key : stage'[k] \in {"none", "queued"}
      BY <1>1 DEF get_payloads, Planning, Underway, Summarised, tasks
    <2> QED
      BY <2>1 DEF Progress, Written
  <1>2. CASE ~get_payloads
    <2>1. Progress /\ run' = run
      BY <1>2, UnderwayStays DEF SummaryInv
    <2>2. \A k \in Key : \A f \in get_paths(k) : final[f].run = run => final'[f].run = run
      BY <2>1, PathsArePaths, FilesStay
    <2>4. CASE PlanErr \/ Start \/ Crash
      BY <2>4 DEF PlanErr, Start, Crash, Underway, Summarised
    <2>5. CASE initial_report \/ collected \/ report_create \/ report_write \/ report_remove
                 \/ UNCHANGED vars
      BY <2>1, <2>5 DEF initial_report, collected, report_create, report_write, report_remove,
                        vars, disk, tasks, summary, Progress, Written, get_paths
    <2>6. ASSUME NEW k \in Key,
                 acquire(k) \/ collect_partition(k) \/ create_tmp(k) \/ finish_tmp(k)
                   \/ rename(k) \/ finish_partition(k) \/ gather(k)
          PROVE  Progress'
      <3>1. ASSUME NEW j \in Key, j # k
            PROVE  /\ stage'[j] = stage[j] /\ left'[j] = left[j] /\ current'[j] = current[j]
        BY <2>6, <3>1 DEF acquire, collect_partition, create_tmp, finish_tmp, rename,
                          finish_partition, gather, Stage, TypeOK, tasks
      <3>2. /\ Written(k)' =>
                 \A f \in get_paths(k) : f \in left'[k] \/ f \in current'[k] \/ final'[f].run = run
            /\ stage'[k] = "completed" => left'[k] = {} /\ current'[k] = {}
        <4>1. CASE acquire(k)
          BY <4>1 DEF acquire, Stage, TypeOK, Written
        <4>2. CASE collect_partition(k)
          BY <4>2 DEF collect_partition, Stage, TypeOK, Written
        <4>3. CASE create_tmp(k)
          <5>1. stage[k] = "next" /\ final' = final
            BY <4>3 DEF create_tmp
          <5>2. CASE stage' = [stage EXCEPT ![k] = "errored"]
            BY <5>1, <5>2 DEF TypeOK, Written
          <5>3. ASSUME NEW f \in left[k],
                       current' = [current EXCEPT ![k] = {f}],
                       left' = [left EXCEPT ![k] = @ \ {f}],
                       stage' = [stage EXCEPT ![k] = "write"]
                PROVE  /\ stage'[k] = "write"
                       /\ \A g \in get_paths(k) :
                            g \in left'[k] \/ g \in current'[k] \/ final'[g].run = run
            <6>1. left'[k] = left[k] \ {f} /\ current'[k] = {f} /\ stage'[k] = "write"
              BY <5>3 DEF TypeOK
            <6>2. current[k] = {}
              BY <5>1 DEF OwnPaths
            <6> QED
              BY <2>1, <5>1, <6>1, <6>2 DEF Written, Progress
          <5> QED
            BY <4>3, <5>1, <5>2, <5>3 DEF create_tmp, Stage
        <4>4. CASE finish_tmp(k)
          BY <2>1, <4>4 DEF finish_tmp, Stage, TypeOK, Written, Progress
        <4>5. CASE rename(k)
          <5>1. stage[k] = "rename" /\ left' = left
            BY <4>5 DEF rename
          <5>2. stage'[k] \in {"next", "errored"}
            BY <4>5, <5>1 DEF rename, Stage, TypeOK
          <5>3. CASE stage'[k] = "errored"
            BY <5>1, <5>2, <5>3 DEF Written
          <5>4. CASE stage'[k] = "next"
            <6>1. PICK f \in current[k] :
                    final' = [final EXCEPT ![f] = [whole |-> tmp[f] = "whole", run |-> run]]
              BY <4>5, <5>4 DEF rename, Stage, TypeOK
            <6>2. final'[f].run = run
              <7>1. f \in Path
                BY DEF TypeOK
              <7>2. final'[f] = [whole |-> tmp[f] = "whole", run |-> run]
                BY <6>1, <7>1 DEF TypeOK
              <7> QED
                BY <7>2
            <6>3. \A g \in current[k] : g = f
              BY DEF OwnPaths
            <6>4. \A g \in get_paths(k) : g \in left[k] \/ g = f \/ final[g].run = run
              BY <2>1, <5>1, <6>3 DEF Progress, Written
            <6> QED
              BY <2>2, <5>1, <5>2, <5>4, <6>2, <6>4
          <5> QED
            BY <5>2, <5>3, <5>4
        <4>6. CASE finish_partition(k)
          BY <2>1, <4>6 DEF finish_partition, Stage, TypeOK, disk, Written, Progress, OwnPaths
        <4>7. CASE gather(k)
          BY <2>1, <4>7 DEF gather, tasks, disk, Written, Progress
        <4> QED
          BY <2>6, <4>1, <4>2, <4>3, <4>4, <4>5, <4>6, <4>7
      <3> QED
        BY <2>1, <2>2, <3>1, <3>2 DEF Progress, Written, get_paths
    <2> QED
      BY <1>2, <2>4, <2>5, <2>6, NextCases
  <1> QED
    BY <1>1, <1>2

-----------------------------------------------------------------------------
FreezeInv == FileInv /\ LoneInv /\ SummaryInv

(* The invariant holds of the directory and of every command, whichever    *)
(* partitions and flags it was given and wherever an earlier one died.     *)
THEOREM Invariant == Spec => []FreezeInv
  <1>1. Init => FreezeInv
    <2> SUFFICES ASSUME Init PROVE FreezeInv
      OBVIOUS
    <2>1. TypeOK
      <3>1. final \in [Path -> File]
        <4>1. [whole |-> TRUE, run |-> 0] \in File
          BY FreezeAssumption DEF File
        <4>2. Absent \in File
          BY DEF File
        <4> QED
          BY <4>1, <4>2 DEF Init
      <3> QED
        <4>1. stage \in [Key -> Stages] /\ left \in [Key -> SUBSET Path]
                /\ current \in [Key -> SUBSET Path]
          BY DEF Init, Stages
        <4>2. tmp \in [Path -> {"absent", "partial", "whole"}]
          BY DEF Init
        <4>3. report \in [1 .. MaxRuns -> {"absent", "partial", "whole"}]
          BY DEF Init
        <4>4. run \in 0 .. MaxRuns
          BY FreezeAssumption DEF Init
        <4>5. /\ incomplete \subseteq 1 .. MaxRuns /\ asked \subseteq Partitions
              /\ overwrite \in BOOLEAN /\ reporting \in BOOLEAN /\ phase \in Phases
              /\ gathered \subseteq Key /\ unnamed \in Nat
              /\ completed \in [Partitions -> Nat] /\ errored \in [Partitions -> Nat]
              /\ skipped \in [Partitions -> Nat]
          BY DEF Init, Phases, Nobody
        <4> QED
          BY <3>1, <4>1, <4>2, <4>3, <4>4, <4>5 DEF TypeOK
    <2>2. Counted /\ RecordKept /\ Apart /\ Planning
      BY DEF Init, Counted, RecordKept, Apart, Planning
    <2>3. OwnPaths
      BY DEF Init, OwnPaths
    <2>4. FilesAreWhole
      BY DEF Init, FilesAreWhole, Exists
    <2>5. LoneInv
      BY DEF Init, LoneInv, ToWrite
    <2>6. SummaryInv
      BY DEF Init, SummaryInv, Underway, Summarised
    <2> QED
      BY <2>1, <2>2, <2>3, <2>4, <2>5, <2>6 DEF FreezeInv, FileInv
  <1>2. FreezeInv /\ [Next]_vars => FreezeInv'
    <2> SUFFICES ASSUME FreezeInv, [Next]_vars PROVE FreezeInv'
      OBVIOUS
    <2>1. FileInv'
      BY TypeStep, RecordStep, ApartStep, OwnPathsStep, PlanningStep, WholeStep
         DEF FreezeInv, FileInv
    <2>2. LoneInv'
      BY LoneStep DEF FreezeInv, FileInv
    <2>3. SummaryInv'
      BY PlanKeptStep, GatheredStep, ProgressStep DEF FreezeInv, FileInv, SummaryInv
    <2> QED
      BY <2>1, <2>2, <2>3 DEF FreezeInv
  <1> QED
    BY <1>1, <1>2, PTL DEF Spec

(* The state of the directory, the command and its tasks keeps its type.   *)
THEOREM TypeCorrect == Spec => []TypeOK
  <1>1. FreezeInv => TypeOK
    BY DEF FreezeInv, FileInv
  <1> QED
    BY <1>1, Invariant, PTL

(* df_to_parquet's rename: nothing but a whole file is ever under a final  *)
(* name.                                                                   *)
THEOREM WholeFiles == Spec => []FilesAreWhole
  <1>1. FreezeInv => FilesAreWhole
    BY DEF FreezeInv, FileInv
  <1> QED
    BY <1>1, Invariant, PTL

(* Four ways to end: the groups of a partition are counted once each.      *)
LEMMA CountedOnce ==
  ASSUME NEW A, NEW B, NEW C, NEW D, A \cup B \cup C \cup D = Groups,
         A \cap B = {}, (A \cup B) \cap C = {}, (A \cup B \cup C) \cap D = {}
  PROVE  Cardinality(A) + Cardinality(B) + Cardinality(C) + Cardinality(D) = Cardinality(Groups)
  <1>1. /\ IsFiniteSet(A) /\ IsFiniteSet(B) /\ IsFiniteSet(C) /\ IsFiniteSet(D)
        /\ IsFiniteSet(A \cup B) /\ IsFiniteSet(A \cup B \cup C)
    BY FreezeAssumption, FS_Subset
  <1>2. /\ Cardinality(A) \in Nat /\ Cardinality(B) \in Nat /\ Cardinality(C) \in Nat
        /\ Cardinality(D) \in Nat /\ Cardinality({}) = 0
    BY <1>1, FS_CardinalityType, FS_EmptySet
  <1>3. Cardinality(A \cup B) = Cardinality(A) + Cardinality(B) - Cardinality(A \cap B)
    BY <1>1, FS_Union
  <1>4. Cardinality((A \cup B) \cup C)
          = Cardinality(A \cup B) + Cardinality(C) - Cardinality((A \cup B) \cap C)
    BY <1>1, FS_Union
  <1>5. Cardinality((A \cup B \cup C) \cup D)
          = Cardinality(A \cup B \cup C) + Cardinality(D) - Cardinality((A \cup B \cup C) \cap D)
    BY <1>1, FS_Union
  <1>6. /\ Cardinality(A \cap B) = 0 /\ Cardinality((A \cup B) \cap C) = 0
        /\ Cardinality((A \cup B \cup C) \cap D) = 0
    BY <1>2
  <1>7. Cardinality((A \cup B \cup C) \cup D) = Cardinality(Groups)
    OBVIOUS
  <1> QED
    BY <1>2, <1>3, <1>4, <1>5, <1>6, <1>7

(* The FreezeSummary counts every payload once, and truly; a task that     *)
(* panicked is counted without its partition.                              *)
THEOREM TrueSummary == Spec => []SummaryIsTrue
  <1>1. FreezeInv => SummaryIsTrue
    <2> SUFFICES ASSUME FreezeInv, Summarised PROVE SummaryIsTrue
      BY DEF SummaryIsTrue
    <2>1. TypeOK /\ Counted /\ PlanKept /\ Gathered /\ Progress
      BY DEF FreezeInv, FileInv, SummaryInv, Underway
    <2>2. gathered = Tracked
      BY <2>1 DEF Gathered, Live, Tracked, TypeOK
    <2>3. Ended("panicked") = Panicked
      BY <2>2 DEF Ended, Panicked, Tracked
    <2>4. \A k \in Ended("completed") : \A f \in get_paths(k) : final[f].run = run
      BY <2>1 DEF Ended, Progress, Written, TypeOK
    <2> DEFINE Of(S, p) == {g \in Groups : <<g, p>> \in S}
    <2>5. \A S : \A p \in Partitions : ListOf(S)[p] = Cardinality(Of(S, p))
      BY DEF ListOf
    <2>6. ASSUME NEW p \in Partitions
          PROVE  completed[p] + errored[p] + skipped[p] + ListOf(Panicked)[p] =
                   IF p \in asked THEN Cardinality(Groups) ELSE 0
      <3> DEFINE A == Of(Ended("completed"), p)
                 B == Of(Ended("errored"), p)
                 C == Of(Unplanned, p)
                 D == Of(Panicked, p)
      <3>1. completed[p] = Cardinality(A) /\ errored[p] = Cardinality(B)
            /\ skipped[p] = Cardinality(C) /\ ListOf(Panicked)[p] = Cardinality(D)
        BY <2>1, <2>5 DEF Gathered, PlanKept
      <3>2. CASE p \in asked
        <4>1. ASSUME NEW g \in Groups
              PROVE  \/ g \in A /\ g \notin B /\ g \notin C /\ g \notin D
                     \/ g \notin A /\ g \in B /\ g \notin C /\ g \notin D
                     \/ g \notin A /\ g \notin B /\ g \in C /\ g \notin D
                     \/ g \notin A /\ g \notin B /\ g \notin C /\ g \in D
          <5>1. <<g, p>> \in Key /\ <<g, p>> \in Groups \X asked
            BY <3>2 DEF Key
          <5>2. CASE <<g, p>> \in Tracked
            BY <2>1, <2>2, <5>1, <5>2 DEF Gathered, Ended, Unplanned, Panicked
          <5>3. CASE <<g, p>> \notin Tracked
            BY <2>2, <2>3, <5>1, <5>3 DEF Ended, Unplanned, Panicked, Tracked
          <5> QED
            BY <5>2, <5>3
        <4>2. A \subseteq Groups /\ B \subseteq Groups /\ C \subseteq Groups /\ D \subseteq Groups
          OBVIOUS
        <4> HIDE DEF A, B, C, D
        <4>3. A \cup B \cup C \cup D = Groups /\ A \cap B = {} /\ (A \cup B) \cap C = {}
              /\ (A \cup B \cup C) \cap D = {}
          BY <4>1, <4>2
        <4> QED
          BY <3>1, <3>2, <4>3, CountedOnce
      <3>3. CASE p \notin asked
        <4>1. Ended("completed") \subseteq Tracked /\ Ended("errored") \subseteq Tracked
              /\ Panicked \subseteq Tracked
          BY <2>2, <2>3 DEF Ended
        <4>2. A = {} /\ B = {} /\ C = {} /\ D = {}
          BY <2>1, <3>3, <4>1 DEF PlanKept, Unplanned
        <4>3. Cardinality({}) = 0
          BY FS_EmptySet
        <4> HIDE DEF A, B, C, D
        <4> QED
          BY <3>1, <3>3, <4>2, <4>3
      <3> QED
        BY <3>2, <3>3
    <2>7. ASSUME NEW p \in Partitions
          PROVE  completed[p] <= Cardinality(GroupsWritten(p))
      <3>1. Of(Ended("completed"), p) \subseteq GroupsWritten(p)
        BY <2>4 DEF GroupsWritten
      <3>2. IsFiniteSet(GroupsWritten(p))
        BY FreezeAssumption, FS_Subset DEF GroupsWritten
      <3>3. Cardinality(Of(Ended("completed"), p)) <= Cardinality(GroupsWritten(p))
        BY <3>1, <3>2, FS_Subset
      <3> QED
        BY <2>1, <2>5, <3>3 DEF Gathered
    <2>8. ASSUME NEW p \in Partitions
          PROVE  skipped[p] <= Cardinality(GroupsThere(p))
      <3>1. Of(Unplanned, p) \subseteq GroupsThere(p)
        BY <2>1 DEF GroupsThere, PlanKept
      <3>2. IsFiniteSet(GroupsThere(p))
        BY FreezeAssumption, FS_Subset DEF GroupsThere
      <3>3. Cardinality(Of(Unplanned, p)) <= Cardinality(GroupsThere(p))
        BY <3>1, <3>2, FS_Subset
      <3> QED
        BY <2>1, <2>5, <3>3 DEF PlanKept
    <2>9. ASSUME unnamed = 0, errored = Nobody, NEW p \in asked, NEW g \in Groups
          PROVE  \A f \in get_paths(<<g, p>>) : Exists(f)
      <3> DEFINE k == <<g, p>>
      <3>1. k \in Key /\ k \in Groups \X asked /\ p \in Partitions
        BY <2>1 DEF TypeOK, Key
      <3>2. k \notin Panicked
        <4>1. IsFiniteSet(Panicked)
          BY KeysFinite, FS_Subset DEF Panicked
        <4> QED
          BY <2>1, <2>3, <2>9, <4>1, FS_EmptySet DEF Gathered
      <3>3. k \notin Ended("errored")
        <4>1. Cardinality(Of(Ended("errored"), p)) = 0
          BY <2>1, <2>5, <2>9, <3>1 DEF Gathered, Nobody
        <4>2. IsFiniteSet(Of(Ended("errored"), p))
          BY FreezeAssumption, FS_Subset
        <4>3. Of(Ended("errored"), p) = {}
          BY <4>1, <4>2, FS_EmptySet
        <4> QED
          BY <4>3
      <3>4. k \in Unplanned \/ k \in Ended("completed")
        BY <2>1, <2>2, <2>3, <3>1, <3>2, <3>3 DEF Gathered, Unplanned, Ended
      <3>5. CASE k \in Unplanned
        BY <2>1, <3>5 DEF PlanKept
      <3>6. CASE k \in Ended("completed")
        <4>1. ASSUME NEW f \in get_paths(k) PROVE Exists(f)
          <5>1. final[f].run = run
            BY <2>4, <3>6
          <5>2. run # -1
            BY <2>1 DEF Counted, Summarised
          <5> QED
            BY <5>1, <5>2 DEF Exists, Absent
        <4> QED
          BY <4>1
      <3> QED
        BY <3>4, <3>5, <3>6
    <2>10. unnamed = Cardinality(Panicked)
      BY <2>1, <2>3 DEF Gathered
    <2>11. unnamed = 0 /\ errored = Nobody => \A p \in asked : GroupsThere(p) = Groups
      BY <2>9 DEF GroupsThere
    <2> QED
      BY <2>6, <2>7, <2>8, <2>10, <2>11 DEF SummaryIsTrue
  <1> QED
    BY <1>1, Invariant, PTL

(* The incomplete_ report of a run goes only once its final one is whole.  *)
THEOREM Accounted == Spec => RunsAccountedFor
  <1> DEFINE Kept ==
        \A n \in 1 .. MaxRuns : n \in incomplete /\ n \notin incomplete' => report'[n] = "whole"
  <1>1. FreezeInv /\ [Next]_vars => [Kept]_vars
    <2> SUFFICES ASSUME FreezeInv, [Next]_vars PROVE Kept
      OBVIOUS
    <2>1. CASE report_remove
      BY <2>1 DEF report_remove, FreezeInv, FileInv, RecordKept
    <2>2. CASE ~report_remove
      <3>1. incomplete \subseteq incomplete'
        <4>1. CASE Start \/ PlanErr \/ get_payloads \/ initial_report \/ collected
                     \/ report_create \/ report_write \/ Crash \/ UNCHANGED vars
          BY <4>1 DEF Start, PlanErr, get_payloads, initial_report, collected, report_create,
                      report_write, Crash, vars, disk
        <4>2. ASSUME NEW k \in Key,
                     acquire(k) \/ collect_partition(k) \/ create_tmp(k) \/ finish_tmp(k)
                       \/ rename(k) \/ finish_partition(k) \/ gather(k)
              PROVE  incomplete' = incomplete
          BY <4>2 DEF acquire, collect_partition, create_tmp, finish_tmp, rename,
                      finish_partition, gather, disk
        <4> QED
          BY <2>2, <4>1, <4>2, NextCases
      <3> QED
        BY <3>1
    <2> QED
      BY <2>1, <2>2
  <1> QED
    BY <1>1, Invariant, PTL DEF Spec, RunsAccountedFor

(* get_payloads: without --overwrite, a file collected on its own is never *)
(* written again.                                                          *)
THEOREM LoneKept == Spec => LoneFilesKept
  <1> DEFINE Kept == ~overwrite => \A f \in Path : Alone(f) /\ Exists(f) => final'[f] = final[f]
  <1>1. FreezeInv /\ [Next]_vars => [Kept]_vars
    <2> SUFFICES ASSUME FreezeInv, [Next]_vars, ~overwrite,
                        NEW f \in Path, Alone(f), Exists(f)
                 PROVE  final'[f] = final[f]
      OBVIOUS
    <2>1. TypeOK /\ OwnPaths /\ LoneInv
      BY DEF FreezeInv, FileInv
    <2>2. ASSUME NEW k \in Key, NEW g \in current[k], stage[k] = "rename", g \in Path,
                 final' = [final EXCEPT ![g] = [whole |-> TRUE, run |-> run]]
          PROVE  final'[f] = final[f]
      <3>1. f # g
        BY <2>1, <2>2 DEF LoneInv, ToWrite
      <3> QED
        BY <2>1, <2>2, <3>1 DEF TypeOK
    <2> QED
      BY <2>1, <2>2, OnlyRenameWrites
  <1> QED
    BY <1>1, Invariant, PTL DEF Spec, LoneFilesKept
=============================================================================
