------------------------------ MODULE JobManager ------------------------------
(***************************************************************************)
(* internal/jobs/jobs.go: the Manager's Enqueue, Cancel and Active, which  *)
(* any goroutine may call, and the run goroutine of each job.  Every       *)
(* section under Manager.mu is one action; emit and the pipeline run       *)
(* outside it.                                                             *)
(*                                                                         *)
(* An operator that stands just before a definition and takes its name     *)
(* with a suffix is a faulty variant, used only to try the properties.     *)
(***************************************************************************)
EXTENDS Naturals, FiniteSets

CONSTANT Jobs   \* the jobs that Enqueue may be asked for, one uuid each

VARIABLES
    status,    \* Job.Status, "absent" before Enqueue
    cancelFn,  \* keys of Manager.cancelFuncs
    cancelled, \* jobs whose context is cancelled
    saidYes,   \* jobs for which Cancel has returned true
    pc,        \* where the run goroutine of each job stands
    err,       \* what Runnable.Run returned: "nil" or "err"
    verdict,   \* what run decided the job's end to be
    told       \* the last state event emitted for each job

vars == <<status, cancelFn, cancelled, saidYes, pc, err, verdict, told>>

Endings == {"succeeded", "failed", "cancelled"}

Init ==
    /\ status = [j \in Jobs |-> "absent"]
    /\ cancelFn = {} /\ cancelled = {} /\ saidYes = {}
    /\ pc = [j \in Jobs |-> "none"]
    /\ err = [j \in Jobs |-> "nil"]
    /\ verdict = [j \in Jobs |-> "none"]
    /\ told = [j \in Jobs |-> "nothing"]

ActiveIfRunning == \E j \in Jobs : status[j] = "running"
Active == \E j \in Jobs : status[j] \in {"pending", "running"}

(* Enqueue, once it has found no active job: a refused one changes nothing *)
AddJob(j, fns) ==
    /\ status[j] = "absent" /\ ~Active
    /\ status' = [status EXCEPT ![j] = "pending"]
    /\ cancelFn' = fns
    /\ pc' = [pc EXCEPT ![j] = "begin"]
    /\ UNCHANGED <<cancelled, saidYes, err, verdict, told>>
EnqueueReplacesFuncs(j) == AddJob(j, {})
Enqueue(j) == AddJob(j, cancelFn \cup {j})

(* Cancel, where it returns true: the job is pending or running and its    *)
(* cancel func is still there.                                             *)
CancelAnyStatus(j) ==
    /\ j \in cancelFn
    /\ cancelled' = cancelled \cup {j}
    /\ saidYes' = saidYes \cup {j}
    /\ UNCHANGED <<status, cancelFn, pc, err, verdict, told>>
Cancel(j) == status[j] \in {"pending", "running"} /\ CancelAnyStatus(j)

-----------------------------------------------------------------------------
(* The run goroutine.                                                      *)

Begin(j) ==
    /\ pc[j] = "begin"
    /\ status' = [status EXCEPT ![j] = "running"]
    /\ pc' = [pc EXCEPT ![j] = "tellRunning"]
    /\ UNCHANGED <<cancelFn, cancelled, saidYes, err, verdict, told>>

TellRunning(j) ==
    /\ pc[j] = "tellRunning"
    /\ told' = [told EXCEPT ![j] = status[j]]
    /\ pc' = [pc EXCEPT ![j] = "pipeline"]
    /\ UNCHANGED <<status, cancelFn, cancelled, saidYes, err, verdict>>

(* Runnable.Run: it may fail by itself or succeed despite a cancel that    *)
(* came too late for any of its steps to see.                              *)
RunPipeline(j) ==
    /\ pc[j] = "pipeline"
    /\ \E e \in {"nil", "err"} : err' = [err EXCEPT ![j] = e]
    /\ pc' = [pc EXCEPT ![j] = "classify"]
    /\ UNCHANGED <<status, cancelFn, cancelled, saidYes, verdict, told>>

(* err # nil and then ctx.Err(), read without the lock.                    *)
EndOfError(j) == IF j \in cancelled THEN "cancelled" ELSE "failed"
EndOfIgnoringContext(j) == IF err[j] = "nil" THEN "succeeded" ELSE "cancelled"
EndOf(j) == IF err[j] = "nil" THEN "succeeded" ELSE EndOfError(j)
Classify(j) ==
    /\ pc[j] = "classify"
    /\ verdict' = [verdict EXCEPT ![j] = EndOf(j)]
    /\ pc' = [pc EXCEPT ![j] = "setStatus"]
    /\ UNCHANGED <<status, cancelFn, cancelled, saidYes, err, told>>

SetStatus(j) ==
    /\ pc[j] = "setStatus"
    /\ status' = [status EXCEPT ![j] = verdict[j]]
    /\ pc' = [pc EXCEPT ![j] = "tellEnd"]
    /\ UNCHANGED <<cancelFn, cancelled, saidYes, err, verdict, told>>

Tell(j, next) ==
    /\ pc[j] = "tellEnd"
    /\ told' = [told EXCEPT ![j] = status[j]]
    /\ pc' = [pc EXCEPT ![j] = next]
    /\ UNCHANGED <<status, cancelFn, cancelled, saidYes, err, verdict>>
TellEndThenGone(j) == Tell(j, "gone")
TellEnd(j) == Tell(j, "cleanup")

CleanupJob(j) ==
    /\ pc[j] = "cleanup"
    /\ cancelFn' = cancelFn \ {j}
    /\ pc' = [pc EXCEPT ![j] = "gone"]
    /\ UNCHANGED <<status, cancelled, saidYes, err, verdict, told>>

Run(j) == \/ Begin(j) \/ TellRunning(j) \/ RunPipeline(j) \/ Classify(j)
          \/ SetStatus(j) \/ TellEnd(j) \/ CleanupJob(j)

Next == \E j \in Jobs : Enqueue(j) \/ Cancel(j) \/ Run(j)

Spec == Init /\ [][Next]_vars

(* The goroutine runs, and the pipeline returns: its steps are bounded or  *)
(* end with the context.                                                   *)
FairSpec == Spec /\ \A j \in Jobs : WF_vars(Run(j))

-----------------------------------------------------------------------------
(* Properties.                                                             *)

TypeOK ==
    /\ status \in [Jobs -> {"absent", "pending", "running"} \cup Endings]
    /\ cancelFn \subseteq Jobs /\ cancelled \subseteq Jobs /\ saidYes \subseteq Jobs
    /\ pc \in [Jobs -> {"none", "begin", "tellRunning", "pipeline", "classify",
                        "setStatus", "tellEnd", "cleanup", "gone"}]
    /\ err \in [Jobs -> {"nil", "err"}]
    /\ verdict \in [Jobs -> {"none"} \cup Endings]
    /\ told \in [Jobs -> {"nothing", "running"} \cup Endings]

(* No two jobs work at a time: a pipeline runs only for the one job that   *)
(* is pending or running, however many callers race Enqueue (jobs.go:34-36). *)
Working(j) == pc[j] \in {"begin", "tellRunning", "pipeline", "classify", "setStatus"}
OneJobWorks == \A j, k \in Jobs : Working(j) /\ Working(k) => j = k

(* Cancel finds the cancel func of every job that is pending or running:   *)
(* cleanupJob never takes it away from a live job (jobs.go:129-134).       *)
LiveJobCancellable == \A j \in Jobs : status[j] \in {"pending", "running"} => j \in cancelFn

(* The manager keeps the promise of JobContract.                           *)
AbstractState == [j \in Jobs |-> IF status[j] \in {"pending", "running"} THEN "active"
                                 ELSE status[j]]
Contract == INSTANCE JobContract WITH state <- AbstractState, wanted <- saidYes
ImplementsContract == Contract!Spec

(* A job the manager accepted ends, is reported, and leaves the manager    *)
(* free for the next one.                                                  *)
JobsEnd == \A j \in Jobs : status[j] = "pending" ~> (told[j] \in Endings /\ j \notin cancelFn)
=============================================================================
