------------------------------- MODULE JobStore -------------------------------
(***************************************************************************)
(* The job store of the UI (frontend/src/stores/job.ts) against the job    *)
(* manager: the user starts, cancels, retries and starts over as App.vue   *)
(* and ProgressPanel.vue let him, StartJob and CancelJob are calls whose   *)
(* answers take their time, and the manager's state events come on a       *)
(* channel of their own, in the order they were emitted, before or after   *)
(* any answer.                                                             *)
(*                                                                         *)
(* JavaScript runs each handler up to its next await without interruption, *)
(* so each such section is one action.  Events of steps, progress,         *)
(* warnings and prompts, which decide what is drawn inside the progress    *)
(* panel but not which view is shown, are left out.                        *)
(*                                                                         *)
(* An operator that stands just before a definition and takes its name     *)
(* with a suffix is a faulty variant, used only to try the properties.     *)
(***************************************************************************)
EXTENDS JobManager, Sequences, SequencesExt

VARIABLES
    events,        \* "job:event" events on their way to the store
    startCall,     \* StartJob: "none", "asked", "refused", or the job it gave
    cancelCall,    \* CancelJob: "none", or what was asked for or answered
    currentJobId,  \* the fields of the store
    view,          \* its status
    isStarting,
    isCancelling,
    pendingEvents,
    fresh          \* history: startJob last found no earlier job's ID

storeVars == <<currentJobId, view, isStarting, isCancelling, pendingEvents, fresh>>
callVars == <<startCall, cancelCall>>
allVars == <<vars, events, callVars, storeVars>>

NoJob == "null"
(* Job IDs are uuids (jobs.go), and none reads like another answer.        *)
ASSUME JobsAssumption == Jobs \cap {NoJob, "none", "asked", "refused"} = {}
Event(j, s) == [jobId |-> j, message |-> s]
NoCancel == [jobId |-> NoJob, answer |-> "none"]

StoreInit ==
    /\ Init
    /\ events = <<>> /\ startCall = "none" /\ cancelCall = NoCancel
    /\ currentJobId = NoJob /\ view = "null"
    /\ isStarting = FALSE /\ isCancelling = FALSE
    /\ pendingEvents = <<>> /\ fresh = FALSE

-----------------------------------------------------------------------------
(* The manager, and the two service calls.                                 *)

(* Each state event the run goroutine emits goes on the channel.           *)
RunJob(j) ==
    /\ Run(j)
    /\ events' = IF told'[j] = told[j] THEN events ELSE Append(events, Event(j, told'[j]))
    /\ UNCHANGED <<callVars, storeVars>>

ServeStartJob(j) ==
    /\ startCall = "asked" /\ Enqueue(j)
    /\ startCall' = j
    /\ UNCHANGED <<events, cancelCall, storeVars>>

(* A job is active, or the plan fails.                                     *)
RefuseStartJob ==
    /\ startCall = "asked"
    /\ startCall' = "refused"
    /\ UNCHANGED <<vars, events, cancelCall, storeVars>>

ServeCancelJob(j) ==
    /\ cancelCall = [jobId |-> j, answer |-> "asked"]
    /\ \/ Cancel(j) /\ cancelCall' = [cancelCall EXCEPT !.answer = "true"]
       \/ /\ ~ENABLED Cancel(j)
          /\ cancelCall' = [cancelCall EXCEPT !.answer = "false"]
          /\ UNCHANGED vars
    /\ UNCHANGED <<events, startCall, storeVars>>

-----------------------------------------------------------------------------
(* What the user can press: App.vue shows one view at a time.              *)

(* startJob up to its await.  It leaves currentJobId as it is.             *)
StartJob ==
    /\ isStarting' = TRUE
    /\ view' = "null"
    /\ pendingEvents' = <<>>
    /\ fresh' = (currentJobId = NoJob)
    /\ startCall' = "asked"
    /\ UNCHANGED <<vars, events, cancelCall, currentJobId, isCancelling>>

(* The selection view's button, and the failure view's "Try again".        *)
ClickFlash == view = "null" /\ ~isStarting /\ StartJob
Retry == view = "failed" /\ StartJob

(* The finished view's "Start Over": clearCurrentJob.                      *)
StartOver ==
    /\ view \in Endings
    /\ currentJobId' = NoJob /\ view' = "null"
    /\ UNCHANGED <<vars, events, callVars, isStarting, isCancelling, pendingEvents, fresh>>

(* The progress view's button; cancelJob up to its await.                  *)
ClickCancel ==
    /\ view \in {"pending", "running"} /\ ~isCancelling /\ cancelCall = NoCancel
    /\ isCancelling' = TRUE
    /\ cancelCall' = [jobId |-> currentJobId, answer |-> "asked"]
    /\ UNCHANGED <<vars, events, startCall, currentJobId, view, isStarting, pendingEvents, fresh>>

(* The webview loads the page anew, at a moment when no call is under way: *)
(* the store starts empty while a job may go on.                           *)
Reload ==
    /\ startCall = "none" /\ cancelCall = NoCancel
    /\ currentJobId' = NoJob /\ view' = "null" /\ fresh' = FALSE
    /\ isStarting' = FALSE /\ isCancelling' = FALSE /\ pendingEvents' = <<>>
    /\ UNCHANGED <<vars, events, callVars>>

-----------------------------------------------------------------------------
(* What the store does when an answer or an event arrives.                 *)

(* processJobEvent, on the part of the store it changes.                   *)
Process(store, e) ==
    [view |-> e.message,
     isCancelling |-> store.isCancelling /\ e.message \notin Endings]
Store(v) == [view |-> v, isCancelling |-> isCancelling]
Becomes(store) == view' = store.view /\ isCancelling' = store.isCancelling

(* startJob after its await: the kept events at these places are processed *)
(* in turn, so the last of them decides the view.                          *)
Replay(places) ==
    [view |-> IF places = {} THEN "pending" ELSE pendingEvents[Max(places)].message,
     isCancelling |-> isCancelling /\ \A k \in places : pendingEvents[k].message \notin Endings]
Answered(j, replayed) ==
    /\ startCall = j /\ isStarting
    /\ startCall' = "none"
    /\ currentJobId' = j
    /\ Becomes(Replay(replayed))
    /\ pendingEvents' = <<>>
    /\ isStarting' = FALSE
    /\ UNCHANGED <<vars, events, cancelCall, fresh>>
StartAnsweredNoReplay(j) == Answered(j, {})
StartAnswered(j) == Answered(j, {k \in DOMAIN pendingEvents : pendingEvents[k].jobId = j})

StartRefused ==
    /\ startCall = "refused"
    /\ startCall' = "none"
    /\ isStarting' = FALSE
    /\ UNCHANGED <<vars, events, cancelCall, currentJobId, view, isCancelling,
                   pendingEvents, fresh>>

CancelReturns(stays) ==
    /\ cancelCall.answer \in {"true", "false"}
    /\ cancelCall' = NoCancel
    /\ isCancelling' = stays
    /\ UNCHANGED <<vars, events, startCall, currentJobId, view, isStarting, pendingEvents, fresh>>
CancelAnsweredIgnored == CancelReturns(isCancelling)
CancelAnswered == CancelReturns(isCancelling /\ cancelCall.answer = "true")

(* handleJobEvent: before a first job's ID is known every event is kept,   *)
(* after that only those of the current job count.                         *)
Receive(e, mine) ==
    IF isStarting /\ currentJobId = NoJob
    THEN pendingEvents' = Append(pendingEvents, e) /\ UNCHANGED <<view, isCancelling>>
    ELSE /\ UNCHANGED pendingEvents
         /\ Becomes(IF mine THEN Process(Store(view), e) ELSE Store(view))
HandleEventOfAnyJob(e) == Receive(e, TRUE)
HandleEvent(e) == Receive(e, e.jobId = currentJobId)
EventArrives ==
    /\ events # <<>>
    /\ events' = Tail(events)
    /\ HandleEvent(Head(events))
    /\ UNCHANGED <<vars, callVars, currentJobId, isStarting, fresh>>

Service(j) == ServeStartJob(j) \/ ServeCancelJob(j)
User == ClickFlash \/ Retry \/ StartOver \/ ClickCancel \/ Reload
Arrive == \/ StartRefused \/ CancelAnswered \/ EventArrives
          \/ \E j \in Jobs : StartAnswered(j)

StoreNext == \/ \E j \in Jobs : RunJob(j) \/ Service(j)
             \/ RefuseStartJob \/ User \/ Arrive

StoreSpec == StoreInit /\ [][StoreNext]_allVars

(* The goroutine runs, calls are answered, answers and events arrive; the  *)
(* user need not press anything.                                           *)
StoreFairSpec ==
    /\ StoreSpec
    /\ \A j \in Jobs : WF_allVars(RunJob(j)) /\ WF_allVars(ServeCancelJob(j))
    /\ WF_allVars(StartRefused) /\ WF_allVars(CancelAnswered) /\ WF_allVars(EventArrives)
    /\ WF_allVars(RefuseStartJob) /\ WF_allVars(\E j \in Jobs : StartAnswered(j))

-----------------------------------------------------------------------------
(* Properties.                                                             *)

(* The user is never told of an end that is not the shown job's: whatever  *)
(* answers and events of whichever job cross, a finished view shows how    *)
(* the current job really ended.                                           *)
ViewTellsTheTruth ==
    view \in Endings => currentJobId \in Jobs /\ status[currentJobId] = view

(* With the store's ID set and nothing of its job still on the way, the    *)
(* view has caught up with the job's end.                                  *)
InTransit(j) == \E k \in DOMAIN events : events[k].jobId = j
CaughtUp ==
    \A j \in Jobs : currentJobId = j /\ ~isStarting /\ told[j] \in Endings /\ ~InTransit(j)
                        => view \in {told[j], "null"}

(* The claim of job.ts:28 and 198: events that arrive before the job ID    *)
(* are buffered and replayed, so no start misses the end of its job.       *)
EveryEndIsShown == CaughtUp

(* As much of it as the code keeps: a start that finds no earlier job's ID *)
(* in the store misses nothing.                                            *)
FreshStartSeesItsEnd == fresh => CaughtUp

(* The cancel button comes back, or the job's end is shown, however the    *)
(* answer to CancelJob and the events cross.                               *)
CancelSettles == isCancelling ~> ~isCancelling
=============================================================================
