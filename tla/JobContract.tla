----------------------------- MODULE JobContract -----------------------------
(***************************************************************************)
(* What the job manager promises the rest of the app, without its locks,   *)
(* goroutines and contexts: one job at a time; a job ends once and keeps   *)
(* the way it ended; it is only cancelled if someone asked; and the UI is  *)
(* told "running" first and the way the job really ended last.  JobManager *)
(* implements it.                                                          *)
(***************************************************************************)
CONSTANT Jobs

VARIABLES
    state,  \* of each job
    wanted, \* jobs whose cancellation was asked for while they were active
    told    \* what the UI has been told about each job: "nothing" at first

cvars == <<state, wanted, told>>

Endings == {"succeeded", "failed", "cancelled"}

Init ==
    /\ state = [j \in Jobs |-> "absent"]
    /\ wanted = {}
    /\ told = [j \in Jobs |-> "nothing"]

Start(j) ==
    /\ state[j] = "absent"
    /\ \A k \in Jobs : state[k] # "active"
    /\ state' = [state EXCEPT ![j] = "active"]
    /\ UNCHANGED <<wanted, told>>

AskCancel(j) ==
    /\ state[j] = "active"
    /\ wanted' = wanted \cup {j}
    /\ UNCHANGED <<state, told>>

End(j) ==
    /\ state[j] = "active" /\ told[j] = "running"
    /\ \E e \in Endings :
         /\ e = "cancelled" => j \in wanted
         /\ state' = [state EXCEPT ![j] = e]
    /\ UNCHANGED <<wanted, told>>

TellRunning(j) ==
    /\ state[j] = "active" /\ told[j] = "nothing"
    /\ told' = [told EXCEPT ![j] = "running"]
    /\ UNCHANGED <<state, wanted>>

TellEnd(j) ==
    /\ state[j] \in Endings /\ told[j] = "running"
    /\ told' = [told EXCEPT ![j] = state[j]]
    /\ UNCHANGED <<state, wanted>>

Next == \E j \in Jobs : \/ Start(j) \/ AskCancel(j) \/ End(j)
                        \/ TellRunning(j) \/ TellEnd(j)

Spec == Init /\ [][Next]_cvars
=============================================================================
