------------------------------- MODULE JobProofs -------------------------------
(***************************************************************************)
(* Proofs about JobManager and about JobStore, which composes it with the  *)
(* UI's store, for any set of jobs: the manager's safety invariants, that  *)
(* it implements JobContract, and what the store's view shows.             *)
(*                                                                         *)
(* OneJobWorks is not inductive: it needs what each program counter says   *)
(* of the job's status (so that a goroutine at work keeps its job active), *)
(* and that no two jobs are active.  The refinement needs besides what the *)
(* UI has been told at each point, and that a "cancelled" verdict was      *)
(* asked for.                                                              *)
(***************************************************************************)
EXTENDS JobStore, SequenceTheorems, WellFoundedInduction, TLAPS

Live(j) == status[j] \in {"pending", "running"}

(* What a goroutine's place says of its job. *)
StatusAt(j) ==
    /\ pc[j] = "none" <=> status[j] = "absent"
    /\ pc[j] = "begin" <=> status[j] = "pending"
    /\ pc[j] \in {"tellRunning", "pipeline", "classify", "setStatus"} <=> status[j] = "running"
    /\ pc[j] = "setStatus" => verdict[j] \in Endings
ToldAt(j) ==
    /\ pc[j] \in {"none", "begin", "tellRunning"} => told[j] = "nothing"
    /\ pc[j] \in {"pipeline", "classify", "setStatus", "tellEnd"} => told[j] = "running"
VerdictAsked(j) == verdict[j] = "cancelled" => j \in saidYes
OneActive == \A j, k \in Jobs : Live(j) /\ Live(k) => j = k

IInv ==
    /\ TypeOK
    /\ \A j \in Jobs : StatusAt(j) /\ ToldAt(j) /\ VerdictAsked(j)
    /\ cancelled \subseteq saidYes
    /\ OneActive
    /\ LiveJobCancellable

(* IInv holds at first. *)
LEMMA InitIInv == Init => IInv
BY DEF Init, IInv, TypeOK, StatusAt, ToldAt, VerdictAsked, OneActive, Live,
       LiveJobCancellable, Endings

(* Every step keeps IInv: one case per action. *)
LEMMA StepIInv == IInv /\ [Next]_vars => IInv'
<1> SUFFICES ASSUME IInv, [Next]_vars PROVE IInv'
    OBVIOUS
<1> USE DEF IInv, TypeOK, StatusAt, ToldAt, VerdictAsked, OneActive, Live,
            LiveJobCancellable, Endings
<1>1. CASE UNCHANGED vars
    BY <1>1 DEF vars
<1>2. ASSUME NEW j \in Jobs, Enqueue(j) PROVE IInv'
    BY <1>2 DEF Enqueue, AddJob, Active
<1>3. ASSUME NEW j \in Jobs, Cancel(j) PROVE IInv'
    BY <1>3 DEF Cancel, CancelAnyStatus
<1>4. ASSUME NEW j \in Jobs, Begin(j) PROVE IInv'
    BY <1>4 DEF Begin
<1>5. ASSUME NEW j \in Jobs, TellRunning(j) PROVE IInv'
    BY <1>5 DEF TellRunning
<1>6. ASSUME NEW j \in Jobs, RunPipeline(j) PROVE IInv'
    BY <1>6 DEF RunPipeline
<1>7. ASSUME NEW j \in Jobs, Classify(j) PROVE IInv'
    BY <1>7 DEF Classify, EndOf, EndOfError
<1>8. ASSUME NEW j \in Jobs, SetStatus(j) PROVE IInv'
    BY <1>8 DEF SetStatus
<1>9. ASSUME NEW j \in Jobs, TellEnd(j) PROVE IInv'
    BY <1>9 DEF TellEnd, Tell
<1>10. ASSUME NEW j \in Jobs, CleanupJob(j) PROVE IInv'
    BY <1>10 DEF CleanupJob
<1> QED
    BY <1>1, <1>2, <1>3, <1>4, <1>5, <1>6, <1>7, <1>8, <1>9, <1>10 DEF Next, Run

(* IInv holds in every reachable state. *)
THEOREM Invariance == Spec => []IInv
<1>1. Init => IInv
    BY InitIInv
<1>2. IInv /\ [Next]_vars => IInv'
    BY StepIInv
<1> QED
    BY <1>1, <1>2, PTL DEF Spec

(* The manager's variables always have their types (jobs.go:44-49). *)
THEOREM TypeCorrect == Spec => []TypeOK
<1>1. IInv => TypeOK
    BY DEF IInv
<1> QED
    BY <1>1, Invariance, PTL

(* At most one job's pipeline is at work, for any number of jobs and       *)
(* callers of Enqueue.                                                     *)
THEOREM OneJobAtATime == Spec => []OneJobWorks
<1>1. IInv => OneJobWorks
    BY DEF IInv, OneActive, OneJobWorks, Working, Live, StatusAt
<1> QED
    BY <1>1, Invariance, PTL

(* Cancel finds the cancel func of every job that is pending or running.   *)
THEOREM Cancellable == Spec => []LiveJobCancellable
<1>1. IInv => LiveJobCancellable
    BY DEF IInv
<1> QED
    BY <1>1, Invariance, PTL

(* The initial state of the manager maps to one of the contract. *)
LEMMA InitRefines == Init => Contract!Init
BY DEF Init, Contract!Init, AbstractState

(* Every step of the manager maps to a step of the contract or to none. *)
LEMMA StepRefines == IInv /\ [Next]_vars => [Contract!Next]_Contract!cvars
<1> SUFFICES ASSUME IInv, [Next]_vars
             PROVE [Contract!Next]_Contract!cvars
    OBVIOUS
<1> USE DEF IInv, TypeOK, StatusAt, ToldAt, VerdictAsked, Live, Endings,
            AbstractState, Contract!cvars, Contract!Endings
<1>1. CASE UNCHANGED vars
    BY <1>1 DEF vars
<1>2. ASSUME NEW j \in Jobs, Enqueue(j) PROVE Contract!Start(j)
    BY <1>2 DEF Enqueue, AddJob, Active, Contract!Start
<1>3. ASSUME NEW j \in Jobs, Cancel(j) PROVE Contract!AskCancel(j)
    BY <1>3 DEF Cancel, CancelAnyStatus, Contract!AskCancel
<1>4. ASSUME NEW j \in Jobs, Begin(j) PROVE UNCHANGED Contract!cvars
    BY <1>4 DEF Begin
<1>5. ASSUME NEW j \in Jobs, TellRunning(j) PROVE Contract!TellRunning(j)
    BY <1>5 DEF TellRunning, Contract!TellRunning
<1>6. ASSUME NEW j \in Jobs, RunPipeline(j) PROVE UNCHANGED Contract!cvars
    BY <1>6 DEF RunPipeline
<1>7. ASSUME NEW j \in Jobs, Classify(j) PROVE UNCHANGED Contract!cvars
    BY <1>7 DEF Classify
<1>8. ASSUME NEW j \in Jobs, SetStatus(j) PROVE Contract!End(j)
    BY <1>8 DEF SetStatus, Contract!End
<1>9. ASSUME NEW j \in Jobs, TellEnd(j) PROVE Contract!TellEnd(j)
    BY <1>9 DEF TellEnd, Tell, Contract!TellEnd
<1>10. ASSUME NEW j \in Jobs, CleanupJob(j) PROVE UNCHANGED Contract!cvars
    BY <1>10 DEF CleanupJob
<1> QED
    BY <1>1, <1>2, <1>3, <1>4, <1>5, <1>6, <1>7, <1>8, <1>9, <1>10
    DEF Next, Run, Contract!Next

(* The manager implements JobContract: one job at a time, one ending per   *)
(* job, cancelled only on request, reported running first and its true     *)
(* ending last.                                                            *)
THEOREM Refinement == Spec => ImplementsContract
<1>1. Init => Contract!Init
    BY InitRefines
<1>2. IInv /\ [Next]_vars => [Contract!Next]_Contract!cvars
    BY StepRefines
<1> QED
    BY <1>1, <1>2, Invariance, PTL DEF Spec, ImplementsContract, Contract!Spec

-----------------------------------------------------------------------------
(* The store.  Its invariant follows each job's last event from the        *)
(* manager to the view.                                                    *)
Messages == {"running"} \cup Endings
Reported == [jobId : Jobs, message : Messages]
StoreTypeOK ==
    /\ events \in Seq(Reported) /\ pendingEvents \in Seq(Reported)
    /\ startCall \in {"none", "asked", "refused"} \cup Jobs
    /\ cancelCall \in [jobId : Jobs \cup {NoJob}, answer : {"none", "asked", "true", "false"}]
    /\ currentJobId \in Jobs \cup {NoJob} /\ view \in {"null", "pending"} \cup Messages
    /\ isStarting \in BOOLEAN /\ isCancelling \in BOOLEAN /\ fresh \in BOOLEAN

(* What an event says of the end of its job is so, and stays so.           *)
Honest(seq) ==
    \A k \in DOMAIN seq :
        /\ status[seq[k].jobId] # "absent"
        /\ seq[k].message \in Endings => status[seq[k].jobId] = seq[k].message

(* The last of a job's events in a sequence.                               *)
NoneOf(seq, j) == \A k \in DOMAIN seq : seq[k].jobId # j
LastIs(seq, j, m) ==
    \E k \in DOMAIN seq : /\ seq[k] = Event(j, m)
                          /\ \A n \in DOMAIN seq : n > k => seq[n].jobId # j

(* After a fresh start the job's last report is on its way, else among the *)
(* events kept until the ID comes, else, once it has come, in the view.    *)
Coming(j, seen) == LastIs(events, j, told[j]) \/ (NoneOf(events, j) /\ seen)
Kept(j) == \/ LastIs(pendingEvents, j, told[j])
           \/ NoneOf(pendingEvents, j) /\ told[j] = "nothing"
Shown(j) == view = told[j] \/ told[j] = "nothing"
Calls == /\ startCall # "none" => isStarting
         /\ fresh /\ isStarting => currentJobId = NoJob
Follows ==
    fresh => \A j \in Jobs :
        /\ startCall = j => Coming(j, Kept(j))
        /\ ~isStarting /\ currentJobId = j => Coming(j, Shown(j))

SInv ==
    /\ StoreTypeOK /\ Honest(events) /\ Honest(pendingEvents)
    /\ ViewTellsTheTruth /\ Calls /\ Follows

(* A set of places that is not empty has a last one.                       *)
LEMMA Greatest ==
    ASSUME NEW n \in Nat, NEW S, S \subseteq 1 .. n, S # {}
    PROVE  Max(S) \in S /\ \A k \in S : k <= Max(S)
<1> DEFINE R == OpToRel(<, Nat)
           U == {u \in Nat : \A k \in S : k <= u}
<1>1. IsWellFoundedOn(R, Nat) /\ \A x, y \in Nat : <<x, y>> \in R <=> x < y
    BY NatLessThanWellFounded DEF OpToRel
<1>2. n \in U
    OBVIOUS
<1> HIDE DEF R
<1>3. PICK u \in U : \A v \in U : ~(<<v, u>> \in R)
  <2>1. U \subseteq Nat /\ U # {} /\ IsWellFoundedOn(R, Nat)
      BY <1>1, <1>2
  <2> HIDE DEF U
  <2> QED
      BY <2>1, WFMin, Zenon
<1>4. u \in Nat /\ (\A k \in S : k <= u) /\ \A v \in U : u <= v
  <2>1. ASSUME NEW v \in U PROVE u <= v
    <3>1. u \in Nat /\ v \in Nat /\ ~(v < u)
        BY <1>1, <1>3
    <3> QED
        BY <3>1
  <2> QED
      BY <2>1
<1>5. u \in S
  <2>1. SUFFICES ASSUME u \notin S PROVE FALSE
      OBVIOUS
  <2>0. PICK m : m \in S
      OBVIOUS
  <2>2. m \in Nat /\ m >= 1
      BY <2>0
  <2>3. u \in Nat /\ u > m
      BY <1>4, <2>0, <2>1, <2>2
  <2>4. u - 1 \in Nat /\ \A k \in S : k <= u - 1
      BY <1>4, <2>1, <2>2, <2>3
  <2>5. u - 1 \in U
      BY <2>4
  <2>6. u <= u - 1
      BY <1>4, <2>5
  <2> QED
      BY <2>3, <2>6
<1>6. \E x \in S : \A y \in S : x >= y
    BY <1>4, <1>5
<1>7. Max(S) \in S /\ \A y \in S : Max(S) >= y
    BY <1>6 DEF Max
<1> QED
    BY <1>7

(* What Append and Tail do to a sequence of events.                        *)
LEMMA Appended ==
    ASSUME NEW S, NEW seq \in Seq(S), NEW e \in S
    PROVE  /\ Append(seq, e) \in Seq(S)
           /\ DOMAIN seq = 1 .. Len(seq) /\ Len(seq) \in Nat
           /\ DOMAIN Append(seq, e) = 1 .. Len(seq) + 1
           /\ \A k \in 1 .. Len(seq) : Append(seq, e)[k] = seq[k]
           /\ Append(seq, e)[Len(seq) + 1] = e
BY AppendProperties, LenProperties
LEMMA Tailed ==
    ASSUME NEW S, NEW seq \in Seq(S), seq # <<>>
    PROVE  /\ Tail(seq) \in Seq(S) /\ Head(seq) = seq[1] /\ seq[1] \in S
           /\ DOMAIN seq = 1 .. Len(seq) /\ Len(seq) \in Nat \ {0}
           /\ DOMAIN Tail(seq) = 1 .. Len(seq) - 1
           /\ \A k \in 1 .. Len(seq) - 1 : Tail(seq)[k] = seq[k + 1]
<1>1. Len(seq) \in Nat \ {0} /\ DOMAIN seq = 1 .. Len(seq)
    BY LenProperties, EmptySeq
<1>2. Tail(seq) \in Seq(S) /\ Len(Tail(seq)) = Len(seq) - 1 /\ Head(seq) = seq[1]
      /\ \A k \in 1 .. Len(seq) - 1 : Tail(seq)[k] = seq[k + 1]
    BY HeadTailProperties
<1>3. DOMAIN Tail(seq) = 1 .. Len(Tail(seq))
    BY <1>2, LenProperties
<1> QED
    BY <1>1, <1>2, <1>3, ElementOfSeq

(* What a step of the manager may do to a job's status and reports.        *)
LEMMA ManagerSteps ==
    ASSUME IInv, [Next]_vars, NEW j \in Jobs
    PROVE  /\ status[j] # "absent" => status'[j] # "absent"
           /\ status[j] \in Endings => status'[j] = status[j]
<1> USE DEF IInv, TypeOK, StatusAt, Endings
<1>1. ASSUME NEW i \in Jobs, Enqueue(i) \/ Cancel(i) \/ Run(i)
      PROVE  /\ status[j] # "absent" => status'[j] # "absent"
             /\ status[j] \in Endings => status'[j] = status[j]
  <2>1. CASE Enqueue(i)
      BY <2>1 DEF Enqueue, AddJob
  <2>2. CASE Begin(i)
      BY <2>2 DEF Begin
  <2>3. CASE SetStatus(i)
      BY <2>3 DEF SetStatus
  <2>4. CASE Cancel(i) \/ TellRunning(i) \/ RunPipeline(i) \/ Classify(i) \/ TellEnd(i)
             \/ CleanupJob(i)
      BY <2>4 DEF Cancel, CancelAnyStatus, TellRunning, RunPipeline, Classify, TellEnd, Tell,
                  CleanupJob
  <2> QED
      BY <1>1, <2>1, <2>2, <2>3, <2>4 DEF Run
<1>2. CASE UNCHANGED vars
    BY <1>2 DEF vars
<1> QED
    BY <1>1, <1>2 DEF Next

(* What the run goroutine reports is so.                                   *)
LEMMA Reports ==
    ASSUME IInv, NEW j \in Jobs, Run(j)
    PROVE  /\ \A i \in Jobs : i # j => told'[i] = told[i]
           /\ told'[j] # told[j] => /\ told'[j] \in Messages
                                    /\ status'[j] # "absent"
                                    /\ told'[j] \in Endings => status'[j] = told'[j]
<1> USE DEF IInv, TypeOK, StatusAt, Endings, Messages
<1>1. CASE TellRunning(j)
    BY <1>1 DEF TellRunning
<1>2. CASE TellEnd(j)
    BY <1>2 DEF TellEnd, Tell
<1>3. CASE Begin(j) \/ RunPipeline(j) \/ Classify(j) \/ SetStatus(j) \/ CleanupJob(j)
    BY <1>3 DEF Begin, RunPipeline, Classify, SetStatus, CleanupJob
<1> QED
    BY <1>1, <1>2, <1>3 DEF Run

(* Each step of the composition is one of the manager or leaves it alone.  *)
LEMMA Composed == StoreNext \/ UNCHANGED allVars => [Next]_vars
<1>1. ASSUME NEW j \in Jobs, RunJob(j) PROVE Next
    BY <1>1 DEF RunJob, Next
<1>2. ASSUME NEW j \in Jobs, ServeStartJob(j) PROVE Next
    BY <1>2 DEF ServeStartJob, Next
<1>3. ASSUME NEW j \in Jobs, ServeCancelJob(j) PROVE Next \/ UNCHANGED vars
    BY <1>3 DEF ServeCancelJob, Next
<1>4. CASE RefuseStartJob \/ User \/ Arrive
  <2>1. CASE RefuseStartJob
      BY <2>1 DEF RefuseStartJob
  <2>2. CASE User
      BY <2>2 DEF User, ClickFlash, Retry, StartJob, StartOver, ClickCancel, Reload
  <2>3. CASE Arrive
      BY <2>3 DEF Arrive, StartRefused, CancelAnswered, CancelReturns, EventArrives,
                  StartAnswered, Answered
  <2> QED
      BY <1>4, <2>1, <2>2, <2>3
<1>5. CASE UNCHANGED allVars
    BY <1>5 DEF allVars, vars
<1> QED
    BY <1>1, <1>2, <1>3, <1>4, <1>5 DEF StoreNext, Service

(* The last event of a job, when an event is added or the first is taken.  *)
LEMMA LastAppended ==
    ASSUME NEW seq \in Seq(Reported), NEW e \in Reported, NEW j, NEW m
    PROVE  /\ e = Event(j, m) => LastIs(Append(seq, e), j, m)
           /\ e.jobId # j /\ LastIs(seq, j, m) => LastIs(Append(seq, e), j, m)
           /\ e.jobId # j /\ NoneOf(seq, j) => NoneOf(Append(seq, e), j)
<1> DEFINE t == Append(seq, e)
<1>1. /\ DOMAIN seq = 1 .. Len(seq) /\ Len(seq) \in Nat
      /\ DOMAIN t = 1 .. Len(seq) + 1
      /\ \A k \in 1 .. Len(seq) : t[k] = seq[k]
      /\ t[Len(seq) + 1] = e
    BY Appended
<1> HIDE DEF t
<1>2. \A k \in DOMAIN t : k \in 1 .. Len(seq) \/ k = Len(seq) + 1
    BY <1>1
<1>3. Len(seq) + 1 \in DOMAIN t /\ \A n \in DOMAIN t : ~(n > Len(seq) + 1)
    BY <1>1
<1>4. e = Event(j, m) => LastIs(t, j, m)
    BY <1>1, <1>3 DEF LastIs
<1>5. ASSUME e.jobId # j, LastIs(seq, j, m) PROVE LastIs(t, j, m)
  <2>1. PICK k \in 1 .. Len(seq) : /\ seq[k] = Event(j, m)
                                   /\ \A n \in 1 .. Len(seq) : n > k => seq[n].jobId # j
      BY <1>1, <1>5 DEF LastIs
  <2>2. k \in DOMAIN t /\ t[k] = Event(j, m)
      BY <1>1, <2>1
  <2>3. \A n \in DOMAIN t : n > k => t[n].jobId # j
      BY <1>1, <1>2, <1>5, <2>1
  <2> QED
      BY <2>2, <2>3 DEF LastIs
<1>6. e.jobId # j /\ NoneOf(seq, j) => NoneOf(t, j)
    BY <1>1, <1>2 DEF NoneOf
<1> QED
    BY <1>4, <1>5, <1>6 DEF t
LEMMA LastTailed ==
    ASSUME NEW seq \in Seq(Reported), seq # <<>>, NEW j, NEW m
    PROVE  /\ LastIs(seq, j, m) => \/ LastIs(Tail(seq), j, m)
                                   \/ seq[1] = Event(j, m) /\ NoneOf(Tail(seq), j)
           /\ NoneOf(seq, j) => seq[1].jobId # j /\ NoneOf(Tail(seq), j)
<1> DEFINE t == Tail(seq)
<1>1. /\ DOMAIN seq = 1 .. Len(seq) /\ Len(seq) \in Nat \ {0}
      /\ DOMAIN t = 1 .. Len(seq) - 1
      /\ \A k \in 1 .. Len(seq) - 1 : t[k] = seq[k + 1]
    BY Tailed
<1> HIDE DEF t
<1>2. \A k \in DOMAIN t : k \in Nat /\ k + 1 \in DOMAIN seq /\ k + 1 > 1 /\ t[k] = seq[k + 1]
    BY <1>1
<1>3. ASSUME LastIs(seq, j, m)
      PROVE  LastIs(t, j, m) \/ (seq[1] = Event(j, m) /\ NoneOf(t, j))
  <2>1. PICK k \in 1 .. Len(seq) : /\ seq[k] = Event(j, m)
                                   /\ \A n \in DOMAIN seq : n > k => seq[n].jobId # j
      BY <1>1, <1>3 DEF LastIs
  <2>2. CASE k = 1
      BY <1>2, <2>1, <2>2 DEF NoneOf
  <2>3. CASE k > 1
    <3>1. k - 1 \in DOMAIN t /\ t[k - 1] = Event(j, m)
      <4>1. k - 1 \in 1 .. Len(seq) - 1 /\ (k - 1) + 1 = k
          BY <1>1, <2>3
      <4> QED
          BY <1>1, <2>1, <4>1
    <3>2. \A n \in DOMAIN t : n > k - 1 => n + 1 > k
        BY <1>2
    <3>3. \A n \in DOMAIN t : n > k - 1 => t[n].jobId # j
        BY <1>2, <2>1, <3>2
    <3> QED
        BY <3>1, <3>3 DEF LastIs
  <2> QED
      BY <1>1, <2>2, <2>3
<1>4. NoneOf(seq, j) => seq[1].jobId # j /\ NoneOf(t, j)
  <2>1. 1 \in DOMAIN seq
      BY <1>1
  <2> QED
      BY <1>2, <2>1 DEF NoneOf
<1> QED
    BY <1>3, <1>4 DEF t

(* Events are honest still after a step, with a report added to them or    *)
(* the first one taken.                                                    *)
HonestNext(seq) ==
    \A k \in DOMAIN seq :
        /\ status'[seq[k].jobId] # "absent"
        /\ seq[k].message \in Endings => status'[seq[k].jobId] = seq[k].message
LEMMA HonestStays ==
    ASSUME IInv, [Next]_vars, NEW seq \in Seq(Reported), Honest(seq)
    PROVE  HonestNext(seq)
<1>1. ASSUME NEW k \in DOMAIN seq
      PROVE  /\ status'[seq[k].jobId] # "absent"
             /\ seq[k].message \in Endings => status'[seq[k].jobId] = seq[k].message
  <2>1. k \in 1 .. Len(seq)
      BY LenProperties
  <2>2. seq[k] \in Reported
      BY <2>1, ElementOfSeq
  <2>3. seq[k].jobId \in Jobs
      BY <2>2 DEF Reported
  <2>4. /\ status[seq[k].jobId] # "absent"
        /\ seq[k].message \in Endings => status[seq[k].jobId] = seq[k].message
      BY DEF Honest
  <2> QED
      BY <2>3, <2>4, ManagerSteps
<1> QED
    BY <1>1 DEF HonestNext
LEMMA HonestAppended ==
    ASSUME NEW seq \in Seq(Reported), HonestNext(seq), NEW e \in Reported,
           status'[e.jobId] # "absent", e.message \in Endings => status'[e.jobId] = e.message
    PROVE  HonestNext(Append(seq, e))
<1> DEFINE t == Append(seq, e)
<1>1. /\ DOMAIN seq = 1 .. Len(seq) /\ Len(seq) \in Nat
      /\ DOMAIN t = 1 .. Len(seq) + 1
      /\ \A k \in 1 .. Len(seq) : t[k] = seq[k]
      /\ t[Len(seq) + 1] = e
    BY Appended
<1> HIDE DEF t
<1>2. ASSUME NEW k \in DOMAIN t
      PROVE  /\ status'[t[k].jobId] # "absent"
             /\ t[k].message \in Endings => status'[t[k].jobId] = t[k].message
  <2>1. k \in 1 .. Len(seq) \/ k = Len(seq) + 1
      BY <1>1
  <2>2. CASE k \in 1 .. Len(seq)
      BY <1>1, <2>2 DEF HonestNext
  <2>3. CASE k = Len(seq) + 1
      BY <1>1, <2>3
  <2> QED
      BY <2>1, <2>2, <2>3
<1> QED
    BY <1>2 DEF HonestNext, t
LEMMA HonestTailed ==
    ASSUME NEW seq \in Seq(Reported), seq # <<>>, HonestNext(seq)
    PROVE  HonestNext(Tail(seq))
<1> DEFINE t == Tail(seq)
<1>1. \A k \in DOMAIN t : k + 1 \in DOMAIN seq /\ t[k] = seq[k + 1]
    BY Tailed
<1> HIDE DEF t
<1>2. HonestNext(t)
    BY <1>1 DEF HonestNext
<1> QED
    BY <1>2 DEF t

(* The answer to StartJob shows the last of the job's kept events.         *)
LEMMA Replayed ==
    ASSUME StoreTypeOK, NEW j \in Jobs, StartAnswered(j)
    PROVE  /\ startCall = j /\ isStarting /\ startCall' = "none" /\ currentJobId' = j
           /\ pendingEvents' = <<>> /\ isStarting' = FALSE
           /\ UNCHANGED <<vars, events, cancelCall, fresh>>
           /\ isCancelling' \in BOOLEAN
           /\ \/ NoneOf(pendingEvents, j) /\ view' = "pending"
              \/ \E k \in DOMAIN pendingEvents :
                   /\ pendingEvents[k].jobId = j /\ pendingEvents[k] \in Reported
                   /\ \A n \in DOMAIN pendingEvents : n > k => pendingEvents[n].jobId # j
                   /\ view' = pendingEvents[k].message
<1> DEFINE K == {k \in DOMAIN pendingEvents : pendingEvents[k].jobId = j}
<1>1. /\ startCall = j /\ isStarting /\ startCall' = "none" /\ currentJobId' = j
      /\ pendingEvents' = <<>> /\ isStarting' = FALSE
      /\ UNCHANGED <<vars, events, cancelCall, fresh>>
    BY DEF StartAnswered, Answered
<1>2. /\ view' = IF K = {} THEN "pending" ELSE pendingEvents[Max(K)].message
      /\ isCancelling' \in BOOLEAN
  <2>1. Becomes(Replay(K))
      BY DEF StartAnswered, Answered
  <2> HIDE DEF K
  <2>2. view' = Replay(K).view /\ isCancelling' = Replay(K).isCancelling
      BY <2>1 DEF Becomes
  <2>3. Replay(K).view = IF K = {} THEN "pending" ELSE pendingEvents[Max(K)].message
      BY DEF Replay
  <2>4. Replay(K).isCancelling \in BOOLEAN
      BY DEF Replay
  <2> QED
      BY <2>2, <2>3, <2>4
<1>3. /\ DOMAIN pendingEvents = 1 .. Len(pendingEvents) /\ Len(pendingEvents) \in Nat
      /\ \A k \in 1 .. Len(pendingEvents) : pendingEvents[k] \in Reported
  <2>1. pendingEvents \in Seq(Reported)
      BY DEF StoreTypeOK
  <2> QED
      BY <2>1, LenProperties, ElementOfSeq
<1>4. CASE K = {}
  <2>1. NoneOf(pendingEvents, j)
      BY <1>4 DEF NoneOf
  <2> QED
      BY <1>1, <1>2, <1>4, <2>1
<1>5. CASE K # {}
  <2>1. K \subseteq 1 .. Len(pendingEvents)
      BY <1>3
  <2>2. Max(K) \in K /\ \A k \in K : k <= Max(K)
    <3> HIDE DEF K
    <3> QED
        BY <1>3, <1>5, <2>1, Greatest
  <2>3. PICK k : k = Max(K)
      OBVIOUS
  <2>4. /\ k \in DOMAIN pendingEvents /\ pendingEvents[k].jobId = j
        /\ pendingEvents[k] \in Reported
      BY <1>3, <2>2, <2>3
  <2>5. \A n \in DOMAIN pendingEvents : n > k => pendingEvents[n].jobId # j
    <3>1. ASSUME NEW n \in DOMAIN pendingEvents, n > k, pendingEvents[n].jobId = j PROVE FALSE
      <4>1. n \in K /\ n \in 1 .. Len(pendingEvents) /\ k \in 1 .. Len(pendingEvents)
          BY <1>3, <2>4, <3>1
      <4>2. n <= k
          BY <2>2, <2>3, <4>1
      <4> QED
          BY <3>1, <4>1, <4>2
    <3> QED
        BY <3>1
  <2>6. view' = pendingEvents[k].message
    <3> HIDE DEF K
    <3> QED
        BY <1>2, <1>5, <2>3
  <2> QED
      BY <1>1, <1>2, <2>4, <2>5, <2>6
<1> QED
    BY <1>4, <1>5

(* An event is kept, shown, or let pass.                                   *)
LEMMA Handled ==
    ASSUME StoreTypeOK, EventArrives
    PROVE  /\ events # <<>> /\ events[1] \in Reported
           /\ events' = Tail(events) /\ events' \in Seq(Reported)
           /\ UNCHANGED <<vars, callVars, currentJobId, isStarting, fresh>>
           /\ isCancelling' \in BOOLEAN
           /\ \/ /\ isStarting /\ currentJobId = NoJob
                 /\ pendingEvents' = Append(pendingEvents, events[1])
                 /\ view' = view
              \/ /\ ~(isStarting /\ currentJobId = NoJob)
                 /\ pendingEvents' = pendingEvents
                 /\ IF events[1].jobId = currentJobId THEN view' = events[1].message
                    ELSE view' = view
<1>1. /\ events # <<>> /\ events' = Tail(events) /\ HandleEvent(Head(events))
      /\ UNCHANGED <<vars, callVars, currentJobId, isStarting, fresh>>
    BY DEF EventArrives
<1>2. events \in Seq(Reported) /\ isCancelling \in BOOLEAN
    BY DEF StoreTypeOK
<1>3. Head(events) = events[1] /\ events[1] \in Reported /\ Tail(events) \in Seq(Reported)
    BY <1>1, <1>2, Tailed
<1>4. Receive(events[1], events[1].jobId = currentJobId)
    BY <1>1, <1>3 DEF HandleEvent
<1>5. CASE isStarting /\ currentJobId = NoJob
  <2>1. pendingEvents' = Append(pendingEvents, events[1]) /\ UNCHANGED <<view, isCancelling>>
      BY <1>4, <1>5 DEF Receive
  <2> QED
      BY <1>1, <1>2, <1>3, <1>5, <2>1
<1>6. CASE ~(isStarting /\ currentJobId = NoJob)
  <2>1. /\ pendingEvents' = pendingEvents
        /\ Becomes(IF events[1].jobId = currentJobId THEN Process(Store(view), events[1])
                   ELSE Store(view))
      BY <1>4, <1>6 DEF Receive
  <2>2. CASE events[1].jobId = currentJobId
    <3>1. Becomes(Process(Store(view), events[1]))
        BY <2>1, <2>2
    <3>2. view' = events[1].message
        BY <3>1 DEF Becomes, Process
    <3>3. isCancelling' \in BOOLEAN
        BY <3>1 DEF Becomes, Process
    <3> QED
        BY <1>1, <1>3, <1>6, <2>1, <2>2, <3>2, <3>3
  <2>3. CASE events[1].jobId # currentJobId
    <3>1. Becomes(Store(view))
        BY <2>1, <2>3
    <3>2. view' = view /\ isCancelling' = isCancelling
        BY <3>1 DEF Becomes, Store
    <3> QED
        BY <1>1, <1>2, <1>3, <1>6, <2>1, <2>3, <3>2
  <2> QED
      BY <2>2, <2>3
<1> QED
    BY <1>5, <1>6

(* A report is sent as it is made.                                         *)
LEMMA Sent ==
    ASSUME IInv, StoreTypeOK, NEW j \in Jobs, RunJob(j)
    PROVE  /\ UNCHANGED <<callVars, storeVars>>
           /\ \A i \in Jobs : i # j => told'[i] = told[i]
           /\ \/ UNCHANGED <<events, told>>
              \/ /\ Event(j, told'[j]) \in Reported
                 /\ events' = Append(events, Event(j, told'[j]))
                 /\ status'[j] # "absent"
                 /\ told'[j] \in Endings => status'[j] = told'[j]
<1>1. /\ Run(j) /\ UNCHANGED <<callVars, storeVars>>
      /\ events' = IF told'[j] = told[j] THEN events ELSE Append(events, Event(j, told'[j]))
    BY DEF RunJob
<1>2. /\ \A i \in Jobs : i # j => told'[i] = told[i]
      /\ told'[j] # told[j] => /\ told'[j] \in Messages
                               /\ status'[j] # "absent"
                               /\ told'[j] \in Endings => status'[j] = told'[j]
    BY <1>1, Reports
<1>3. CASE told'[j] # told[j]
    BY <1>1, <1>2, <1>3 DEF Event, Reported
<1>4. CASE told'[j] = told[j]
  <2>1. told' = told
    <3>1. \A i \in Jobs : told'[i] = told[i]
        BY <1>2, <1>4
    <3>2. told = [i \in Jobs |-> told[i]] /\ told' = [i \in Jobs |-> told'[i]]
        BY <1>1 DEF IInv, TypeOK, Run, Begin, TellRunning, RunPipeline, Classify, SetStatus,
                    TellEnd, Tell, CleanupJob
    <3> QED
        BY <3>1, <3>2
  <2> QED
      BY <1>1, <1>2, <1>4, <2>1
<1> QED
    BY <1>3, <1>4

(* The store's variables keep their types.                                 *)
LEMMA StepStoreType ==
    ASSUME IInv, StoreTypeOK, StoreNext \/ UNCHANGED allVars PROVE StoreTypeOK'
<1> USE DEF callVars, storeVars
<1>1. ASSUME NEW j \in Jobs, RunJob(j) PROVE StoreTypeOK'
  <2>1. /\ UNCHANGED <<callVars, storeVars>>
        /\ events' = events \/ \E e \in Reported : events' = Append(events, e)
      BY <1>1, Sent
  <2>2. events' \in Seq(Reported)
    <3>1. events \in Seq(Reported)
        BY DEF StoreTypeOK
    <3> QED
        BY <2>1, <3>1, Appended
  <2> QED
      BY <2>1, <2>2 DEF StoreTypeOK
<1>2. ASSUME NEW j \in Jobs, ServeStartJob(j) PROVE StoreTypeOK'
    BY <1>2 DEF ServeStartJob, StoreTypeOK
<1>3. ASSUME NEW j \in Jobs, ServeCancelJob(j) PROVE StoreTypeOK'
  <2>1. /\ cancelCall' = [cancelCall EXCEPT !.answer = "true"]
           \/ cancelCall' = [cancelCall EXCEPT !.answer = "false"]
        /\ UNCHANGED <<events, startCall, storeVars>>
      BY <1>3 DEF ServeCancelJob
  <2>2. cancelCall' \in [jobId : Jobs \cup {NoJob}, answer : {"none", "asked", "true", "false"}]
      BY <2>1 DEF StoreTypeOK
  <2> QED
      BY <2>1, <2>2 DEF StoreTypeOK
<1>4. CASE RefuseStartJob
    BY <1>4 DEF RefuseStartJob, StoreTypeOK
<1>5. CASE ClickFlash \/ Retry
  <2>1. /\ isStarting' \in BOOLEAN /\ view' = "null" /\ pendingEvents' = <<>>
        /\ fresh' \in BOOLEAN /\ startCall' = "asked"
        /\ UNCHANGED <<events, cancelCall, currentJobId, isCancelling>>
      BY <1>5 DEF ClickFlash, Retry, StartJob
  <2> QED
      BY <2>1 DEF StoreTypeOK
<1>6. CASE StartOver
  <2>1. /\ currentJobId' = NoJob /\ view' = "null"
        /\ UNCHANGED <<events, callVars, isStarting, isCancelling, pendingEvents, fresh>>
      BY <1>6 DEF StartOver
  <2> QED
      BY <2>1 DEF StoreTypeOK
<1>7. CASE ClickCancel
  <2>1. /\ isCancelling' \in BOOLEAN
        /\ cancelCall' = [jobId |-> currentJobId, answer |-> "asked"]
        /\ UNCHANGED <<events, startCall, currentJobId, view, isStarting, pendingEvents, fresh>>
      BY <1>7 DEF ClickCancel
  <2>2. cancelCall' \in [jobId : Jobs \cup {NoJob}, answer : {"none", "asked", "true", "false"}]
      BY <2>1 DEF StoreTypeOK
  <2> QED
      BY <2>1, <2>2 DEF StoreTypeOK
<1>8. CASE Reload
  <2>1. /\ currentJobId' = NoJob /\ view' = "null" /\ pendingEvents' = <<>>
        /\ UNCHANGED <<events, callVars>>
      BY <1>8 DEF Reload
  <2>2. fresh' \in BOOLEAN /\ isStarting' \in BOOLEAN /\ isCancelling' \in BOOLEAN
      BY <1>8 DEF Reload
  <2> QED
      BY <2>1, <2>2 DEF StoreTypeOK
<1>9. ASSUME NEW j \in Jobs, StartAnswered(j) PROVE StoreTypeOK'
  <2>1. /\ startCall' = "none" /\ currentJobId' = j /\ pendingEvents' = <<>>
        /\ isCancelling' \in BOOLEAN /\ UNCHANGED <<events, cancelCall, fresh>>
      BY <1>9, Replayed
  <2>2. view' \in {"null", "pending"} \cup Messages
      BY <1>9, Replayed DEF Reported
  <2>3. isStarting' \in BOOLEAN
      BY <1>9, Replayed
  <2> QED
      BY <2>1, <2>2, <2>3 DEF StoreTypeOK
<1>10. CASE StartRefused
  <2>1. /\ isStarting' \in BOOLEAN /\ startCall' = "none"
        /\ UNCHANGED <<events, cancelCall, currentJobId, view, isCancelling,
                       pendingEvents, fresh>>
      BY <1>10 DEF StartRefused
  <2> QED
      BY <2>1 DEF StoreTypeOK
<1>11. CASE CancelAnswered
  <2>1. /\ cancelCall' = NoCancel /\ isCancelling' \in BOOLEAN
        /\ UNCHANGED <<events, startCall, currentJobId, view, isStarting, pendingEvents, fresh>>
      BY <1>11 DEF CancelAnswered, CancelReturns
  <2>2. cancelCall' \in [jobId : Jobs \cup {NoJob}, answer : {"none", "asked", "true", "false"}]
      BY <2>1 DEF NoCancel
  <2> QED
      BY <2>1, <2>2 DEF StoreTypeOK
<1>12. CASE EventArrives
  <2>1. /\ events' \in Seq(Reported) /\ events[1] \in Reported /\ isCancelling' \in BOOLEAN
        /\ UNCHANGED <<callVars, currentJobId, isStarting, fresh>>
        /\ pendingEvents' = pendingEvents \/ pendingEvents' = Append(pendingEvents, events[1])
        /\ view' = view \/ view' = events[1].message
      BY <1>12, Handled
  <2>2. pendingEvents' \in Seq(Reported)
    <3>1. pendingEvents \in Seq(Reported)
        BY DEF StoreTypeOK
    <3> QED
        BY <2>1, <3>1, Appended
  <2>3. view' \in {"null", "pending"} \cup Messages
      BY <2>1 DEF StoreTypeOK, Reported
  <2> QED
      BY <2>1, <2>2, <2>3 DEF StoreTypeOK
<1>13. CASE UNCHANGED allVars
    BY <1>13 DEF allVars, StoreTypeOK
<1> QED
    BY <1>1, <1>2, <1>3, <1>4, <1>5, <1>6, <1>7, <1>8, <1>9, <1>10, <1>11, <1>12, <1>13
    DEF StoreNext, Service, User, Arrive

(* Events stay honest.                                                     *)
LEMMA StepHonest ==
    ASSUME IInv, StoreTypeOK, Honest(events), Honest(pendingEvents),
           StoreNext \/ UNCHANGED allVars
    PROVE  Honest(events)' /\ Honest(pendingEvents)'
<1>1. events \in Seq(Reported) /\ pendingEvents \in Seq(Reported) /\ [Next]_vars
    BY Composed DEF StoreTypeOK
<1>2. HonestNext(events) /\ HonestNext(pendingEvents)
    BY <1>1, HonestStays
<1>3. HonestNext(<<>>)
    BY DEF HonestNext
<1>4. SUFFICES HonestNext(events') /\ HonestNext(pendingEvents')
    BY DEF HonestNext, Honest
<1>5. ASSUME NEW j \in Jobs, RunJob(j) PROVE HonestNext(events') /\ HonestNext(pendingEvents')
  <2>1. pendingEvents' = pendingEvents
      BY <1>5, Sent DEF storeVars
  <2>2. CASE events' = events
      BY <1>2, <2>1, <2>2
  <2>3. CASE /\ Event(j, told'[j]) \in Reported
             /\ events' = Append(events, Event(j, told'[j]))
             /\ status'[j] # "absent"
             /\ told'[j] \in Endings => status'[j] = told'[j]
    <3>1. PICK e \in Reported : e = Event(j, told'[j])
        BY <2>3
    <3>2. e.jobId = j /\ e.message = told'[j]
        BY <3>1 DEF Event
    <3>3. HonestNext(Append(events, e))
        BY <1>1, <1>2, <2>3, <3>2, HonestAppended
    <3> QED
        BY <1>2, <2>1, <2>3, <3>1, <3>3
  <2> QED
      BY <1>5, <2>2, <2>3, Sent
<1>6. CASE EventArrives
  <2>1. /\ events # <<>> /\ events[1] \in Reported /\ events' = Tail(events)
        /\ pendingEvents' = pendingEvents \/ pendingEvents' = Append(pendingEvents, events[1])
      BY <1>6, Handled
  <2>2. HonestNext(events')
      BY <1>1, <1>2, <2>1, HonestTailed
  <2>3. /\ status'[events[1].jobId] # "absent"
        /\ events[1].message \in Endings => status'[events[1].jobId] = events[1].message
    <3>1. 1 \in DOMAIN events
        BY <1>1, <2>1, Tailed
    <3> QED
        BY <1>2, <3>1 DEF HonestNext
  <2>4. PICK e \in Reported : e = events[1]
      BY <2>1
  <2>5. HonestNext(Append(pendingEvents, e))
      BY <1>1, <1>2, <2>3, <2>4, HonestAppended
  <2> QED
      BY <1>2, <2>1, <2>2, <2>4, <2>5
<1>7. ASSUME events' = events, pendingEvents' = pendingEvents \/ pendingEvents' = <<>>
      PROVE  HonestNext(events') /\ HonestNext(pendingEvents')
    BY <1>2, <1>3, <1>7
<1>8. ASSUME NEW j \in Jobs, Service(j) \/ StartAnswered(j)
      PROVE  events' = events /\ (pendingEvents' = pendingEvents \/ pendingEvents' = <<>>)
    BY <1>8 DEF Service, ServeStartJob, ServeCancelJob, StartAnswered, Answered, storeVars
<1>9. CASE User \/ RefuseStartJob \/ StartRefused \/ CancelAnswered \/ UNCHANGED allVars
  <2>1. events' = events /\ (pendingEvents' = pendingEvents \/ pendingEvents' = <<>>)
    <3>1. CASE User
        BY <3>1 DEF User, ClickFlash, Retry, StartJob, StartOver, ClickCancel, Reload
    <3>2. CASE RefuseStartJob \/ StartRefused \/ CancelAnswered \/ UNCHANGED allVars
        BY <3>2 DEF RefuseStartJob, StartRefused, CancelAnswered, CancelReturns, allVars,
                    storeVars
    <3> QED
        BY <1>9, <3>1, <3>2
  <2> QED
      BY <1>7, <2>1
<1> QED
    BY <1>5, <1>6, <1>7, <1>8, <1>9 DEF StoreNext, Arrive

(* A finished view goes on telling the truth.                              *)
LEMMA StepTruth ==
    ASSUME IInv, StoreTypeOK, Honest(events), Honest(pendingEvents), ViewTellsTheTruth,
           StoreNext \/ UNCHANGED allVars
    PROVE  ViewTellsTheTruth'
<1>1. [Next]_vars
    BY Composed
<1>2. ASSUME view' = view, currentJobId' = currentJobId PROVE ViewTellsTheTruth'
  <2>1. SUFFICES ASSUME view \in Endings
                 PROVE  currentJobId \in Jobs /\ status'[currentJobId] = view
      BY <1>2 DEF ViewTellsTheTruth
  <2>2. currentJobId \in Jobs /\ status[currentJobId] = view
      BY <2>1 DEF ViewTellsTheTruth
  <2> QED
      BY <1>1, <2>1, <2>2, ManagerSteps
<1>3. ASSUME view' = "null" PROVE ViewTellsTheTruth'
    BY <1>3 DEF ViewTellsTheTruth, Endings
<1>4. ASSUME NEW j \in Jobs, RunJob(j) \/ Service(j) PROVE ViewTellsTheTruth'
  <2>1. view' = view /\ currentJobId' = currentJobId
      BY <1>4 DEF RunJob, Service, ServeStartJob, ServeCancelJob, storeVars
  <2> QED
      BY <1>2, <2>1
<1>5. CASE RefuseStartJob \/ ClickCancel \/ StartRefused \/ CancelAnswered \/ UNCHANGED allVars
  <2>1. view' = view /\ currentJobId' = currentJobId
      BY <1>5 DEF RefuseStartJob, ClickCancel, StartRefused, CancelAnswered, CancelReturns,
                  allVars, storeVars
  <2> QED
      BY <1>2, <2>1
<1>6. CASE ClickFlash \/ Retry \/ StartOver \/ Reload
  <2>1. view' = "null"
      BY <1>6 DEF ClickFlash, Retry, StartJob, StartOver, Reload
  <2> QED
      BY <1>3, <2>1
<1>7. ASSUME NEW j \in Jobs, StartAnswered(j) PROVE ViewTellsTheTruth'
  <2>1. currentJobId' = j /\ status' = status
      BY <1>7, Replayed DEF vars
  <2>2. CASE view' = "pending"
      BY <2>2 DEF ViewTellsTheTruth, Endings
  <2>3. CASE \E k \in DOMAIN pendingEvents :
                 pendingEvents[k].jobId = j /\ view' = pendingEvents[k].message
      BY <2>1, <2>3 DEF Honest, ViewTellsTheTruth
  <2> QED
      BY <1>7, <2>2, <2>3, Replayed
<1>8. CASE EventArrives
  <2>1. /\ events # <<>> /\ events[1] \in Reported /\ status' = status
        /\ currentJobId' = currentJobId
        /\ \/ view' = view
           \/ events[1].jobId = currentJobId /\ view' = events[1].message
      BY <1>8, Handled DEF vars
  <2>2. CASE events[1].jobId = currentJobId /\ view' = events[1].message
    <3>1. 1 \in DOMAIN events
        BY <2>1, Tailed DEF StoreTypeOK
    <3>2. events[1].jobId \in Jobs
        BY <2>1 DEF Reported
    <3> QED
        BY <2>1, <2>2, <3>1, <3>2 DEF Honest, ViewTellsTheTruth
  <2> QED
      BY <1>2, <2>1, <2>2
<1> QED
    BY <1>4, <1>5, <1>6, <1>7, <1>8 DEF StoreNext, User, Arrive

(* A start that is under way is marked so.                                 *)
LEMMA StepCalls ==
    ASSUME StoreTypeOK, Calls, StoreNext \/ UNCHANGED allVars PROVE Calls'
<1>1. ASSUME NEW j \in Jobs, RunJob(j) \/ ServeCancelJob(j) PROVE Calls'
    BY <1>1 DEF RunJob, ServeCancelJob, callVars, storeVars, Calls
<1>2. ASSUME NEW j \in Jobs, ServeStartJob(j) PROVE Calls'
    BY <1>2 DEF ServeStartJob, storeVars, Calls
<1>3. CASE RefuseStartJob
    BY <1>3 DEF RefuseStartJob, storeVars, Calls
<1>4. CASE ClickFlash \/ Retry
    BY <1>4 DEF ClickFlash, Retry, StartJob, Calls
<1>5. CASE StartOver \/ ClickCancel \/ Reload
    BY <1>5 DEF StartOver, ClickCancel, Reload, callVars, Calls
<1>6. ASSUME NEW j \in Jobs, StartAnswered(j) PROVE Calls'
    BY <1>6, Replayed DEF Calls
<1>7. CASE StartRefused \/ CancelAnswered
    BY <1>7 DEF StartRefused, CancelAnswered, CancelReturns, Calls
<1>8. CASE EventArrives
    BY <1>8, Handled DEF callVars, Calls
<1>9. CASE UNCHANGED allVars
    BY <1>9 DEF allVars, callVars, storeVars, Calls
<1> QED
    BY <1>1, <1>2, <1>3, <1>4, <1>5, <1>6, <1>7, <1>8, <1>9
    DEF StoreNext, Service, User, Arrive

(* The last report of a job goes from the channel to the store.            *)
LEMMA StepFollows ==
    ASSUME IInv, StoreTypeOK, Honest(events), Honest(pendingEvents), ViewTellsTheTruth, Calls,
           Follows, StoreNext \/ UNCHANGED allVars
    PROVE  Follows'
<1> USE DEF callVars, storeVars
<1>1. events \in Seq(Reported) /\ pendingEvents \in Seq(Reported)
    BY DEF StoreTypeOK
<1>2. ASSUME UNCHANGED <<events, told, startCall, currentJobId, view, isStarting,
                         pendingEvents, fresh>>
      PROVE  Follows'
    BY <1>2 DEF Follows, Coming, Kept, Shown
<1>3. ASSUME NEW j \in Jobs, RunJob(j) PROVE Follows'
  <2>1. CASE UNCHANGED <<events, told>>
    <3>1. UNCHANGED <<startCall, currentJobId, view, isStarting, pendingEvents, fresh>>
        BY <1>3, Sent
    <3> QED
        BY <1>2, <2>1, <3>1
  <2>2. CASE /\ Event(j, told'[j]) \in Reported
             /\ events' = Append(events, Event(j, told'[j]))
    <3>1. PICK e \in Reported : e = Event(j, told'[j])
        BY <2>2
    <3>2. LastIs(events', j, told'[j])
        BY <1>1, <2>2, <3>1, LastAppended
    <3>3. ASSUME NEW i \in Jobs, i # j
          PROVE  /\ LastIs(events, i, told[i]) => LastIs(events', i, told'[i])
                 /\ NoneOf(events, i) => NoneOf(events', i)
                 /\ told'[i] = told[i]
      <4>1. e.jobId # i /\ events' = Append(events, e)
          BY <2>2, <3>1, <3>3 DEF Event
      <4>2. told'[i] = told[i]
          BY <1>3, <3>3, Sent
      <4> QED
          BY <1>1, <4>1, <4>2, LastAppended
    <3>4. UNCHANGED <<startCall, currentJobId, view, isStarting, pendingEvents, fresh>>
        BY <1>3, Sent
    <3>5. SUFFICES ASSUME fresh, NEW i \in Jobs
                   PROVE  /\ startCall = i => Coming(i, Kept(i))'
                          /\ ~isStarting /\ currentJobId = i => Coming(i, Shown(i))'
        BY <3>4 DEF Follows
    <3>6. CASE i = j
        BY <3>2, <3>6 DEF Coming
    <3>7. CASE i # j
      <4>1. /\ startCall = i => Coming(i, Kept(i))
            /\ ~isStarting /\ currentJobId = i => Coming(i, Shown(i))
          BY <3>5 DEF Follows
      <4>2. (Kept(i) => Kept(i)') /\ (Shown(i) => Shown(i)')
          BY <3>3, <3>4, <3>7 DEF Kept, Shown
      <4> QED
          BY <3>3, <3>7, <4>1, <4>2 DEF Coming
    <3> QED
        BY <3>6, <3>7
  <2> QED
      BY <1>3, <2>1, <2>2, Sent
<1>4. ASSUME NEW j \in Jobs, ServeStartJob(j) PROVE Follows'
  <2>1. /\ startCall = "asked" /\ startCall' = j /\ status[j] = "absent"
        /\ UNCHANGED <<events, told, currentJobId, view, isStarting, pendingEvents, fresh>>
      BY <1>4 DEF ServeStartJob, Enqueue, AddJob
  <2>2. NoneOf(events, j) /\ NoneOf(pendingEvents, j) /\ told[j] = "nothing"
    <3>1. NoneOf(events, j) /\ NoneOf(pendingEvents, j)
        BY <2>1 DEF Honest, NoneOf
    <3>2. told[j] = "nothing"
        BY <2>1 DEF IInv, StatusAt, ToldAt
    <3> QED
        BY <3>1, <3>2
  <2>3. isStarting
      BY <2>1 DEF Calls
  <2> QED
      BY <2>1, <2>2, <2>3 DEF Follows, Coming, Kept
<1>5. ASSUME NEW j \in Jobs, ServeCancelJob(j) PROVE Follows'
  <2>1. told' = told
      BY <1>5 DEF ServeCancelJob, Cancel, CancelAnyStatus, vars
  <2>2. UNCHANGED <<events, startCall, storeVars>>
      BY <1>5 DEF ServeCancelJob
  <2> QED
      BY <1>2, <2>1, <2>2
<1>6. CASE RefuseStartJob
  <2>1. /\ startCall' = "refused"
        /\ UNCHANGED <<events, told, currentJobId, view, isStarting, pendingEvents, fresh>>
      BY <1>6 DEF RefuseStartJob, vars
  <2> QED
      BY <2>1, JobsAssumption DEF Follows, Coming, Kept, Shown
<1>7. CASE ClickFlash \/ Retry
  <2>1. startCall' = "asked" /\ isStarting' = TRUE
      BY <1>7 DEF ClickFlash, Retry, StartJob
  <2> QED
      BY <2>1, JobsAssumption DEF Follows
<1>8. CASE StartOver
  <2>1. /\ currentJobId' = NoJob
        /\ UNCHANGED <<events, told, startCall, isStarting, pendingEvents, fresh>>
      BY <1>8 DEF StartOver, vars
  <2> QED
      BY <2>1, JobsAssumption DEF Follows, Coming, Kept
<1>9. CASE ClickCancel
  <2>1. UNCHANGED <<events, told, startCall, currentJobId, view, isStarting,
                    pendingEvents, fresh>>
      BY <1>9 DEF ClickCancel, vars
  <2> QED
      BY <1>2, <2>1
<1>10. CASE Reload
    BY <1>10 DEF Reload, Follows
<1>11. ASSUME NEW j \in Jobs, StartAnswered(j) PROVE Follows'
  <2>1. /\ startCall = j /\ startCall' = "none" /\ currentJobId' = j
        /\ UNCHANGED <<events, told, fresh>>
      BY <1>11, Replayed DEF vars
  <2>2. SUFFICES ASSUME fresh PROVE Coming(j, Shown(j))'
      BY <2>1, JobsAssumption DEF Follows
  <2>3. Coming(j, Kept(j))
      BY <2>1, <2>2 DEF Follows
  <2>4. Kept(j) => Shown(j)'
    <3>1. CASE NoneOf(pendingEvents, j) /\ told[j] = "nothing"
        BY <2>1, <3>1 DEF Shown
    <3>2. CASE LastIs(pendingEvents, j, told[j])
      <4>1. PICK k \in DOMAIN pendingEvents :
              /\ pendingEvents[k].jobId = j /\ pendingEvents[k].message = told[j]
              /\ \A n \in DOMAIN pendingEvents : n > k => pendingEvents[n].jobId # j
          BY <3>2 DEF LastIs, Event
      <4>2. PICK l \in DOMAIN pendingEvents :
              /\ pendingEvents[l].jobId = j
              /\ \A n \in DOMAIN pendingEvents : n > l => pendingEvents[n].jobId # j
              /\ view' = pendingEvents[l].message
          BY <1>11, <4>1, Replayed DEF NoneOf
      <4>3. k \in Nat /\ l \in Nat
          BY <1>1, LenProperties
      <4>4. k = l
          BY <4>1, <4>2, <4>3
      <4> QED
          BY <2>1, <4>1, <4>2, <4>4 DEF Shown
    <3> QED
        BY <3>1, <3>2 DEF Kept
  <2> QED
      BY <2>1, <2>3, <2>4 DEF Coming
<1>12. CASE StartRefused
  <2>1. /\ startCall = "refused" /\ startCall' = "none"
        /\ UNCHANGED <<events, told, currentJobId, view, pendingEvents, fresh>>
      BY <1>12 DEF StartRefused, vars
  <2>2. fresh => currentJobId \notin Jobs
      BY <2>1, JobsAssumption DEF Calls
  <2> QED
      BY <2>1, <2>2, JobsAssumption DEF Follows
<1>13. CASE CancelAnswered
  <2>1. UNCHANGED <<events, told, startCall, currentJobId, view, isStarting,
                    pendingEvents, fresh>>
      BY <1>13 DEF CancelAnswered, CancelReturns, vars
  <2> QED
      BY <1>2, <2>1
<1>14. CASE EventArrives
  <2>1. /\ events # <<>> /\ events' = Tail(events)
        /\ UNCHANGED <<told, startCall, currentJobId, isStarting, fresh>>
      BY <1>14, Handled DEF vars
  <2>2. SUFFICES ASSUME fresh, NEW j \in Jobs
                 PROVE  /\ startCall = j => Coming(j, Kept(j))'
                        /\ ~isStarting /\ currentJobId = j => Coming(j, Shown(j))'
      BY <2>1 DEF Follows
  <2>3. /\ LastIs(events, j, told[j]) =>
             \/ LastIs(events', j, told[j])
             \/ events[1] = Event(j, told[j]) /\ NoneOf(events', j)
        /\ NoneOf(events, j) => events[1].jobId # j /\ NoneOf(events', j)
      BY <1>1, <2>1, LastTailed
  <2>4. ASSUME startCall = j PROVE Coming(j, Kept(j))'
    <3>1. isStarting /\ currentJobId = NoJob /\ Coming(j, Kept(j))
        BY <2>2, <2>4, JobsAssumption DEF Calls, Follows
    <3>2. PICK e \in Reported : e = events[1] /\ pendingEvents' = Append(pendingEvents, e)
        BY <1>14, <3>1, Handled
    <3>3. CASE LastIs(events', j, told[j])
        BY <2>1, <3>3 DEF Coming
    <3>4. CASE events[1] = Event(j, told[j]) /\ NoneOf(events', j)
      <4>1. LastIs(pendingEvents', j, told[j])
          BY <1>1, <3>2, <3>4, LastAppended
      <4> QED
          BY <2>1, <3>4, <4>1 DEF Coming, Kept
    <3>5. CASE NoneOf(events, j) /\ Kept(j)
      <4>1. e.jobId # j /\ NoneOf(events', j)
          BY <2>3, <3>2, <3>5
      <4>2. /\ LastIs(pendingEvents, j, told[j]) => LastIs(pendingEvents', j, told[j])
            /\ NoneOf(pendingEvents, j) => NoneOf(pendingEvents', j)
          BY <1>1, <3>2, <4>1, LastAppended
      <4> QED
          BY <2>1, <3>5, <4>1, <4>2 DEF Coming, Kept
    <3> QED
        BY <2>3, <3>1, <3>3, <3>4, <3>5 DEF Coming
  <2>5. ASSUME ~isStarting, currentJobId = j PROVE Coming(j, Shown(j))'
    <3>1. Coming(j, Shown(j))
        BY <2>2, <2>5 DEF Follows
    <3>2. IF events[1].jobId = j THEN view' = events[1].message ELSE view' = view
        BY <1>14, <2>5, Handled
    <3>3. CASE LastIs(events', j, told[j])
        BY <2>1, <3>3 DEF Coming
    <3>4. CASE events[1] = Event(j, told[j]) /\ NoneOf(events', j)
      <4>1. view' = told[j]
          BY <3>2, <3>4 DEF Event
      <4> QED
          BY <2>1, <3>4, <4>1 DEF Coming, Shown
    <3>5. CASE NoneOf(events, j) /\ Shown(j)
        BY <2>1, <2>3, <3>2, <3>5 DEF Coming, Shown
    <3> QED
        BY <2>3, <3>1, <3>3, <3>4, <3>5 DEF Coming
  <2> QED
      BY <2>4, <2>5
<1>15. CASE UNCHANGED allVars
  <2>1. UNCHANGED <<events, told, startCall, currentJobId, view, isStarting,
                    pendingEvents, fresh>>
      BY <1>15 DEF allVars, vars
  <2> QED
      BY <1>2, <2>1
<1> QED
    BY <1>3, <1>4, <1>5, <1>6, <1>7, <1>8, <1>9, <1>10, <1>11, <1>12, <1>13, <1>14, <1>15
    DEF StoreNext, Service, User, Arrive

(* The store starts empty.                                                 *)
LEMMA StoreStart == StoreInit => IInv /\ SInv
<1> SUFFICES ASSUME StoreInit PROVE IInv /\ SInv
    OBVIOUS
<1>1. IInv
    BY InitIInv DEF StoreInit
<1>2. StoreTypeOK
  <2>1. /\ events = <<>> /\ startCall = "none" /\ cancelCall = NoCancel
        /\ currentJobId = NoJob /\ view = "null" /\ pendingEvents = <<>>
      BY DEF StoreInit
  <2>2. isStarting \in BOOLEAN /\ isCancelling \in BOOLEAN /\ fresh \in BOOLEAN
      BY DEF StoreInit
  <2> QED
      BY <2>1, <2>2 DEF StoreTypeOK, NoCancel
<1>3. Honest(events) /\ Honest(pendingEvents)
    BY DEF StoreInit, Honest
<1>4. ViewTellsTheTruth
    BY DEF StoreInit, ViewTellsTheTruth, Endings
<1>5. Calls /\ Follows
    BY DEF StoreInit, Calls, Follows
<1> QED
    BY <1>1, <1>2, <1>3, <1>4, <1>5 DEF SInv

(* Both invariants hold of every state of every behaviour.                 *)
LEMMA StoreInvariance == StoreSpec => [](IInv /\ SInv)
<1>1. IInv /\ SInv /\ [StoreNext]_allVars => (IInv /\ SInv)'
  <2> SUFFICES ASSUME IInv, SInv, [StoreNext]_allVars PROVE IInv' /\ SInv'
      OBVIOUS
  <2>1. IInv'
      BY Composed, StepIInv
  <2>2. /\ StoreTypeOK /\ Honest(events) /\ Honest(pendingEvents)
        /\ ViewTellsTheTruth /\ Calls /\ Follows
      BY DEF SInv
  <2>3. StoreTypeOK' /\ Calls'
      BY <2>2, StepStoreType, StepCalls
  <2>4. Honest(events)' /\ Honest(pendingEvents)'
      BY <2>2, StepHonest
  <2>5. ViewTellsTheTruth' /\ Follows'
      BY <2>2, StepTruth, StepFollows
  <2> QED
      BY <2>1, <2>3, <2>4, <2>5 DEF SInv
<1> QED
    BY StoreStart, <1>1, PTL DEF StoreSpec

(* The store's variables keep their types, for any set of jobs.            *)
THEOREM StoreTypeCorrect == StoreSpec => []StoreTypeOK
BY StoreInvariance, PTL DEF SInv

(* ViewTellsTheTruth (job.ts): whatever answers and events of whichever    *)
(* jobs cross, a finished view shows how the current job really ended.     *)
THEOREM ViewIsTrue == StoreSpec => []ViewTellsTheTruth
BY StoreInvariance, PTL DEF SInv

(* FreshStartSeesItsEnd (job.ts:28, 198): a start that finds no earlier    *)
(* job's ID in the store misses nothing of its job.                        *)
THEOREM FreshStartsMissNothing == StoreSpec => []FreshStartSeesItsEnd
<1>1. SInv => FreshStartSeesItsEnd
  <2> SUFFICES ASSUME SInv, fresh, NEW j \in Jobs, currentJobId = j, ~isStarting,
                      told[j] \in Endings, ~InTransit(j)
               PROVE  view \in {told[j], "null"}
      BY DEF FreshStartSeesItsEnd, CaughtUp
  <2>1. Coming(j, Shown(j))
      BY DEF SInv, Follows
  <2>2. ~LastIs(events, j, told[j])
      BY DEF InTransit, LastIs, Event
  <2> QED
      BY <2>1, <2>2 DEF Coming, Shown, Endings
<1> QED
    BY <1>1, StoreInvariance, PTL
=============================================================================
