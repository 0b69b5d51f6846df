------------------------------ MODULE PrivClient ------------------------------
(***************************************************************************)
(* The app's end of the helper connection, after internal/priv/client.go,  *)
(* internal/priv/keepalive.go and, at the far end of two FIFO wires, what  *)
(* internal/helper/server.go does with each request (HelperSession has the *)
(* server in full).                                                        *)
(*                                                                         *)
(* Two goroutines call Client.do: the job, which runs one privileged       *)
(* operation after another and may have its context cancelled, and the     *)
(* keepalive, which pings with a timeout.  One read loop hands responses   *)
(* over through a channel per call.  The session starts after the first    *)
(* ping succeeded.                                                         *)
(*                                                                         *)
(* An operator that stands just before a definition and takes its name     *)
(* with a suffix is a faulty variant, used only to try the properties.     *)
(***************************************************************************)
EXTENDS Integers, Sequences, FiniteSets

CONSTANTS
    MaxOps,      \* operations the job performs (bound)
    MaxPings,    \* pings the keepalive sends (bound)
    MaxProgress, \* progress messages of one operation (bound)
    ChanCap      \* buffer of a call's channel: 64 in the code

ASSUME BoundsAssumption ==
    MaxOps \in Nat /\ MaxPings \in Nat /\ MaxProgress \in Nat /\ ChanCap \in Nat \ {0}

VARIABLES
    nextID,    \* Client.nextID
    kind,      \* what each ID was used for
    pc, cur,   \* where each caller is in do, and the ID of its call
    ended,     \* calls whose context has ended
    asked,     \* calls that went through the ctxDone branch of do
    outcome,   \* how each call returned
    pending,   \* keys of Client.pending
    chan,      \* the buffer of each call's channel
    chClosed,  \* calls whose channel fail closed
    readErr,   \* Client.readErr # nil
    conn,      \* the client's end is open
    loop,      \* the read loop: reading, delivering a response, or done
    toHelper, toClient, \* the connection
    hup,       \* the helper's end is open
    inflight,  \* session.inflight
    owed,      \* the answer the session's own loop is about to write
    cleared,   \* an op that cleared inflight and is about to write its answer
    hcancelled,\* ops the helper cancelled on request
    answered,  \* calls whose final response the helper has written
    emitted    \* progress messages written per op

callVars == <<nextID, kind, pc, cur, ended, asked, outcome>>
sharedVars == <<pending, chan, chClosed, readErr>>
helperVars == <<hup, inflight, owed, cleared, hcancelled, answered, emitted>>
vars == <<callVars, sharedVars, conn, loop, toHelper, toClient, helperVars>>

Callers == {"job", "keepalive"}
(* every call may need a cancel with an ID of its own *)
Ids == 1 .. 2 * (MaxOps + MaxPings)
None == 0
Resp(i, t) == [id |-> i, type |-> t]
NoResp == Resp(None, "result")
Reading == [at |-> "read", msg |-> NoResp]
Done == [at |-> "done", msg |-> NoResp]
Deliver(m) == [at |-> "deliver", msg |-> m]

Init ==
    /\ nextID = 0 /\ kind = [i \in Ids |-> "none"]
    /\ pc = [w \in Callers |-> "idle"] /\ cur = [w \in Callers |-> None]
    /\ ended = {} /\ asked = {} /\ outcome = [i \in Ids |-> "none"]
    /\ pending = {} /\ chan = [i \in Ids |-> <<>>] /\ chClosed = {}
    /\ readErr = FALSE /\ conn = TRUE /\ loop = Reading
    /\ toHelper = <<>> /\ toClient = <<>>
    /\ hup = TRUE /\ inflight = None /\ owed = NoResp /\ cleared = None
    /\ hcancelled = {} /\ answered = {} /\ emitted = [i \in Ids |-> 0]

-----------------------------------------------------------------------------
(* A caller in do.                                                         *)

KindOf(w) == IF w = "job" THEN "op" ELSE "ping"
Used(k) == Cardinality({i \in Ids : kind[i] = k})
CanCall(w) == IF w = "job" THEN Used("op") < MaxOps ELSE Used("ping") < MaxPings

(* Return from do: the deferred delete, and the keepalive's first failed   *)
(* ping ends it.                                                           *)
ReturnFrom(w, res) ==
    /\ outcome' = [outcome EXCEPT ![cur[w]] = res]
    /\ pending' = pending \ {cur[w]}
    /\ pc' = [pc EXCEPT ![w] = IF w = "keepalive" /\ res # "ok" THEN "stopped" ELSE "idle"]

(* Take an ID, register the channel unless the connection is known lost.   *)
Call(w) ==
    LET i == nextID + 1 IN
    /\ pc[w] = "idle" /\ CanCall(w)
    /\ nextID' = i
    /\ kind' = [kind EXCEPT ![i] = KindOf(w)]
    /\ cur' = [cur EXCEPT ![w] = i]
    /\ \/ /\ readErr
          /\ outcome' = [outcome EXCEPT ![i] = "connLost"]
          /\ pc' = [pc EXCEPT ![w] = IF w = "keepalive" THEN "stopped" ELSE "idle"]
          /\ UNCHANGED pending
       \/ /\ ~readErr
          /\ pending' = pending \cup {i}
          /\ pc' = [pc EXCEPT ![w] = "send"]
          /\ UNCHANGED outcome
    /\ UNCHANGED <<ended, asked, chan, chClosed, readErr, conn, loop, toHelper,
                   toClient, helperVars>>

CanSend == conn /\ hup

Send(w) ==
    /\ pc[w] = "send"
    /\ IF CanSend
       THEN /\ toHelper' = Append(toHelper, [id |-> cur[w], kind |-> kind[cur[w]]])
            /\ pc' = [pc EXCEPT ![w] = "select"]
       ELSE /\ pc' = [pc EXCEPT ![w] = "sendFailed"]
            /\ UNCHANGED toHelper
    /\ UNCHANGED <<nextID, kind, cur, ended, asked, outcome, sharedVars, conn,
                   loop, toClient, helperVars>>

(* The write failed: wait for the read loop, one second at most, then      *)
(* report the loss either way.                                             *)
SendFailed(w) ==
    /\ pc[w] = "sendFailed"
    /\ ReturnFrom(w, "connLost")
    /\ UNCHANGED <<nextID, kind, cur, ended, asked, chan, chClosed, readErr,
                   conn, loop, toHelper, toClient, helperVars>>

(* A response is received: progress is forwarded, anything else ends do.   *)
Receive(w) ==
    LET i == cur[w] IN
    /\ pc[w] = "select" /\ chan[i] # <<>>
    /\ chan' = [chan EXCEPT ![i] = Tail(@)]
    /\ \/ /\ Head(chan[i]).type = "progress"
          /\ UNCHANGED <<outcome, pending, pc>>
       \/ /\ Head(chan[i]).type = "result"
          /\ ReturnFrom(w, "ok")
       \/ /\ Head(chan[i]).type \in {"error", "busy", "cancelled"}
          /\ ReturnFrom(w, IF i \in asked /\ Head(chan[i]).type = "cancelled"
                           THEN "ctxErr" ELSE "error")
    /\ UNCHANGED <<nextID, kind, cur, ended, asked, chClosed, readErr, conn,
                   loop, toHelper, toClient, helperVars>>

(* A closed channel is drained before its close is seen.                   *)
NoticeLoss(w, drained) ==
    /\ pc[w] = "select" /\ drained /\ cur[w] \in chClosed
    /\ ReturnFrom(w, "connLost")
    /\ UNCHANGED <<nextID, kind, cur, ended, asked, chan, chClosed, readErr,
                   conn, loop, toHelper, toClient, helperVars>>
ConnLostEarly(w) == NoticeLoss(w, TRUE)
ConnLost(w) == NoticeLoss(w, chan[cur[w]] = <<>>)

(* The <-ctxDone branch for an op: ask the helper to cancel, keep waiting. *)
SendCancelFor(w) ==
    LET i == cur[w]
        n == nextID + 1 IN
    /\ pc[w] = "select" /\ i \in ended \ asked
    /\ nextID' = n /\ kind' = [kind EXCEPT ![n] = "cancel"]
    /\ asked' = asked \cup {i}
    /\ toHelper' = IF CanSend THEN Append(toHelper, [id |-> n, kind |-> "cancel"])
                   ELSE toHelper
    /\ UNCHANGED <<pc, cur, ended, outcome, sharedVars, conn, loop, toClient,
                   helperVars>>

(* The same branch for a ping: just leave.                                 *)
LeavePing(w) ==
    /\ pc[w] = "select" /\ kind[cur[w]] = "ping" /\ cur[w] \in ended
    /\ ReturnFrom(w, "ctxErr")
    /\ UNCHANGED <<nextID, kind, cur, ended, asked, chan, chClosed, readErr,
                   conn, loop, toHelper, toClient, helperVars>>

ContextBranchSendsAlways(w) == SendCancelFor(w)
ContextBranchLeavesOp(w) ==
    /\ pc[w] = "select" /\ cur[w] \in ended
    /\ ReturnFrom(w, "ctxErr")
    /\ UNCHANGED <<nextID, kind, cur, ended, asked, chan, chClosed, readErr,
                   conn, loop, toHelper, toClient, helperVars>>
ContextBranch(w) ==
    \/ w = "job" /\ SendCancelFor(w)
    \/ LeavePing(w)

(* The <-grace branch: close the connection, then wait for the read loop.  *)
GraceBranch(w) ==
    /\ pc[w] = "select" /\ cur[w] \in asked
    /\ conn' = FALSE
    /\ pc' = [pc EXCEPT ![w] = "graceWait"]
    /\ UNCHANGED <<nextID, kind, cur, ended, asked, outcome, sharedVars, loop,
                   toHelper, toClient, helperVars>>

GraceReturn(w) ==
    /\ pc[w] = "graceWait" /\ loop = Done
    /\ ReturnFrom(w, "grace")
    /\ UNCHANGED <<nextID, kind, cur, ended, asked, chan, chClosed, readErr,
                   conn, loop, toHelper, toClient, helperVars>>

Do(w) == \/ Send(w) \/ SendFailed(w) \/ Receive(w) \/ ConnLost(w)
         \/ ContextBranch(w) \/ GraceReturn(w)

(* The context of a running call ends: a cancelled job, a ping's timeout.  *)
ContextEnds(w) ==
    /\ pc[w] \in {"send", "select"} /\ cur[w] \notin ended
    /\ ended' = ended \cup {cur[w]}
    /\ UNCHANGED <<nextID, kind, pc, cur, asked, outcome, sharedVars, conn, loop,
                   toHelper, toClient, helperVars>>

(* Client.Close, called by the service when it drops the client.           *)
Close ==
    /\ conn
    /\ conn' = FALSE
    /\ UNCHANGED <<callVars, sharedVars, loop, toHelper, toClient, helperVars>>

-----------------------------------------------------------------------------
(* The read loop.                                                          *)

(* A line (perhaps one already buffered when this end was closed): look    *)
(* the call up; an answer nobody waits for is dropped.                     *)
ReadLine ==
    /\ loop.at = "read" /\ toClient # <<>>
    /\ toClient' = Tail(toClient)
    /\ loop' = IF Head(toClient).id \in pending THEN Deliver(Head(toClient)) ELSE loop
    /\ UNCHANGED <<callVars, sharedVars, conn, toHelper, helperVars>>

(* ch <- resp, without any lock: blocks while the buffer is full.          *)
PutInChannel ==
    LET i == loop.msg.id IN
    /\ loop.at = "deliver" /\ Len(chan[i]) < ChanCap
    /\ chan' = [chan EXCEPT ![i] = Append(@, loop.msg)]
    /\ loop' = Reading
    /\ UNCHANGED <<callVars, pending, chClosed, readErr, conn, toHelper,
                   toClient, helperVars>>

(* The read fails: fail closes every pending channel, the loop ends.       *)
FailWaking(woken) ==
    /\ loop.at = "read" /\ (~conn \/ (~hup /\ toClient = <<>>))
    /\ readErr' = TRUE
    /\ chClosed' = chClosed \cup woken
    /\ pending' = {}
    /\ loop' = Done
    /\ UNCHANGED <<callVars, chan, conn, toHelper, toClient, helperVars>>
FailWakesOne == \E i \in pending : FailWaking({i})
Fail == FailWaking(pending)

-----------------------------------------------------------------------------
(* The helper.                                                             *)

(* The session reads a request: a ping or a cancel is answered, an op      *)
(* starts, or is refused while another is in flight.                       *)
HelperTake ==
    LET r == Head(toHelper)
        Owe(t) == owed' = Resp(r.id, t)
    IN
    /\ hup /\ owed = NoResp /\ toHelper # <<>>
    /\ toHelper' = Tail(toHelper)
    /\ \/ /\ r.kind = "ping" /\ Owe("result")
          /\ UNCHANGED <<inflight, hcancelled>>
       \/ /\ r.kind = "cancel" /\ Owe("result")
          /\ hcancelled' = hcancelled \cup ({inflight} \ {None})
          /\ UNCHANGED inflight
       \/ /\ r.kind = "op" /\ inflight # None /\ Owe("busy")
          /\ UNCHANGED <<inflight, hcancelled>>
       \/ /\ r.kind = "op" /\ inflight = None
          /\ inflight' = r.id
          /\ UNCHANGED <<owed, hcancelled>>
    /\ UNCHANGED <<callVars, sharedVars, conn, loop, toClient, hup, cleared,
                   answered, emitted>>

(* Every write waits while a finishing op holds the write lock.            *)
Write(m) == toClient' = IF hup /\ conn THEN Append(toClient, m) ELSE toClient
Answer(i, m) ==
    /\ Write(m)
    /\ answered' = IF hup /\ conn THEN answered \cup {i} ELSE answered

HelperAnswer ==
    /\ owed # NoResp /\ cleared = None
    /\ Answer(owed.id, owed)
    /\ owed' = NoResp
    /\ UNCHANGED <<callVars, sharedVars, conn, loop, toHelper, hup, inflight,
                   cleared, hcancelled, emitted>>

HelperProgress ==
    /\ inflight # None /\ cleared = None /\ emitted[inflight] < MaxProgress
    /\ emitted' = [emitted EXCEPT ![inflight] = @ + 1]
    /\ Write(Resp(inflight, "progress"))
    /\ UNCHANGED <<callVars, sharedVars, conn, loop, toHelper, hup, inflight,
                   owed, cleared, hcancelled, answered>>

(* An op ends: inflight is cleared under the write lock, then the answer   *)
(* is written and the lock released.                                       *)
HelperClear ==
    /\ inflight # None /\ cleared = None
    /\ cleared' = inflight /\ inflight' = None
    /\ UNCHANGED <<callVars, sharedVars, conn, loop, toHelper, toClient, hup,
                   owed, hcancelled, answered, emitted>>

Final(i) == {"result", "error"} \cup (IF i \in hcancelled THEN {"cancelled"} ELSE {})

HelperRespond ==
    /\ cleared # None
    /\ \E t \in Final(cleared) : Answer(cleared, Resp(cleared, t))
    /\ cleared' = None
    /\ UNCHANGED <<callVars, sharedVars, conn, loop, toHelper, hup, inflight,
                   owed, hcancelled, emitted>>

HelperFinish == HelperClear \/ HelperRespond

(* The helper hangs up: it went idle, was told to stop, or died.           *)
HelperHangsUp ==
    /\ hup
    /\ hup' = FALSE
    /\ toHelper' = <<>>
    /\ UNCHANGED <<callVars, sharedVars, conn, loop, toClient, inflight,
                   owed, cleared, hcancelled, answered, emitted>>

-----------------------------------------------------------------------------
ReadLoop == ReadLine \/ PutInChannel \/ Fail
Helper == HelperTake \/ HelperAnswer \/ HelperProgress \/ HelperFinish \/ HelperHangsUp

Next ==
    \/ \E w \in Callers : Call(w) \/ Do(w) \/ GraceBranch(w) \/ ContextEnds(w)
    \/ Close \/ ReadLoop \/ Helper

Spec == Init /\ [][Next]_vars

(* Both goroutines and the read loop run, and the grace timer fires.  The  *)
(* helper need not do anything: it may hang for good.                      *)
Fairness ==
    /\ \A w \in Callers : WF_vars(Do(w)) /\ WF_vars(GraceBranch(w))
    /\ WF_vars(ReadLoop)
FairSpec == Spec /\ Fairness
-----------------------------------------------------------------------------
(* Properties.                                                             *)

(* A cancel line names no op, yet it never aborts any but the one whose    *)
(* caller gave up: not the next op of the job, and no op because a ping of *)
(* the keepalive timed out (client.go:166-170).                            *)
CancelHitsItsOwnCall == hcancelled \subseteq ended

(* do never hands a call back to the caller while the helper still works   *)
(* on it or has yet to start it, unless the connection is gone             *)
(* (client.go:104-106); so the helper's turn is free for the job's next    *)
(* op, which is never answered busy (server.go:329-330).                   *)
Queued(i) == \E k \in 1 .. Len(toHelper) : toHelper[k].id = i
NoReturnWhileHelperWorks ==
    \A i \in Ids : kind[i] = "op" /\ outcome[i] \notin {"none", "connLost", "grace"}
                       => inflight # i /\ cleared # i /\ ~Queued(i)
NeverBusy == \A i \in Ids : \A k \in 1 .. Len(chan[i]) : chan[i][k].type # "busy"
TurnIsFreeOnReturn == NoReturnWhileHelperWorks /\ NeverBusy

(* An answer the helper gave before the connection was lost still reaches  *)
(* its caller: a finished op is not reported as lost.                      *)
AnswerSurvivesLoss ==
    conn => \A i \in Ids : outcome[i] = "connLost" => i \notin answered

(* When the connection goes, whoever waits in do is woken, whenever it     *)
(* registered, and later calls return at once; and a cancelled operation   *)
(* hands control back, at the latest when the grace period is over, even   *)
(* if the helper never answers.                                            *)
LossWakesCallers == (~hup \/ ~conn) ~> \A w \in Callers : pc[w] \in {"idle", "stopped"}
CancelledCallReturns ==
    \A w \in Callers : (pc[w] = "select" /\ cur[w] \in ended) ~> pc[w] \in {"idle", "stopped"}
CallersComeBack == LossWakesCallers /\ CancelledCallReturns

(* The claim of client.go:178-179: after the grace period closing the      *)
(* connection ends the read loop, so do returns.                           *)
GraceEndsReadLoop == \A w \in Callers : pc[w] = "graceWait" ~> loop = Done
=============================================================================
