---------------------------- MODULE HelperSession ----------------------------
(***************************************************************************)
(* One authenticated session of the privileged helper, after               *)
(* internal/helper/server.go: the read loop (session.serve and handle), at *)
(* most one operation goroutine per accepted request, the idle timer and   *)
(* its callback, the context's AfterFunc, the two locks wmu and mu, and a  *)
(* peer that sends any request in any order, reads when it likes and       *)
(* leaves when it likes.                                                   *)
(*                                                                         *)
(* mu is only ever held for one short critical section, so each section is *)
(* one action.  wmu is held across blocking writes and is a variable.      *)
(* What an operation does to the disk is left to its outcome.              *)
(*                                                                         *)
(* An operator that stands just before a definition and takes its name     *)
(* with a suffix (HandleOpLeavesTimer, ...) is a faulty variant: no action *)
(* uses it, it is there to show that a property notices the fault.         *)
(***************************************************************************)
EXTENDS Integers, Sequences, FiniteSets

CONSTANTS
    MaxReq,     \* how many requests the peer may send (bound)
    WireCap,    \* responses the socket holds before a write blocks (bound)
    Requests    \* what the peer may send: a set of [kind, fd] records

Kinds == {"ping", "badPing", "cancel", "write_image", "op", "garbled", "tooLong"}

ASSUME MaxReqAssumption == MaxReq \in Nat \ {0}
ASSUME WireCapAssumption == WireCap \in Nat \ {0}
ASSUME RequestsAssumption == Requests \subseteq [kind : Kinds, fd : BOOLEAN]

VARIABLES
    sent,       \* number of requests sent: a request's number is its ID
    peerGone,   \* the peer has closed its end
    wire,       \* requests in the socket
    buf,        \* request lines the lineReader has received but not returned
    out,        \* every response written, in order
    taken,      \* how many of them the peer has read
    conn,       \* the helper's end is open
    rpc,        \* where the read loop stands
    req,        \* the request it handles
    ans,        \* the answer it is about to write
    closing,    \* handle's closeConn, or the malformed-request break
    handshake,  \* session.handshake
    inflight,   \* the op session.inflight cancels, None if it is nil
    opst,       \* state of each op's goroutine
    resp,       \* the response an op has computed
    cancelled,  \* ops whose own context a cancel request ended
    wmu,        \* holder of the write lock
    idle,       \* the idle timer is running
    idleCb,     \* how far the timer's callback has got
    idleFired,  \* session.idleFired
    fds,        \* requests whose descriptor the helper holds open
    parentDone, \* serve's parent context is cancelled
    ctxDone,    \* the session's own context is cancelled
    readErr,    \* a read failed with an error serve reports
    result      \* what serve returned

peerVars == <<sent, peerGone, wire, taken>>
loopVars == <<buf, rpc, req, ans, closing, handshake, readErr, result>>
opVars == <<opst, resp>>
idleVars == <<idle, idleCb, idleFired>>
ctxVars == <<parentDone, ctxDone>>
vars == <<sent, peerGone, wire, buf, out, taken, conn, rpc, req, ans, closing,
          handshake, inflight, opst, resp, cancelled, wmu, idle, idleCb,
          idleFired, fds, parentDone, ctxDone, readErr, result>>

Ids == 1 .. MaxReq
None == 0
ReadLoop == -1
Request == [id : Ids, kind : Kinds, fd : BOOLEAN]
Response == [id : Ids \cup {None}, type : {"progress", "result", "error"}]
Result(i) == [id |-> i, type |-> "result"]
Error(i) == [id |-> i, type |-> "error"]
Progress(i) == [id |-> i, type |-> "progress"]

NoRequest == [id |-> None, kind |-> "ping", fd |-> FALSE]

(* Between being accepted and clearing inflight.                           *)
Running(i) == opst[i] \in {"running", "emitting", "finishing"}
OpCancelledBySessionOnly(i) == ctxDone
(* opCtx.Err() # nil: its own cancel or that of the context it derives from *)
OpCancelled(i) == i \in cancelled \/ ctxDone

(* A write reaches the wire if both ends are open and there is room; it    *)
(* fails at once when either end is closed; otherwise it blocks.           *)
Broken == ~conn \/ peerGone
HasRoom == Len(out) - taken < WireCap
CanWrite == Broken \/ HasRoom
Written(r) == out' = IF Broken THEN out ELSE Append(out, r)

Init ==
    /\ sent = 0 /\ peerGone = FALSE /\ wire = <<>> /\ buf = <<>>
    /\ out = <<>> /\ taken = 0 /\ conn = TRUE
    /\ rpc = "read" /\ req = NoRequest /\ ans = Error(None) /\ closing = FALSE
    /\ handshake = FALSE /\ inflight = None
    /\ opst = [i \in Ids |-> "none"] /\ resp = [i \in Ids |-> Error(i)]
    /\ cancelled = {} /\ wmu = None
    /\ idle = TRUE /\ idleCb = "none" /\ idleFired = FALSE
    /\ fds = {} /\ parentDone = FALSE /\ ctxDone = FALSE
    /\ readErr = FALSE /\ result = "none"

-----------------------------------------------------------------------------
(* The peer and the world around the session.                              *)

PeerSend ==
    /\ ~peerGone /\ conn /\ sent < MaxReq
    /\ \E r \in Requests :
         wire' = Append(wire, [id |-> sent + 1, kind |-> r.kind, fd |-> r.fd])
    /\ sent' = sent + 1
    /\ UNCHANGED <<peerGone, taken, loopVars, opVars, idleVars, ctxVars, out,
                   conn, inflight, cancelled, wmu, fds>>

PeerRead ==
    /\ ~peerGone /\ taken < Len(out)
    /\ taken' = taken + 1
    /\ UNCHANGED <<sent, peerGone, wire, loopVars, opVars, idleVars, ctxVars,
                   out, conn, inflight, cancelled, wmu, fds>>

PeerClose ==
    /\ ~peerGone
    /\ peerGone' = TRUE
    /\ UNCHANGED <<sent, wire, taken, loopVars, opVars, idleVars, ctxVars, out,
                   conn, inflight, cancelled, wmu, fds>>

(* The server is told to stop: every context derived from ctx ends with it. *)
ParentCancel ==
    /\ ~parentDone /\ rpc # "returned"
    /\ parentDone' = TRUE /\ ctxDone' = TRUE
    /\ UNCHANGED <<peerVars, loopVars, opVars, idleVars, out, conn, inflight,
                   cancelled, wmu, fds>>

(* context.AfterFunc(ctx, conn.Close): runs some time after ctx ends.       *)
AfterFuncClose ==
    /\ ctxDone /\ conn
    /\ conn' = FALSE
    /\ UNCHANGED <<peerVars, loopVars, opVars, idleVars, ctxVars, out,
                   inflight, cancelled, wmu, fds>>

-----------------------------------------------------------------------------
(* The idle timer: it expires, its callback stores idleFired, then closes. *)

IdleExpire ==
    /\ idle /\ idleCb = "none"
    /\ idle' = FALSE /\ idleCb' = "started"
    /\ UNCHANGED <<peerVars, loopVars, opVars, ctxVars, idleFired, out, conn,
                   inflight, cancelled, wmu, fds>>

IdleStore ==
    /\ idleCb = "started"
    /\ idleFired' = TRUE /\ idleCb' = "stored"
    /\ UNCHANGED <<peerVars, loopVars, opVars, ctxVars, idle, out, conn,
                   inflight, cancelled, wmu, fds>>

IdleClose ==
    /\ idleCb = "stored"
    /\ conn' = FALSE /\ idleCb' = "none"
    /\ UNCHANGED <<peerVars, loopVars, opVars, ctxVars, idle, idleFired, out,
                   inflight, cancelled, wmu, fds>>

-----------------------------------------------------------------------------
(* The read loop: serve and handle.                                        *)

(* The lineReader needs more bytes: one read returns some of what the      *)
(* socket holds, possibly several lines.                                   *)
Receive ==
    /\ rpc = "read" /\ buf = <<>> /\ conn /\ wire # <<>>
    /\ \E n \in 1 .. Len(wire) :
         /\ buf' = SubSeq(wire, 1, n)
         /\ wire' = SubSeq(wire, n + 1, Len(wire))
    /\ UNCHANGED <<sent, peerGone, taken, rpc, req, ans, closing, handshake,
                   readErr, result, opVars, idleVars, ctxVars, out, conn,
                   inflight, cancelled, wmu, fds>>

(* rd.next() returns the next whole line (even of a connection closed      *)
(* meanwhile), and the loop stops the idle timer.                          *)
ReadRequest ==
    /\ rpc = "read" /\ buf # <<>> /\ Head(buf).kind # "tooLong"
    /\ req' = Head(buf) /\ buf' = Tail(buf)
    /\ fds' = IF Head(buf).fd THEN fds \cup {Head(buf).id} ELSE fds
    /\ idle' = FALSE
    /\ rpc' = "handle"
    /\ UNCHANGED <<peerVars, ans, closing, handshake, readErr, result, opVars,
                   idleCb, idleFired, ctxVars, out, conn, inflight, cancelled,
                   wmu>>

(* rd.next() fails: EOF once the peer is gone and everything is read (or a *)
(* reset, if it left something unread), net.ErrClosed once this end is     *)
(* closed, or a line over the limit.                                       *)
ReadFails ==
    /\ rpc = "read"
    /\ \/ buf = <<>> /\ ~conn /\ UNCHANGED readErr
       \/ buf = <<>> /\ peerGone /\ wire = <<>> /\ readErr' \in {FALSE, taken < Len(out)}
       \/ buf # <<>> /\ Head(buf).kind = "tooLong" /\ readErr' = TRUE
    /\ rpc' = "close"
    /\ UNCHANGED <<peerVars, buf, req, ans, closing, handshake, result, opVars,
                   idleVars, ctxVars, out, conn, inflight, cancelled, wmu, fds>>

(* Leave the handler with an answer to write.  A descriptor sent with      *)
(* anything but write_image is closed on entry; write_image's own is       *)
(* closed by a defer, after the answer.                                    *)
AnswerWith(r, close) ==
    /\ ans' = r /\ closing' = close /\ rpc' = "lock"
    /\ fds' = IF req.kind = "write_image" THEN fds ELSE fds \ {req.id}

HandleGarbled ==
    /\ rpc = "handle" /\ req.kind = "garbled"
    /\ AnswerWith(Error(None), TRUE)
    /\ UNCHANGED <<peerVars, buf, req, handshake, readErr, result, opVars,
                   idleVars, ctxVars, out, conn, inflight, cancelled, wmu>>

HandlePing ==
    /\ rpc = "handle"
    /\ \/ /\ req.kind = "badPing"
          /\ AnswerWith(Error(req.id), TRUE)
          /\ UNCHANGED handshake
       \/ /\ req.kind = "ping"
          /\ handshake' = TRUE
          /\ AnswerWith(Result(req.id), FALSE)
    /\ UNCHANGED <<peerVars, buf, req, readErr, result, opVars, idleVars,
                   ctxVars, out, conn, inflight, cancelled, wmu>>

(* ping must come first. *)
HandleNotReady ==
    /\ rpc = "handle" /\ req.kind \in {"cancel", "op", "write_image"}
    /\ ~handshake
    /\ AnswerWith(Error(req.id), TRUE)
    /\ UNCHANGED <<peerVars, buf, req, handshake, readErr, result, opVars,
                   idleVars, ctxVars, out, conn, inflight, cancelled, wmu>>

CancelOps(ops) ==
    /\ rpc = "handle" /\ req.kind = "cancel" /\ handshake
    /\ cancelled' = cancelled \cup ops
    /\ AnswerWith(Result(req.id), FALSE)
    /\ UNCHANGED <<peerVars, buf, req, handshake, readErr, result, opVars,
                   idleVars, ctxVars, out, conn, inflight, wmu>>
HandleCancel == CancelOps({inflight} \ {None})

HandleBusy ==
    /\ rpc = "handle" /\ req.kind \in {"op", "write_image"} /\ handshake
    /\ inflight # None
    /\ AnswerWith(Error(req.id), FALSE)
    /\ UNCHANGED <<peerVars, buf, req, handshake, readErr, result, opVars,
                   idleVars, ctxVars, out, conn, inflight, cancelled, wmu>>

(* The op is accepted: inflight and the timer change under one lock.       *)
AcceptOp(timer) ==
    /\ rpc = "handle" /\ req.kind \in {"op", "write_image"} /\ handshake
    /\ inflight' = req.id
    /\ idle' = timer
    /\ opst' = [opst EXCEPT ![req.id] = "running"]
    /\ fds' = IF req.kind = "write_image" THEN fds ELSE fds \ {req.id}
    /\ rpc' = "arm"
    /\ UNCHANGED <<peerVars, buf, req, ans, closing, handshake, readErr, result,
                   resp, idleCb, idleFired, ctxVars, out, conn, cancelled, wmu>>
HandleOpLeavesTimer == inflight = None /\ AcceptOp(idle)
HandleOpWhileBusy == AcceptOp(FALSE)
HandleOp == inflight = None /\ AcceptOp(FALSE)

(* write: take wmu, then write the line; the connection may block it.      *)
LockAnswer ==
    /\ rpc = "lock" /\ wmu = None
    /\ wmu' = ReadLoop
    /\ rpc' = "write"
    /\ UNCHANGED <<peerVars, buf, req, ans, closing, handshake, readErr, result,
                   opVars, idleVars, ctxVars, out, conn, inflight, cancelled, fds>>

WriteAnswer ==
    /\ rpc = "write" /\ CanWrite
    /\ Written(ans)
    /\ wmu' = None
    /\ fds' = fds \ {req.id}
    /\ rpc' = IF closing THEN "close" ELSE "arm"
    /\ UNCHANGED <<peerVars, buf, req, ans, closing, handshake, readErr, result,
                   opVars, idleVars, ctxVars, conn, inflight, cancelled>>

ArmIdle ==
    /\ rpc = "arm"
    /\ idle' = (idle \/ inflight = None)
    /\ rpc' = "read"
    /\ UNCHANGED <<peerVars, buf, req, ans, closing, handshake, readErr, result,
                   opVars, idleCb, idleFired, ctxVars, out, conn, inflight,
                   cancelled, wmu, fds>>

(* After the loop: close, cancel every op, wait for them, classify.        *)
CloseConn ==
    /\ rpc = "close"
    /\ conn' = FALSE
    /\ rpc' = "cancelAll"
    /\ UNCHANGED <<peerVars, buf, req, ans, closing, handshake, readErr, result,
                   opVars, idleVars, ctxVars, out, inflight, cancelled, wmu, fds>>

CancelAllTo(done) ==
    /\ rpc = "cancelAll"
    /\ ctxDone' = done
    /\ rpc' = "wait"
    /\ UNCHANGED <<peerVars, buf, req, ans, closing, handshake, readErr, result,
                   opVars, idleVars, parentDone, out, conn, inflight, cancelled,
                   wmu, fds>>
CancelAllForgotten == CancelAllTo(ctxDone)
CancelAll == CancelAllTo(TRUE)

OpsDone == \A i \in Ids : opst[i] \in {"none", "done"}
Leave ==
    /\ rpc = "wait"
    /\ result' = CASE idleFired -> "ErrIdle"
                   [] ~idleFired /\ parentDone -> "ctxErr"
                   [] ~idleFired /\ ~parentDone /\ readErr -> "readErr"
                   [] OTHER -> "nil"
    /\ idle' = FALSE
    /\ rpc' = "returned"
    /\ UNCHANGED <<peerVars, buf, req, ans, closing, handshake, readErr, opVars,
                   idleCb, idleFired, ctxVars, out, conn, inflight, cancelled,
                   wmu, fds>>
ReturnWithoutWait == Leave
Return == OpsDone /\ Leave

-----------------------------------------------------------------------------
(* An op's goroutine.                                                      *)

(* A throttled progress message: it takes wmu and may block in the write.  *)
(* One progress message per op is enough to interleave with everything.    *)
OpEmit(i) ==
    /\ opst[i] = "running" /\ wmu = None
    /\ \A k \in 1 .. Len(out) : out[k] # Progress(i)
    /\ wmu' = i
    /\ opst' = [opst EXCEPT ![i] = "emitting"]
    /\ UNCHANGED <<peerVars, loopVars, idleVars, ctxVars, resp, out, conn,
                   inflight, cancelled, fds>>

OpEmitted(i) ==
    /\ opst[i] = "emitting" /\ CanWrite
    /\ Written(Progress(i))
    /\ wmu' = None
    /\ opst' = [opst EXCEPT ![i] = "running"]
    /\ UNCHANGED <<peerVars, loopVars, idleVars, ctxVars, resp, conn, inflight,
                   cancelled, fds>>

(* run returns and the response is computed, before any lock is taken.     *)
OpReturn(i) ==
    /\ opst[i] = "running"
    /\ \E r \in {Result(i), Error(i)} : resp' = [resp EXCEPT ![i] = r]
    /\ opst' = [opst EXCEPT ![i] = "finishing"]
    /\ UNCHANGED <<peerVars, loopVars, idleVars, ctxVars, out, conn, inflight,
                   cancelled, wmu, fds>>

(* Under wmu and mu: clear inflight and re-arm the timer; keep wmu.        *)
Clear(i, holder, timer) ==
    /\ opst[i] = "finishing" /\ wmu = None
    /\ wmu' = holder
    /\ inflight' = None
    /\ idle' = timer
    /\ opst' = [opst EXCEPT ![i] = "cleared"]
    /\ UNCHANGED <<peerVars, loopVars, ctxVars, idleCb, idleFired, resp, out,
                   conn, cancelled, fds>>
OpClearUnlocks(i) == Clear(i, None, TRUE)
OpClearLeavesTimer(i) == Clear(i, i, idle)
OpClear(i) == Clear(i, i, TRUE)

(* Write the response, release wmu, run the defers: close the image, Done. *)
Respond(i, open) ==
    /\ opst[i] = "cleared" /\ CanWrite
    /\ Written(resp[i])
    /\ wmu' = None
    /\ fds' = open
    /\ opst' = [opst EXCEPT ![i] = "done"]
    /\ UNCHANGED <<peerVars, loopVars, idleVars, ctxVars, resp, conn, inflight,
                   cancelled>>
OpRespondKeepsImage(i) == Respond(i, fds)
OpRespond(i) == Respond(i, fds \ {i})

-----------------------------------------------------------------------------
Peer == PeerSend \/ PeerRead \/ PeerClose
Context == ParentCancel \/ AfterFuncClose
Timer == IdleExpire \/ IdleStore \/ IdleClose
Handle == \/ HandleGarbled \/ HandlePing \/ HandleNotReady \/ HandleCancel
          \/ HandleBusy \/ HandleOp
Loop == \/ Receive \/ ReadRequest \/ ReadFails \/ Handle \/ LockAnswer
        \/ WriteAnswer \/ ArmIdle \/ CloseConn \/ CancelAll \/ Return
Op(i) == OpEmit(i) \/ OpEmitted(i) \/ OpReturn(i) \/ OpClear(i) \/ OpRespond(i)

Next == Peer \/ Context \/ Timer \/ Loop \/ \E i \in Ids : Op(i)

Spec == Init /\ [][Next]_vars

(* Go runs a goroutine that can run, a timer that is armed expires, and a  *)
(* mutex is not withheld from one waiter for ever: an op whose peer is gone *)
(* may take wmu for progress again and again, so LockAnswer needs SF.      *)
(* An op comes back once its context has ended; nothing makes one come     *)
(* back before.  The peer is not obliged to send, to read or to leave.     *)
(* At any time at most one op can take a step of OpGoesOn.                 *)
OpGoesOn == \E i \in Ids : OpEmitted(i) \/ OpClear(i) \/ OpRespond(i)
OpEnds == \E i \in Ids : OpCancelled(i) /\ OpReturn(i)
Fairness ==
    /\ WF_vars(Loop) /\ SF_vars(LockAnswer)
    /\ WF_vars(AfterFuncClose) /\ WF_vars(Timer)
    /\ WF_vars(OpGoesOn) /\ SF_vars(OpEnds)
FairSpec == Spec /\ Fairness

-----------------------------------------------------------------------------
(* Properties.                                                             *)

Flags ==
    /\ peerGone \in BOOLEAN /\ conn \in BOOLEAN /\ closing \in BOOLEAN
    /\ handshake \in BOOLEAN /\ idle \in BOOLEAN /\ idleFired \in BOOLEAN
    /\ parentDone \in BOOLEAN /\ ctxDone \in BOOLEAN /\ readErr \in BOOLEAN
Types ==
    /\ sent \in 0 .. MaxReq /\ wire \in Seq(Request) /\ buf \in Seq(Request)
    /\ out \in Seq(Response) /\ taken \in Nat
    /\ rpc \in {"read", "handle", "lock", "write", "arm", "close",
                "cancelAll", "wait", "returned"}
    /\ req \in Request \cup {NoRequest} /\ ans \in Response /\ inflight \in Ids \cup {None}
    /\ opst \in [Ids -> {"none", "running", "emitting", "finishing", "cleared", "done"}]
    /\ resp \in [Ids -> Response]
    /\ cancelled \subseteq Ids /\ wmu \in Ids \cup {None, ReadLoop}
    /\ idleCb \in {"none", "started", "stored"} /\ fds \subseteq Ids
    /\ result \in {"none", "ErrIdle", "ctxErr", "readErr", "nil"}
TypeOK == Flags /\ Types

(* The idle timer never runs while an op is in flight, whatever the read   *)
(* loop, the finishing op and the timer interleave: a long write is never  *)
(* cut off as a quiet session (server.go:301-303).                         *)
IdleOnlyWhenQuiet == idle => inflight = None

(* inflight names exactly the op whose goroutine has not yet given up its  *)
(* turn, so at most one op works on the disk and a cancel reaches the one  *)
(* that does.                                                              *)
InflightIsTheRunner == \A i \in Ids : Running(i) <=> inflight = i

(* What reaches the wire: an op writes nothing after its answer, and no op *)
(* accepted later writes anything before it (server.go:329-337).           *)
FromOp(k) == out[k].id # None /\ opst[out[k].id] # "none"
OutputInOpOrder ==
    \A a, b \in 1 .. Len(out) :
        a < b /\ FromOp(a) /\ FromOp(b) =>
            \/ out[a].id < out[b].id
            \/ out[a].id = out[b].id /\ out[a].type = "progress"

(* Every descriptor the helper holds open has someone who will close it:   *)
(* the handler of its request or the op it was handed to.                  *)
DescriptorsOwned ==
    \A i \in fds :
        \/ i = req.id /\ rpc \in {"handle", "lock", "write"}
        \/ opst[i] \notin {"none", "done"}

(* serve returns only once the connection is closed, every op has ended    *)
(* and no timer is left to fire for the session.                           *)
NothingOutlivesSession ==
    rpc = "returned" =>
        ~conn /\ ~idle /\ fds = {} /\ OpsDone

(* A session whose connection or context ended, or whose peer left, ends:  *)
(* the read loop, the ops and whoever holds the write lock all get out,    *)
(* even if the peer never read a byte.  So does one that nobody uses: with *)
(* nothing in flight and nothing more to come, the re-armed timer ends it. *)
Unused == sent = MaxReq /\ wire = <<>> /\ buf = <<>> /\ rpc = "read" /\ inflight = None
SessionEnds == (Broken \/ parentDone \/ Unused) ~> rpc = "returned"

(* A cancelled op ends and gives up inflight, so a new one can start: the  *)
(* cancel, its own progress and its answer never wait on one another, as   *)
(* long as the peer's read loop drains the connection (client.go:218-238). *)
CancelledOpEnds ==
    WF_vars(PeerRead) => (cancelled # {} ~> \A i \in cancelled : opst[i] = "done")
=============================================================================
