-------------------------- MODULE HelperSessionProofs --------------------------
(***************************************************************************)
(* Proofs about HelperSession, for any number of requests of any kind, any *)
(* capacity of the connection and any interleaving.                        *)
(***************************************************************************)
EXTENDS HelperSession, TLAPS

(* Request numbers are consecutive from the one being handled to the one   *)
(* sent last.                                                              *)
Numbered ==
    /\ sent = req.id + Len(buf) + Len(wire)
    /\ \A k \in 1 .. Len(buf) : buf[k].id = req.id + k
    /\ \A k \in 1 .. Len(wire) : wire[k].id = req.id + Len(buf) + k

(* Ops come from requests already handled; the one in hand is new.         *)
Fresh ==
    /\ rpc \in {"handle", "lock", "write"} => req.id \in Ids /\ opst[req.id] = "none"
    /\ \A i \in Ids : opst[i] # "none" => i <= req.id

(* Who holds the write lock.                                               *)
LockHeld ==
    /\ \A i \in Ids : opst[i] \in {"emitting", "cleared"} <=> wmu = i
    /\ wmu = ReadLoop <=> rpc = "write"

Core == Numbered /\ Fresh /\ LockHeld /\ InflightIsTheRunner /\ DescriptorsOwned
coreVars == <<sent, wire, buf, rpc, req, inflight, opst, wmu, fds>>

(* The teardown, from closing the connection on.                           *)
TornDown ==
    /\ rpc \in {"cancelAll", "wait", "returned"} => ~conn
    /\ rpc = "returned" => ~idle /\ OpsDone

(* What the output holds, relative to the ops that may still write.        *)
LiveOp(i) == opst[i] \in {"running", "emitting", "finishing", "cleared"}
Answers ==
    /\ rpc \in {"lock", "write"} => ans.id \in {None, req.id}
    /\ \A i \in Ids : resp[i].id = i
OutputOld ==
    /\ \A k \in 1 .. Len(out) : out[k].id <= req.id
    /\ rpc = "handle" => \A k \in 1 .. Len(out) : out[k].id # req.id
LatestRuns == \A i, j \in Ids : Running(i) /\ opst[j] # "none" => j <= i
LiveLast ==
    \A i \in Ids : \A k \in 1 .. Len(out) :
        LiveOp(i) /\ FromOp(k) => \/ out[k].id < i
                                  \/ out[k].id = i /\ out[k].type = "progress"

OutInv == Answers /\ OutputOld /\ LatestRuns /\ LiveLast /\ OutputInOpOrder

-----------------------------------------------------------------------------
(* A write keeps the output a sequence of responses and adds at most one.  *)
LEMMA WrittenFacts ==
    ASSUME out \in Seq(Response), NEW r \in Response, Written(r)
    PROVE  /\ out' \in Seq(Response)
           /\ \/ out' = out
              \/ /\ Len(out') = Len(out) + 1
                 /\ out'[Len(out) + 1] = r
                 /\ \A k \in 1 .. Len(out) : out'[k] = out[k]
BY DEF Written

(* Every step keeps the flags: one case per action that sets one. *)
LEMMA StepFlags == Flags /\ [Next]_vars => Flags'
<1> SUFFICES ASSUME Flags, [Next]_vars PROVE Flags'
    OBVIOUS
<1> USE DEF Flags, peerVars, loopVars, opVars, idleVars, ctxVars
<1>a. CASE UNCHANGED vars
    BY <1>a, Zenon DEF vars
<1>1. CASE PeerSend
    BY <1>1, Zenon DEF PeerSend
<1>2. CASE PeerRead
    BY <1>2, Zenon DEF PeerRead
<1>3. CASE PeerClose
    BY <1>3, Zenon DEF PeerClose
<1>4. CASE ParentCancel
    BY <1>4, Zenon DEF ParentCancel
<1>5. CASE AfterFuncClose
    BY <1>5, Zenon DEF AfterFuncClose
<1>6. CASE IdleExpire
    BY <1>6, Zenon DEF IdleExpire
<1>7. CASE IdleStore
    BY <1>7, Zenon DEF IdleStore
<1>8. CASE IdleClose
    BY <1>8, Zenon DEF IdleClose
<1>9. CASE Receive
    BY <1>9, Zenon DEF Receive
<1>10. CASE ReadRequest
    BY <1>10, Zenon DEF ReadRequest
<1>11. CASE ReadFails
    <2>1. (taken < Len(out)) \in BOOLEAN
        OBVIOUS
    <2> QED
        BY <1>11, <2>1, Zenon DEF ReadFails
<1>12. CASE HandleGarbled
    BY <1>12, Zenon DEF HandleGarbled, AnswerWith
<1>13. CASE HandlePing
    BY <1>13, Zenon DEF HandlePing, AnswerWith
<1>14. CASE HandleNotReady
    BY <1>14, Zenon DEF HandleNotReady, AnswerWith
<1>15. CASE HandleCancel
    BY <1>15, Zenon DEF HandleCancel, CancelOps, AnswerWith
<1>16. CASE HandleBusy
    BY <1>16, Zenon DEF HandleBusy, AnswerWith
<1>17. CASE HandleOp
    BY <1>17, Zenon DEF HandleOp, AcceptOp
<1>18. CASE LockAnswer
    BY <1>18, Zenon DEF LockAnswer
<1>19. CASE WriteAnswer
    BY <1>19, Zenon DEF WriteAnswer
<1>20. CASE ArmIdle
    BY <1>20, Zenon DEF ArmIdle
<1>21. CASE CloseConn
    BY <1>21, Zenon DEF CloseConn
<1>22. CASE CancelAll
    BY <1>22, Zenon DEF CancelAll, CancelAllTo
<1>23. CASE Return
    BY <1>23, Zenon DEF Return, Leave
<1>24. ASSUME NEW i \in Ids, OpEmit(i) PROVE Flags'
    BY <1>24, Zenon DEF OpEmit
<1>25. ASSUME NEW i \in Ids, OpEmitted(i) PROVE Flags'
    BY <1>25, Zenon DEF OpEmitted
<1>26. ASSUME NEW i \in Ids, OpReturn(i) PROVE Flags'
    BY <1>26, Zenon DEF OpReturn
<1>27. ASSUME NEW i \in Ids, OpClear(i) PROVE Flags'
    BY <1>27, Zenon DEF OpClear, Clear
<1>28. ASSUME NEW i \in Ids, OpRespond(i) PROVE Flags'
    BY <1>28, Zenon DEF OpRespond, Respond
<1> QED
    BY <1>a, <1>1, <1>2, <1>3, <1>4, <1>5, <1>6, <1>7, <1>8, <1>9, <1>10, <1>11, <1>12, <1>13, <1>14, <1>15, <1>16, <1>17, <1>18, <1>19, <1>20, <1>21, <1>22, <1>23, <1>24, <1>25, <1>26, <1>27, <1>28, Zenon
    DEF Next, Peer, Context, Timer, Loop, Handle, Op

(* Answers are responses, and the request in hand has an ID or none.       *)
LEMMA ResponseFacts ==
    \A i \in Ids \cup {None} :
        Result(i) \in Response /\ Error(i) \in Response /\ Progress(i) \in Response
BY DEF Result, Error, Progress, Response

LEMMA RequestFacts == req \in Request \cup {NoRequest} => req.id \in Ids \cup {None}
BY DEF Request, NoRequest

(* The types hold at first. *)
LEMMA InitTypes == Init => Types
<1> SUFFICES ASSUME Init PROVE Types
    OBVIOUS
<1> QED
    BY ResponseFacts, MaxReqAssumption DEF Init, Types, Ids, None, ReadLoop

(* Every step keeps the types: one case per action. *)
LEMMA StepTypes == Types /\ [Next]_vars => Types'
<1> SUFFICES ASSUME Types, [Next]_vars PROVE Types'
    OBVIOUS
<1> USE MaxReqAssumption
    DEF Types, Ids, None, ReadLoop, peerVars, loopVars, opVars, idleVars, ctxVars
<1>a. CASE UNCHANGED vars
    BY <1>a DEF vars
<1>1. CASE PeerSend
    <2> PICK r \in Requests :
            wire' = Append(wire, [id |-> sent + 1, kind |-> r.kind, fd |-> r.fd])
        BY <1>1 DEF PeerSend
    <2>1. [id |-> sent + 1, kind |-> r.kind, fd |-> r.fd] \in Request
        BY <1>1, RequestsAssumption DEF PeerSend, Request
    <2>2. wire' \in Seq(Request)
        BY <2>1
    <2> QED
        BY <1>1, <2>2 DEF PeerSend
<1>2. CASE PeerRead
    BY <1>2 DEF PeerRead
<1>3. CASE PeerClose
    BY <1>3 DEF PeerClose
<1>4. CASE ParentCancel
    BY <1>4 DEF ParentCancel
<1>5. CASE AfterFuncClose
    BY <1>5 DEF AfterFuncClose
<1>6. CASE IdleExpire
    BY <1>6 DEF IdleExpire
<1>7. CASE IdleStore
    BY <1>7 DEF IdleStore
<1>8. CASE IdleClose
    BY <1>8 DEF IdleClose
<1>9. CASE Receive
    <2>1. PICK k \in 1 .. Len(wire) : /\ buf' = SubSeq(wire, 1, k)
                                      /\ wire' = SubSeq(wire, k + 1, Len(wire))
        BY <1>9 DEF Receive
    <2>2. buf' \in Seq(Request) /\ wire' \in Seq(Request)
        BY <2>1
    <2> QED
        BY <1>9, <2>2 DEF Receive
<1>10. CASE ReadRequest
    <2>1. Head(buf) \in Request /\ Tail(buf) \in Seq(Request)
        BY <1>10 DEF ReadRequest
    <2>2. Head(buf).id \in Ids
        BY <2>1 DEF Request
    <2> QED
        BY <1>10, <2>1, <2>2 DEF ReadRequest
<1>11. CASE ReadFails
    BY <1>11 DEF ReadFails
<1>12. CASE HandleGarbled
    BY <1>12, ResponseFacts, RequestFacts DEF HandleGarbled, AnswerWith
<1>13. CASE HandlePing
    BY <1>13, ResponseFacts, RequestFacts DEF HandlePing, AnswerWith
<1>14. CASE HandleNotReady
    BY <1>14, ResponseFacts, RequestFacts DEF HandleNotReady, AnswerWith
<1>15. CASE HandleCancel
    BY <1>15, ResponseFacts, RequestFacts DEF HandleCancel, CancelOps, AnswerWith
<1>16. CASE HandleBusy
    BY <1>16, ResponseFacts, RequestFacts DEF HandleBusy, AnswerWith
<1>17. CASE HandleOp
    BY <1>17, ResponseFacts, RequestFacts DEF HandleOp, AcceptOp
<1>18. CASE LockAnswer
    BY <1>18 DEF LockAnswer
<1>19. CASE WriteAnswer
    <2>1. out' \in Seq(Response)
        BY <1>19, WrittenFacts DEF WriteAnswer
    <2> QED
        BY <1>19, <2>1 DEF WriteAnswer
<1>20. CASE ArmIdle
    BY <1>20 DEF ArmIdle
<1>21. CASE CloseConn
    BY <1>21 DEF CloseConn
<1>22. CASE CancelAll
    BY <1>22 DEF CancelAll, CancelAllTo
<1>23. CASE Return
    BY <1>23 DEF Return, Leave
<1>24. ASSUME NEW i \in Ids, OpEmit(i) PROVE Types'
    BY <1>24 DEF OpEmit
<1>25. ASSUME NEW i \in Ids, OpEmitted(i) PROVE Types'
    <2>1. out' \in Seq(Response)
        BY <1>25, ResponseFacts, WrittenFacts DEF OpEmitted
    <2> QED
        BY <1>25, <2>1 DEF OpEmitted
<1>26. ASSUME NEW i \in Ids, OpReturn(i) PROVE Types'
    BY <1>26, ResponseFacts DEF OpReturn
<1>27. ASSUME NEW i \in Ids, OpClear(i) PROVE Types'
    BY <1>27 DEF OpClear, Clear
<1>28. ASSUME NEW i \in Ids, OpRespond(i) PROVE Types'
    <2>1. out' \in Seq(Response)
        BY <1>28, WrittenFacts DEF OpRespond, Respond
    <2> QED
        BY <1>28, <2>1 DEF OpRespond, Respond
<1> QED
    BY <1>a, <1>1, <1>2, <1>3, <1>4, <1>5, <1>6, <1>7, <1>8, <1>9, <1>10, <1>11, <1>12, <1>13, <1>14, <1>15, <1>16, <1>17, <1>18, <1>19, <1>20, <1>21, <1>22, <1>23, <1>24, <1>25, <1>26, <1>27, <1>28
    DEF Next, Peer, Context, Timer, Loop, Handle, Op

(* The variables always have their types. *)
THEOREM TypeCorrect == Spec => []TypeOK
<1>1. Init => TypeOK
    BY InitTypes DEF TypeOK, Init, Flags
<1>2. TypeOK /\ [Next]_vars => TypeOK'
    BY StepFlags, StepTypes DEF TypeOK
<1> QED
    BY <1>1, <1>2, PTL DEF Spec

-----------------------------------------------------------------------------
(* The idle timer.                                                         *)

(* It is armed only where inflight is known to be nil, and stopped where   *)
(* inflight is set: IdleOnlyWhenQuiet is inductive by itself.              *)
LEMMA StepIdle == IdleOnlyWhenQuiet /\ [Next]_vars => IdleOnlyWhenQuiet'
<1> SUFFICES ASSUME IdleOnlyWhenQuiet, [Next]_vars PROVE IdleOnlyWhenQuiet'
    OBVIOUS
<1> USE DEF IdleOnlyWhenQuiet, idleVars
<1>1. CASE UNCHANGED <<idle, inflight>>
    BY <1>1
<1>2. CASE IdleExpire
    BY <1>2 DEF IdleExpire
<1>3. CASE ReadRequest
    BY <1>3 DEF ReadRequest
<1>4. CASE HandleOp
    BY <1>4 DEF HandleOp, AcceptOp
<1>5. CASE ArmIdle
    BY <1>5, Zenon DEF ArmIdle
<1>6. CASE Return
    BY <1>6 DEF Return, Leave
<1>7. ASSUME NEW i \in Ids, OpClear(i) PROVE IdleOnlyWhenQuiet'
    BY <1>7 DEF OpClear, Clear
<1>8. CASE Peer \/ Context \/ IdleStore \/ IdleClose
    BY <1>1, <1>8 DEF Peer, PeerSend, PeerRead, PeerClose, Context, ParentCancel,
        AfterFuncClose, IdleStore, IdleClose
<1>9. CASE Receive \/ ReadFails \/ LockAnswer \/ WriteAnswer \/ CloseConn \/ CancelAll
    BY <1>1, <1>9 DEF Receive, ReadFails, LockAnswer, WriteAnswer, CloseConn, CancelAll,
        CancelAllTo
<1>10. CASE HandleGarbled \/ HandlePing \/ HandleNotReady \/ HandleCancel \/ HandleBusy
    BY <1>1, <1>10 DEF HandleGarbled, HandlePing, HandleNotReady, HandleCancel,
        CancelOps, HandleBusy
<1>11. ASSUME NEW i \in Ids, OpEmit(i) \/ OpEmitted(i) \/ OpReturn(i) \/ OpRespond(i)
       PROVE  IdleOnlyWhenQuiet'
    BY <1>1, <1>11 DEF OpEmit, OpEmitted, OpReturn, OpRespond, Respond
<1>12. CASE UNCHANGED vars
    BY <1>1, <1>12 DEF vars
<1> QED
    BY <1>2, <1>3, <1>4, <1>5, <1>6, <1>7, <1>8, <1>9, <1>10, <1>11, <1>12
    DEF Next, Timer, Loop, Handle, Op

(* The idle timer never runs while an op is in flight.                     *)
THEOREM IdleSafe == Spec => []IdleOnlyWhenQuiet
<1>1. Init => IdleOnlyWhenQuiet
    BY DEF Init, IdleOnlyWhenQuiet
<1> QED
    BY <1>1, StepIdle, PTL DEF Spec

-----------------------------------------------------------------------------
(* Who runs, who holds the lock, who owns the descriptors.                 *)

LEMMA InitCore == Init => Core
BY MaxReqAssumption
   DEF Init, Core, Numbered, Fresh, LockHeld, InflightIsTheRunner,
       DescriptorsOwned, Running, Ids, None, ReadLoop, NoRequest

(* Core depends on coreVars only. *)
LEMMA CoreFrame == Core /\ UNCHANGED coreVars => Core'
BY DEF Core, coreVars, Numbered, Fresh, LockHeld, InflightIsTheRunner, Running,
       DescriptorsOwned

(* The numbering survives a send, a receive and the reading of a request. *)
LEMMA SendNumbered ==
    ASSUME Numbered, buf \in Seq(Request), wire \in Seq(Request), req.id \in Nat,
           NEW q \in Request, q.id = sent + 1, wire' = Append(wire, q),
           sent' = sent + 1, UNCHANGED <<req, buf>>
    PROVE  Numbered'
<1>1. /\ Len(wire') = Len(wire) + 1 /\ wire'[Len(wire) + 1] = q
      /\ \A k \in 1 .. Len(wire) : wire'[k] = wire[k]
      /\ Len(wire) \in Nat /\ Len(buf) \in Nat
    OBVIOUS
<1>2. sent' = req'.id + Len(buf') + Len(wire')
    BY <1>1 DEF Numbered
<1>3. ASSUME NEW k \in 1 .. Len(wire') PROVE wire'[k].id = req'.id + Len(buf') + k
    <2>1. CASE k = Len(wire) + 1
        BY <1>1, <2>1 DEF Numbered
    <2>2. CASE k \in 1 .. Len(wire)
        BY <1>1, <2>2 DEF Numbered
    <2> QED
        BY <1>1, <2>1, <2>2
<1> QED
    BY <1>2, <1>3 DEF Numbered

LEMMA ReceiveNumbered ==
    ASSUME Numbered, buf = <<>>, wire \in Seq(Request), req.id \in Nat,
           NEW n \in 1 .. Len(wire), buf' = SubSeq(wire, 1, n),
           wire' = SubSeq(wire, n + 1, Len(wire)), UNCHANGED <<req, sent>>
    PROVE  Numbered'
<1>1. Len(buf') = n /\ \A k \in 1 .. n : buf'[k] = wire[k]
    OBVIOUS
<1>2. /\ Len(wire') = Len(wire) - n
      /\ \A k \in 1 .. Len(wire) - n : wire'[k] = wire[n + k]
    OBVIOUS
<1>3. Len(buf) = 0 /\ Len(wire) \in Nat
    OBVIOUS
<1>4. \A k \in 1 .. Len(wire) : wire[k].id = req.id + k
    BY <1>3 DEF Numbered
<1>5. sent' = req'.id + Len(buf') + Len(wire')
    BY <1>1, <1>2, <1>3 DEF Numbered
<1>6. ASSUME NEW k \in 1 .. Len(wire') PROVE wire'[k].id = req'.id + Len(buf') + k
    <2>1. n + k \in 1 .. Len(wire) /\ wire'[k] = wire[n + k]
        BY <1>2, <1>3, <1>6
    <2>2. wire[n + k].id = req.id + (n + k)
        BY <1>4, <2>1
    <2> QED
        BY <1>1, <1>2, <1>3, <2>1, <2>2
<1>7. ASSUME NEW k \in 1 .. Len(buf') PROVE buf'[k].id = req'.id + k
    BY <1>1, <1>3, <1>4, <1>7
<1> QED
    BY <1>5, <1>6, <1>7 DEF Numbered

LEMMA ShiftOne == \A a, k \in Int : (a + 1) + k = a + (k + 1)
OBVIOUS

LEMMA ReadNumbered ==
    ASSUME Numbered, buf \in Seq(Request), buf # <<>>, wire \in Seq(Request),
           req.id \in Nat, req' = Head(buf), buf' = Tail(buf), UNCHANGED <<sent, wire>>
    PROVE  Numbered' /\ req'.id = req.id + 1
<1>1. /\ Len(buf') = Len(buf) - 1 /\ Len(buf) \in Nat /\ Len(buf) > 0
      /\ Head(buf) = buf[1] /\ Len(wire) \in Nat
      /\ \A k \in 1 .. Len(buf) - 1 : buf'[k] = buf[k + 1]
    OBVIOUS
<1>2. req'.id = req.id + 1
    BY <1>1 DEF Numbered
<1>3. sent' = req'.id + Len(buf') + Len(wire')
    BY <1>1, <1>2 DEF Numbered
<1>4. ASSUME NEW k \in 1 .. Len(buf') PROVE buf'[k].id = req'.id + k
    <2>1. k + 1 \in 1 .. Len(buf) /\ buf'[k] = buf[k + 1]
        BY <1>1, <1>4
    <2>2. buf[k + 1].id = req.id + (k + 1)
        BY <2>1 DEF Numbered
    <2>3. k \in Int
        BY <1>1, <1>4
    <2>4. req.id \in Int
        BY SMT
    <2>5. (req.id + 1) + k = req.id + (k + 1)
        BY <2>3, <2>4, ShiftOne, Zenon
    <2> QED
        BY <1>2, <2>1, <2>2, <2>5
<1>5. ASSUME NEW k \in 1 .. Len(wire') PROVE wire'[k].id = req'.id + Len(buf') + k
    <2>1. wire[k].id = req.id + Len(buf) + k
        BY <1>5 DEF Numbered
    <2> QED
        BY <1>1, <1>2, <2>1
<1> QED
    BY <1>2, <1>3, <1>4, <1>5 DEF Numbered

LEMMA StepNumbered ==
    ASSUME Types, Numbered, PeerSend \/ Receive \/ ReadRequest
    PROVE  Numbered' /\ (ReadRequest => req'.id = req.id + 1 /\ req' \in Request)
<1>1. /\ buf \in Seq(Request) /\ wire \in Seq(Request) /\ req.id \in Nat
      /\ req \in Request \cup {NoRequest}
    BY RequestFacts, MaxReqAssumption DEF Types, Ids, None
<1>2. CASE PeerSend
    <2>1. PICK r \in Requests :
            wire' = Append(wire, [id |-> sent + 1, kind |-> r.kind, fd |-> r.fd])
        BY <1>2 DEF PeerSend
    <2> DEFINE q == [id |-> sent + 1, kind |-> r.kind, fd |-> r.fd]
    <2>2. q \in Request /\ q.id = sent + 1
        <3>1. sent + 1 \in Ids
            BY <1>2, MaxReqAssumption DEF PeerSend, Ids, Types
        <3>2. r \in [kind : Kinds, fd : BOOLEAN]
            BY RequestsAssumption
        <3> QED
            BY <3>1, <3>2 DEF Request
    <2>3. sent' = sent + 1 /\ UNCHANGED <<req, buf>> /\ wire' = Append(wire, q)
        BY <1>2, <2>1 DEF PeerSend, loopVars
    <2> HIDE DEF q
    <2>4. Numbered'
        BY <1>1, <2>2, <2>3, SendNumbered
    <2>5. ~ReadRequest
        BY <1>2 DEF PeerSend, ReadRequest, peerVars, Types
    <2> QED
        BY <2>4, <2>5
<1>3. CASE Receive
    <2>1. PICK n \in 1 .. Len(wire) : /\ buf' = SubSeq(wire, 1, n)
                                      /\ wire' = SubSeq(wire, n + 1, Len(wire))
        BY <1>3 DEF Receive
    <2>2. buf = <<>> /\ UNCHANGED <<req, sent>>
        BY <1>3 DEF Receive
    <2>3. Numbered'
        BY <1>1, <2>1, <2>2, ReceiveNumbered
    <2>4. ~ReadRequest
        BY <2>2 DEF ReadRequest
    <2> QED
        BY <2>3, <2>4, ShiftOne, Zenon
<1>4. CASE ReadRequest
    <2>1. /\ buf # <<>> /\ req' = Head(buf) /\ buf' = Tail(buf)
          /\ UNCHANGED <<sent, wire>>
        BY <1>4 DEF ReadRequest, peerVars
    <2>2. Numbered' /\ req'.id = req.id + 1
        BY <1>1, <2>1, ReadNumbered
    <2>3. req' \in Request
        BY <1>1, <2>1
    <2> QED
        BY <2>2, <2>3
<1> QED
    BY <1>2, <1>3, <1>4

(* The request that is read next is younger than every op.                 *)
LEMMA ReadFresh ==
    ASSUME TypeOK, Fresh, ReadRequest, req'.id = req.id + 1, req'.id \in Ids
    PROVE  Fresh'
<1>1. opst' = opst /\ rpc' = "handle"
    BY DEF ReadRequest, opVars
<1>2. req.id \in Nat
    BY RequestFacts, MaxReqAssumption DEF TypeOK, Types, Ids, None
<1>3. ASSUME NEW i \in Ids, opst[i] # "none" PROVE i <= req.id
    BY <1>3 DEF Fresh
<1>4. \A i \in Ids : opst[i] # "none" => i <= req.id + 1 /\ i # req.id + 1
    BY <1>2, <1>3, MaxReqAssumption DEF Ids
<1> QED
    BY <1>1, <1>4 DEF Fresh

(* Every step keeps Core. *)
LEMMA StepCore == TypeOK /\ Core /\ [Next]_vars => Core'
<1> SUFFICES ASSUME TypeOK, Core, [Next]_vars PROVE Core'
    OBVIOUS
<1> USE MaxReqAssumption
    DEF TypeOK, Types, Core, Numbered, Fresh, LockHeld, InflightIsTheRunner,
        DescriptorsOwned, Running, Ids, None, ReadLoop, peerVars, loopVars, opVars
<1>1. CASE UNCHANGED vars \/ PeerRead \/ PeerClose \/ Context \/ Timer
    <2>1. UNCHANGED coreVars
        BY <1>1 DEF vars, coreVars, PeerRead, PeerClose, Context, ParentCancel,
            AfterFuncClose, Timer, IdleExpire, IdleStore, IdleClose
    <2> QED
        BY <2>1, CoreFrame
<1>2. CASE PeerSend
    <2>1. Numbered'
        BY <1>2, StepNumbered
    <2> QED
        BY <1>2, <2>1 DEF PeerSend
<1>3. CASE Receive
    <2>1. Numbered'
        BY <1>3, StepNumbered
    <2> QED
        BY <1>3, <2>1 DEF Receive
<1>4. CASE ReadRequest
    <2>1. Numbered' /\ req'.id = req.id + 1 /\ req' \in Request
        BY <1>4, StepNumbered
    <2>2. req'.id \in Ids
        BY <2>1 DEF Request
    <2>3. Fresh'
        BY <1>4, <2>1, <2>2, ReadFresh
    <2>4. DescriptorsOwned'
        BY <1>4, <2>2 DEF ReadRequest
    <2> QED
        BY <1>4, <2>1, <2>3, <2>4 DEF ReadRequest
<1>5. CASE ReadFails
    BY <1>5 DEF ReadFails
<1>6. CASE HandleGarbled \/ HandlePing \/ HandleNotReady \/ HandleCancel \/ HandleBusy
    BY <1>6 DEF HandleGarbled, HandlePing, HandleNotReady, HandleCancel, CancelOps,
        HandleBusy, AnswerWith
<1>7. CASE HandleOp
    <2>1. Numbered'
        BY <1>7 DEF HandleOp, AcceptOp
    <2>2. Fresh'
        BY <1>7, RequestFacts DEF HandleOp, AcceptOp
    <2>3. LockHeld'
        BY <1>7 DEF HandleOp, AcceptOp
    <2>4. InflightIsTheRunner'
        BY <1>7 DEF HandleOp, AcceptOp
    <2>5. DescriptorsOwned'
        BY <1>7 DEF HandleOp, AcceptOp
    <2> QED
        BY <2>1, <2>2, <2>3, <2>4, <2>5
<1>8. CASE LockAnswer
    <2>1. Numbered'
        BY <1>8 DEF LockAnswer
    <2>2. Fresh'
        BY <1>8 DEF LockAnswer
    <2>3. LockHeld'
        BY <1>8 DEF LockAnswer
    <2>4. InflightIsTheRunner'
        BY <1>8 DEF LockAnswer
    <2>5. DescriptorsOwned'
        BY <1>8 DEF LockAnswer
    <2> QED
        BY <2>1, <2>2, <2>3, <2>4, <2>5
<1>9. CASE WriteAnswer
    <2>1. Numbered'
        BY <1>9 DEF WriteAnswer
    <2>2. Fresh'
        BY <1>9, RequestFacts DEF WriteAnswer
    <2>3. LockHeld'
        BY <1>9 DEF WriteAnswer
    <2>4. InflightIsTheRunner'
        BY <1>9 DEF WriteAnswer
    <2>5. DescriptorsOwned'
        BY <1>9 DEF WriteAnswer
    <2> QED
        BY <2>1, <2>2, <2>3, <2>4, <2>5
<1>10. CASE ArmIdle
    BY <1>10 DEF ArmIdle
<1>11. CASE CloseConn \/ CancelAll \/ Return
    BY <1>11 DEF CloseConn, CancelAll, CancelAllTo, Return, Leave
<1>12. ASSUME NEW i \in Ids, OpEmit(i) PROVE Core'
    BY <1>12 DEF OpEmit
<1>13. ASSUME NEW i \in Ids, OpEmitted(i) PROVE Core'
    <2>1. Numbered'
        BY <1>13 DEF OpEmitted
    <2>2. Fresh'
        BY <1>13 DEF OpEmitted
    <2>3. LockHeld'
        BY <1>13 DEF OpEmitted
    <2>4. InflightIsTheRunner'
        BY <1>13 DEF OpEmitted
    <2>5. DescriptorsOwned'
        BY <1>13 DEF OpEmitted
    <2> QED
        BY <2>1, <2>2, <2>3, <2>4, <2>5
<1>14. ASSUME NEW i \in Ids, OpReturn(i) PROVE Core'
    BY <1>14 DEF OpReturn
<1>15. ASSUME NEW i \in Ids, OpClear(i) PROVE Core'
    <2>1. Numbered'
        BY <1>15 DEF OpClear, Clear
    <2>2. Fresh'
        BY <1>15, RequestFacts DEF OpClear, Clear
    <2>3. LockHeld'
        BY <1>15 DEF OpClear, Clear
    <2>4. InflightIsTheRunner'
        BY <1>15 DEF OpClear, Clear
    <2>5. DescriptorsOwned'
        BY <1>15 DEF OpClear, Clear
    <2> QED
        BY <2>1, <2>2, <2>3, <2>4, <2>5
<1>16. ASSUME NEW i \in Ids, OpRespond(i) PROVE Core'
    BY <1>16 DEF OpRespond, Respond
<1> QED
    BY <1>1, <1>2, <1>3, <1>4, <1>5, <1>6, <1>7, <1>8, <1>9, <1>10, <1>11, <1>12,
       <1>13, <1>14, <1>15, <1>16
    DEF Next, Peer, Loop, Handle, Op

LEMMA CoreInvariance == Spec => []Core
<1>1. TypeOK /\ Core /\ [Next]_vars => Core'
    BY StepCore
<1> QED
    BY <1>1, InitCore, TypeCorrect, PTL DEF Spec

(* At most one op is between acceptance and giving up its turn, and        *)
(* inflight names it.                                                      *)
THEOREM OneOpRuns == Spec => []InflightIsTheRunner
<1>1. Core => InflightIsTheRunner
    BY DEF Core
<1> QED
    BY <1>1, CoreInvariance, PTL

(* No path through the session leaks a descriptor.                         *)
THEOREM NoDescriptorLeaks == Spec => []DescriptorsOwned
<1>1. Core => DescriptorsOwned
    BY DEF Core
<1> QED
    BY <1>1, CoreInvariance, PTL

-----------------------------------------------------------------------------
(* The end of the session.                                                 *)

LEMMA StepTornDown == TypeOK /\ TornDown /\ [Next]_vars => TornDown'
<1> SUFFICES ASSUME TypeOK, TornDown, [Next]_vars PROVE TornDown'
    OBVIOUS
<1> USE DEF TypeOK, Types, TornDown, OpsDone, peerVars, loopVars, opVars, idleVars
<1>1. CASE UNCHANGED vars \/ Peer \/ ParentCancel
    BY <1>1 DEF vars, Peer, PeerSend, PeerRead, PeerClose, ParentCancel
<1>2. CASE AfterFuncClose \/ Timer
    BY <1>2 DEF AfterFuncClose, Timer, IdleExpire, IdleStore, IdleClose
<1>3. CASE Receive \/ ReadRequest \/ ReadFails \/ LockAnswer \/ WriteAnswer \/ ArmIdle
    BY <1>3 DEF Receive, ReadRequest, ReadFails, LockAnswer, WriteAnswer, ArmIdle
<1>4. CASE Handle
    BY <1>4 DEF Handle, HandleGarbled, HandlePing, HandleNotReady, HandleCancel,
        CancelOps, HandleBusy, AnswerWith, HandleOp, AcceptOp
<1>5. CASE CloseConn \/ CancelAll \/ Return
    BY <1>5 DEF CloseConn, CancelAll, CancelAllTo, Return, Leave
<1>6. ASSUME NEW i \in Ids, Op(i) PROVE TornDown'
    BY <1>6 DEF Op, OpEmit, OpEmitted, OpReturn, OpClear, Clear, OpRespond, Respond
<1> QED
    BY <1>1, <1>2, <1>3, <1>4, <1>5, <1>6 DEF Next, Context, Loop

(* Once serve has returned, nothing of the session is left.                *)
THEOREM CleanEnd == Spec => []NothingOutlivesSession
<1>1. Init => TornDown
    BY DEF Init, TornDown
<1>2. TypeOK /\ TornDown /\ [Next]_vars => TornDown'
    BY StepTornDown
<1>3. TypeOK /\ TornDown /\ DescriptorsOwned => NothingOutlivesSession
    BY DEF TypeOK, Types, TornDown, DescriptorsOwned, NothingOutlivesSession, OpsDone
<1> QED
    BY <1>1, <1>2, <1>3, TypeCorrect, NoDescriptorLeaks, PTL DEF Spec

-----------------------------------------------------------------------------
(* The order of the output.                                                *)

outVars == <<out, opst, resp, rpc, req, ans>>

LEMMA OutFrame == OutInv /\ UNCHANGED outVars => OutInv'
BY DEF OutInv, outVars, Answers, OutputOld, LatestRuns, LiveLast, LiveOp, Running,
       FromOp, OutputInOpOrder

(* A step of the read loop that writes nothing and accepts nothing.        *)
LEMMA LoopFrame ==
    ASSUME OutInv, UNCHANGED <<out, opst, resp, req>>, rpc' # "handle" \/ rpc = "handle",
           rpc' \in {"lock", "write"} => ans'.id \in {None, req.id}
    PROVE  OutInv'
BY DEF OutInv, Answers, OutputOld, LatestRuns, LiveLast, LiveOp, Running,
       FromOp, OutputInOpOrder

(* What appending to the output needs to keep it in order: the new line is *)
(* old news to the read loop, does not precede what is there, and leaves   *)
(* the ops that may still write above it.                                  *)
LEMMA AppendOut ==
    ASSUME OutInv, out \in Seq(Response), NEW r \in Response, Written(r),
           UNCHANGED <<resp, req>>,
           rpc' \in {"lock", "write"} => ans'.id \in {None, req.id},
           rpc' = "handle" => rpc = "handle" /\ r.id # req.id,
           r.id <= req.id,
           LatestRuns',
           \A k \in 1 .. Len(out) : FromOp(k) <=> out[k].id # None /\ opst'[out[k].id] # "none",
           \A j \in Ids : LiveOp(j)' => LiveOp(j),
           r.id # None /\ opst'[r.id] # "none" =>
               /\ \A k \in 1 .. Len(out) :
                    FromOp(k) => \/ out[k].id < r.id
                                 \/ out[k].id = r.id /\ out[k].type = "progress"
               /\ \A j \in Ids :
                    LiveOp(j)' => r.id < j \/ (r.id = j /\ r.type = "progress")
    PROVE  OutInv'
<1>1. Answers'
    BY DEF OutInv, Answers
<1>2. CASE out' = out
    <2>1. \A k \in 1 .. Len(out') : FromOp(k)' <=> FromOp(k)
        BY <1>2 DEF FromOp
    <2>2. OutputOld'
        BY <1>2 DEF OutInv, OutputOld
    <2>3. LiveLast'
        BY <1>2, <2>1 DEF OutInv, LiveLast
    <2>4. OutputInOpOrder'
        BY <1>2, <2>1 DEF OutInv, OutputInOpOrder
    <2> QED
        BY <1>1, <2>2, <2>3, <2>4 DEF OutInv
<1>3. CASE out' # out
    <2> DEFINE n == Len(out)
    <2>1. /\ n \in Nat /\ n = Len(out) /\ Len(out') = n + 1 /\ out'[n + 1] = r
          /\ \A k \in 1 .. n : out'[k] = out[k]
        BY <1>3, WrittenFacts
    <2>2. \A k \in 1 .. n : FromOp(k)' <=> FromOp(k)
        BY <2>1 DEF FromOp
    <2> HIDE DEF n
    <2>3. ASSUME NEW k, k = n + 1
          PROVE  FromOp(k)' <=> r.id # None /\ opst'[r.id] # "none"
        BY <2>1, <2>3 DEF FromOp
    <2>4. \A k \in 1 .. n + 1 : k \in 1 .. n \/ k = n + 1
        BY <2>1
    <2>5. OutputOld'
        BY <2>1, <2>4 DEF OutInv, OutputOld
    <2>6. LiveLast'
        BY <2>1, <2>2, <2>3, <2>4 DEF OutInv, LiveLast
    <2>7. OutputInOpOrder'
        <3> SUFFICES ASSUME NEW a \in 1 .. n + 1, NEW b \in 1 .. n + 1, a < b,
                            FromOp(a)', FromOp(b)'
                     PROVE  \/ out'[a].id < out'[b].id
                            \/ out'[a].id = out'[b].id /\ out'[a].type = "progress"
            BY <2>1 DEF OutputInOpOrder
        <3>1. a \in 1 .. n
            BY <2>1
        <3>2. CASE b \in 1 .. n
            BY <2>1, <2>2, <3>1, <3>2 DEF OutInv, OutputInOpOrder
        <3>3. CASE b = n + 1
            BY <2>1, <2>2, <2>3, <3>1, <3>3
        <3> QED
            BY <2>4, <3>2, <3>3
    <2> QED
        BY <1>1, <2>5, <2>6, <2>7 DEF OutInv
<1> QED
    BY <1>2, <1>3

(* An op writes while it holds the lock: what may write after it is an op  *)
(* accepted later.                                                         *)
LEMMA OpWritesInOrder ==
    ASSUME TypeOK, Core, OutInv, NEW i \in Ids, wmu = i, NEW r \in Response, r.id = i,
           Written(r), UNCHANGED <<resp, req, rpc, ans>>,
           opst[i] \in {"emitting", "cleared"},
           NEW s \in {"running", "done"}, opst' = [opst EXCEPT ![i] = s],
           s = "running" => opst[i] = "emitting" /\ r.type = "progress"
    PROVE  OutInv'
<1> USE DEF Ids, None
<1>1. /\ out \in Seq(Response) /\ DOMAIN opst = Ids /\ req.id \in Nat /\ i \in Nat /\ i # 0
      /\ \A k \in 1 .. Len(out) : out[k] \in Response
    BY RequestFacts, MaxReqAssumption DEF TypeOK, Types
<1>2. \A k \in 1 .. Len(out) : out[k].id \in Ids \cup {None}
    BY <1>1 DEF Response
<1>3. \A j \in Ids : (opst'[j] = "none") <=> (opst[j] = "none")
    BY <1>1
<1>4. \A j \in Ids : (Running(j)' => Running(j)) /\ (LiveOp(j)' => LiveOp(j))
    BY <1>1 DEF Running, LiveOp
<1>5. LatestRuns'
    BY <1>3, <1>4 DEF OutInv, LatestRuns
<1>6. \A k \in 1 .. Len(out) : FromOp(k) <=> out[k].id # None /\ opst'[out[k].id] # "none"
    BY <1>2, <1>3 DEF FromOp
<1>7. i <= req.id /\ (rpc = "handle" => i # req.id)
    BY DEF Core, Fresh
<1>8. \A k \in 1 .. Len(out) :
        FromOp(k) => out[k].id < i \/ (out[k].id = i /\ out[k].type = "progress")
    BY DEF OutInv, LiveLast, LiveOp
<1>9. ASSUME NEW j \in Ids, LiveOp(j)' PROVE i < j \/ (i = j /\ r.type = "progress")
    <2>1. CASE j = i
        BY <1>1, <1>9, <2>1 DEF LiveOp
    <2>2. CASE j # i
        <3>1. opst[j] \notin {"emitting", "cleared"}
            BY <2>2 DEF Core, LockHeld
        <3>2. Running(j)
            BY <1>4, <1>9, <3>1 DEF Running, LiveOp
        <3>3. i <= j
            BY <3>2 DEF OutInv, LatestRuns
        <3> QED
            BY <2>2, <3>3
    <2> QED
        BY <2>1, <2>2
<1>10. rpc' \in {"lock", "write"} => ans'.id \in {None, req.id}
    BY DEF OutInv, Answers
<1> QED
    BY <1>1, <1>4, <1>5, <1>6, <1>7, <1>8, <1>9, <1>10, AppendOut

(* A step of an op that writes nothing.                                    *)
LEMMA OpFrame ==
    ASSUME TypeOK, OutInv, UNCHANGED <<out, req, rpc, ans>>, NEW i \in Ids,
           NEW s \in {"emitting", "finishing", "cleared"}, opst' = [opst EXCEPT ![i] = s],
           Running(i), \A j \in Ids : resp'[j].id = j
    PROVE  OutInv'
<1> USE DEF Ids, None
<1>1. DOMAIN opst = Ids /\ \A k \in 1 .. Len(out) : out[k] \in Response
    BY DEF TypeOK, Types
<1>2. \A k \in 1 .. Len(out) : out[k].id \in Ids \cup {None}
    BY <1>1 DEF Response
<1>3. \A j \in Ids : /\ (opst'[j] = "none") <=> (opst[j] = "none")
                     /\ Running(j)' => Running(j)
                     /\ LiveOp(j)' => LiveOp(j)
    BY <1>1 DEF Running, LiveOp
<1>4. \A k \in 1 .. Len(out) : FromOp(k)' <=> FromOp(k)
    BY <1>2, <1>3 DEF FromOp
<1>5. Answers' /\ OutputOld'
    BY DEF OutInv, Answers, OutputOld
<1>6. LatestRuns'
    BY <1>3 DEF OutInv, LatestRuns
<1>7. LiveLast' /\ OutputInOpOrder'
    BY <1>3, <1>4 DEF OutInv, LiveLast, OutputInOpOrder
<1> QED
    BY <1>5, <1>6, <1>7 DEF OutInv

(* Every step keeps the output in order.                                   *)
LEMMA StepOut == TypeOK /\ Core /\ OutInv /\ [Next]_vars => OutInv'
<1> SUFFICES ASSUME TypeOK, Core, OutInv, [Next]_vars PROVE OutInv'
    OBVIOUS
<1> USE DEF peerVars, loopVars, opVars
<1>a. /\ out \in Seq(Response) /\ DOMAIN opst = Ids /\ req.id \in Nat /\ ans \in Response
      /\ resp \in [Ids -> Response]
    BY RequestFacts, MaxReqAssumption DEF TypeOK, Types, Ids, None
<1>b. \A k \in 1 .. Len(out) : out[k].id \in Nat /\ out[k].id \in Ids \cup {None}
    <2> SUFFICES ASSUME NEW k \in 1 .. Len(out)
                 PROVE  out[k].id \in Nat /\ out[k].id \in Ids \cup {None}
        OBVIOUS
    <2>1. out[k] \in Response
        BY <1>a
    <2> QED
        BY <2>1, MaxReqAssumption DEF Response, Ids, None
<1>1. CASE UNCHANGED vars \/ Peer \/ Context \/ Timer \/ Receive
    <2>1. UNCHANGED outVars
        BY <1>1 DEF vars, outVars, Peer, PeerSend, PeerRead, PeerClose, Context,
            ParentCancel, AfterFuncClose, Timer, IdleExpire, IdleStore, IdleClose,
            Receive
    <2> QED
        BY <2>1, OutFrame
<1>2. CASE ReadRequest
    <2>1. req'.id = req.id + 1
        BY <1>2, StepNumbered DEF TypeOK, Core
    <2>2. UNCHANGED <<out, opst, resp, ans>> /\ rpc' = "handle"
        BY <1>2 DEF ReadRequest
    <2>3. OutputOld'
        BY <1>a, <1>b, <2>1, <2>2 DEF OutInv, OutputOld
    <2>4. Answers' /\ LatestRuns' /\ LiveLast' /\ OutputInOpOrder'
        BY <2>2 DEF OutInv, Answers, LatestRuns, LiveLast, LiveOp, Running, FromOp,
            OutputInOpOrder
    <2> QED
        BY <2>3, <2>4 DEF OutInv
<1>3. CASE ReadFails \/ LockAnswer \/ ArmIdle \/ CloseConn \/ CancelAll \/ Return
    BY <1>3, LoopFrame DEF ReadFails, LockAnswer, ArmIdle, CloseConn, CancelAll,
        CancelAllTo, Return, Leave, OutInv, Answers
<1>4. CASE HandleGarbled \/ HandlePing \/ HandleNotReady \/ HandleCancel \/ HandleBusy
    BY <1>4, LoopFrame DEF HandleGarbled, HandlePing, HandleNotReady, HandleCancel,
        CancelOps, HandleBusy, AnswerWith, Error, Result
<1>5. CASE HandleOp
    <2>1. /\ UNCHANGED <<out, resp, req>> /\ rpc = "handle" /\ rpc' = "arm"
          /\ opst' = [opst EXCEPT ![req.id] = "running"] /\ inflight = None
        BY <1>5 DEF HandleOp, AcceptOp
    <2>2. req.id \in Ids /\ opst[req.id] = "none"
        BY <2>1 DEF Core, Fresh
    <2>3. \A k \in 1 .. Len(out) : out[k].id < req.id
        BY <1>a, <1>b, <2>1 DEF OutInv, OutputOld
    <2>4. \A j \in Ids \ {req.id} : opst'[j] = opst[j]
        BY <1>a, <2>1
    <2>5. \A k \in 1 .. Len(out) : FromOp(k)' <=> FromOp(k)
        <3>1. \A k \in 1 .. Len(out) : out[k].id # req.id
            BY <1>a, <1>b, <2>3
        <3> QED
            BY <1>b, <2>1, <2>4, <3>1 DEF FromOp, None
    <2>6. \A i \in Ids : ~Running(i)
        BY <2>1 DEF Core, InflightIsTheRunner, Ids, None
    <2>7. Answers' /\ OutputOld'
        BY <2>1 DEF OutInv, Answers, OutputOld
    <2>8. OutputInOpOrder'
        BY <2>1, <2>5 DEF OutInv, OutputInOpOrder
    <2>9. LatestRuns'
        <3>1. \A i \in Ids : Running(i)' => i = req.id
            BY <2>4, <2>6 DEF Running
        <3>2. \A j \in Ids : opst'[j] # "none" => j <= req.id
            BY <1>a, <2>4 DEF Core, Fresh, Ids
        <3> QED
            BY <2>1, <3>1, <3>2 DEF LatestRuns
    <2>10. LiveLast'
        <3> SUFFICES ASSUME NEW i \in Ids, NEW k \in 1 .. Len(out), LiveOp(i)', FromOp(k)
                     PROVE  out[k].id < i \/ (out[k].id = i /\ out[k].type = "progress")
            BY <2>1, <2>5 DEF LiveLast
        <3>1. CASE i = req.id
            BY <2>3, <3>1
        <3>2. CASE i # req.id
            BY <2>4, <3>2 DEF OutInv, LiveLast, LiveOp
        <3> QED
            BY <3>1, <3>2
    <2> QED
        BY <2>7, <2>8, <2>9, <2>10 DEF OutInv
<1>6. CASE WriteAnswer
    <2>1. /\ UNCHANGED <<opst, resp, req>> /\ Written(ans)
          /\ rpc = "write" /\ rpc' \in {"close", "arm"}
        BY <1>6 DEF WriteAnswer
    <2>2. ans.id <= req.id /\ (ans.id = None \/ opst[ans.id] = "none")
        BY <1>a, <2>1 DEF OutInv, Answers, Core, Fresh, None
    <2>3. LatestRuns' /\ \A j \in Ids : LiveOp(j)' => LiveOp(j)
        BY <2>1 DEF OutInv, LatestRuns, Running, LiveOp
    <2>4. \A k \in 1 .. Len(out) : FromOp(k) <=> out[k].id # None /\ opst'[out[k].id] # "none"
        BY <2>1 DEF FromOp
    <2> QED
        BY <1>a, <2>1, <2>2, <2>3, <2>4, AppendOut
<1>7. ASSUME NEW i \in Ids, OpEmit(i) PROVE OutInv'
    <2>1. Running(i) /\ \A j \in Ids : resp'[j].id = j
        BY <1>7 DEF OpEmit, Running, OutInv, Answers
    <2> QED
        BY <1>7, <2>1, OpFrame DEF OpEmit
<1>8. ASSUME NEW i \in Ids, OpReturn(i) PROVE OutInv'
    <2>1. Running(i)
        BY <1>8 DEF OpReturn, Running
    <2>2. \A j \in Ids : resp'[j].id = j
        BY <1>a, <1>8 DEF OpReturn, Result, Error, OutInv, Answers
    <2> QED
        BY <1>8, <2>1, <2>2, OpFrame DEF OpReturn
<1>9. ASSUME NEW i \in Ids, OpClear(i) PROVE OutInv'
    <2>1. Running(i) /\ \A j \in Ids : resp'[j].id = j
        BY <1>9 DEF OpClear, Clear, Running, OutInv, Answers
    <2> QED
        BY <1>9, <2>1, OpFrame DEF OpClear, Clear
<1>10. ASSUME NEW i \in Ids, OpEmitted(i) PROVE OutInv'
    <2>1. /\ opst[i] = "emitting" /\ Written(Progress(i))
          /\ UNCHANGED <<resp, req, rpc, ans>> /\ opst' = [opst EXCEPT ![i] = "running"]
        BY <1>10 DEF OpEmitted
    <2>2. wmu = i
        BY <2>1 DEF Core, LockHeld
    <2>3. Progress(i) \in Response /\ Progress(i).id = i /\ Progress(i).type = "progress"
        BY ResponseFacts DEF Progress
    <2> QED
        BY <2>1, <2>2, <2>3, OpWritesInOrder
<1>11. ASSUME NEW i \in Ids, OpRespond(i) PROVE OutInv'
    <2>1. /\ opst[i] = "cleared" /\ Written(resp[i])
          /\ UNCHANGED <<resp, req, rpc, ans>> /\ opst' = [opst EXCEPT ![i] = "done"]
        BY <1>11 DEF OpRespond, Respond
    <2>2. wmu = i
        BY <2>1 DEF Core, LockHeld
    <2>3. resp[i] \in Response /\ resp[i].id = i
        BY <1>a DEF OutInv, Answers
    <2> QED
        BY <2>1, <2>2, <2>3, OpWritesInOrder
<1> QED
    BY <1>1, <1>2, <1>3, <1>4, <1>5, <1>6, <1>7, <1>8, <1>9, <1>10, <1>11
    DEF Next, Loop, Handle, Op

(* The wire carries an op's output in one piece, ended by its answer, in   *)
(* the order the ops were accepted.                                        *)
THEOREM OutputOrdered == Spec => []OutputInOpOrder
<1>1. Init => OutInv
    BY MaxReqAssumption
    DEF Init, OutInv, Answers, OutputOld, LatestRuns, LiveLast, LiveOp, Running,
        OutputInOpOrder, Error, Ids
<1>2. TypeOK /\ Core /\ OutInv /\ [Next]_vars => OutInv'
    BY StepOut
<1>3. OutInv => OutputInOpOrder
    BY DEF OutInv
<1> QED
    BY <1>1, <1>2, <1>3, TypeCorrect, CoreInvariance, PTL DEF Spec
=============================================================================
