----------------------- MODULE ElevatedServiceProofs -----------------------
(***************************************************************************)
(* Proofs about ElevatedService, for any number of calls of StartJob and   *)
(* of helpers: a job is alone and keeps its session, and on Linux there is *)
(* never a second elevated helper.                                         *)
(***************************************************************************)
EXTENDS ElevatedService, FiniteSetTheorems, TLAPS

Ensuring == {"ping", "checkProc", "spawn", "prompt", "dial", "handshake"}
Starting == Ensuring \cup {"plan", "enqueue"}
Working == {"hold", "run", "unhold", "end"}
TypeOK ==
    /\ os \in {"linux", "windows"}
    /\ pc \in [Calls -> Starting \cup Working \cup {"idle", "refused", "done"}]
    /\ ctxEnded \subseteq Calls
    /\ {start, job, mu, hold} \subseteq Calls \cup {NoCall}
    /\ {proc, client} \subseteq Helpers \cup {None}
    /\ pings \in [Calls -> Helpers \cup {None}] /\ mine \in [Calls -> Helpers \cup {None}]
    /\ spawned \in 0 .. MaxHelpers
    /\ helper \in [Helpers -> {"none", "asking", "denied", "up", "exited"}]
    /\ conn \in [Helpers -> {"none", "open", "closed"}]
    /\ exit \in [Helpers -> {"none", "there", "held"}]
    /\ waiting \subseteq Helpers /\ dirs \subseteq Helpers

(* Who holds what: JobsService.start from the check to Enqueue, mu within  *)
(* EnsureReady, the manager's one job from Enqueue to its end.             *)
Owned ==
    /\ \A c \in Calls : /\ pc[c] \in Starting <=> start = c
                        /\ pc[c] \in Ensuring => mu = c
                        /\ pc[c] \in Working <=> job = c
    /\ start # NoCall => job = NoCall
    /\ \A c \in Calls : pings[c] # None => pc[c] = "run"

(* What an exit status says, and which helpers there are at all.           *)
Life ==
    /\ \A h \in Helpers :
         /\ exit[h] # "none" => helper[h] \in {"denied", "exited"}
         /\ h > spawned => helper[h] = "none"
         /\ os = "linux" /\ h \in InUse => h \in dirs
    /\ \A c \in Calls : pc[c] \in {"prompt", "dial", "handshake"} => mine[c] \in Helpers
    /\ \A c \in Calls : pc[c] = "ping" => client # None

(* On Linux a helper in use is the one the service knows, or, while it is  *)
(* being brought up, the one the call that holds mu has just spawned.      *)
Known ==
    os = "linux" =>
        /\ \A c \in Calls :
             /\ pc[c] = "spawn" => InUse = {}
             /\ pc[c] \in {"prompt", "dial"} => InUse \subseteq {mine[c]}
        /\ (\A c \in Calls : pc[c] \notin {"spawn", "prompt", "dial"}) => InUse \subseteq {proc}

-----------------------------------------------------------------------------
(* Letting a helper go closes at most its connection, and has a goroutine  *)
(* wait for it.                                                            *)
LEMMA ReleaseTypes ==
    ASSUME TypeOK, NEW h \in Helpers, Release(h)
    PROVE  /\ conn' \in [Helpers -> {"none", "open", "closed"}] /\ waiting' \subseteq Helpers
           /\ UNCHANGED <<spawned, helper, exit, dirs>>
BY DEF TypeOK, Release

(* Types are kept: in particular there is a helper to release where one is *)
(* released.                                                               *)
LEMMA StepType ==
    TypeOK /\ Owned /\ Life /\ [Next]_<<vars, os>> => TypeOK'
<1> SUFFICES ASSUME TypeOK, Owned, Life, [Next]_<<vars, os>> PROVE TypeOK'
    OBVIOUS
<1> USE CallsAssumption, MaxHelpersAssumption DEF TypeOK, Starting, Ensuring, Working,
        Life, Serving, To, callVars, lockVars, serviceVars, procVars
<1>1. ASSUME NEW c \in Calls, UNCHANGED os,
        StartJob(c) \/ RPC(c) \/ Job(c) \/ PingLost(c) \/ ContextEnds(c)
      PROVE  TypeOK'
  <2>1. CASE StartJob(c)
      BY <1>1, <2>1 DEF StartJob, Begin
  <2>2. CASE PlanFails(c)
      BY <1>1, <2>2 DEF PlanFails
  <2>3. CASE EnsureReady(c)
      BY <1>1, <2>3 DEF EnsureReady
  <2>4. CASE PingAnswered(c)
      BY <1>1, <2>4 DEF PingAnswered
  <2>5. CASE PingFails(c)
    <3>1. client \in Helpers /\ Release(client)
        BY <1>1, <2>5 DEF PingFails, PingUnanswered, DropClient
    <3>2. pings' \in [Calls -> Helpers \cup {None}]
        BY <1>1, <2>5 DEF PingFails, PingUnanswered, DropClient
    <3> QED
        BY <1>1, <2>5, <3>1, <3>2, ReleaseTypes DEF PingFails, PingUnanswered, DropClient
  <2>6. CASE StillThere(c)
      BY <1>1, <2>6 DEF StillThere, Fails
  <2>7. CASE MayRespawn(c)
      BY <1>1, <2>7 DEF MayRespawn, Alive
  <2>8. CASE Spawn(c)
    <3>1. spawned + 1 \in Helpers /\ spawned + 1 \in 0 .. MaxHelpers
        BY <1>1, <2>8 DEF Spawn, Helpers
    <3>2. mine' \in [Calls -> Helpers \cup {None}]
        BY <1>1, <2>8, <3>1 DEF Spawn
    <3>3. helper' \in [Helpers -> {"none", "asking", "denied", "up", "exited"}]
        BY <1>1, <2>8, <3>1 DEF Spawn
    <3> QED
        BY <1>1, <2>8, <3>1, <3>2, <3>3 DEF Spawn
  <2>9. CASE SpawnFails(c)
      BY <1>1, <2>9 DEF SpawnFails, Fails
  <2>10. CASE PromptAnswered(c)
      BY <1>1, <2>10 DEF PromptAnswered
  <2>11. CASE PromptRefused(c)
      BY <1>1, <2>11 DEF PromptRefused, Fails
  <2>12. CASE GiveUpOnPrompt(c)
    <3>1. CASE os = "linux"
      <4>1. mine[c] \in Helpers /\ Release(mine[c])
          BY <1>1, <2>12, <3>1 DEF GiveUpOnPrompt
      <4> QED
          BY <1>1, <2>12, <3>1, <4>1, ReleaseTypes DEF GiveUpOnPrompt, Fails
    <3>2. CASE os # "linux"
        BY <1>1, <2>12, <3>2 DEF GiveUpOnPrompt, Fails
    <3> QED
        BY <3>1, <3>2
  <2>13. CASE Dial(c)
      BY <1>1, <2>13 DEF Dial
  <2>14. CASE DialFails(c)
    <3>1. mine[c] \in Helpers /\ Release(mine[c])
        BY <1>1, <2>14 DEF DialFails
    <3> QED
        BY <1>1, <2>14, <3>1, ReleaseTypes DEF DialFails, Fails
  <2>15. CASE Handshake(c)
      BY <1>1, <2>15 DEF Handshake
  <2>16. CASE HandshakeFails(c)
    <3>1. mine[c] \in Helpers /\ Release(mine[c])
        BY <1>1, <2>16 DEF HandshakeFails
    <3> QED
        BY <1>1, <2>16, <3>1, ReleaseTypes DEF HandshakeFails, Fails
  <2>17. CASE Enqueue(c)
      BY <1>1, <2>17 DEF Enqueue
  <2>18. CASE Hold(c)
      BY <1>1, <2>18 DEF Hold
  <2>19. CASE PipelineReturns(c)
      BY <1>1, <2>19 DEF PipelineReturns, StopKeepalive
  <2>20. CASE Unhold(c)
      BY <1>1, <2>20 DEF Unhold
  <2>21. CASE JobEnds(c)
      BY <1>1, <2>21 DEF JobEnds
  <2>22. CASE PingLost(c)
      BY <1>1, <2>22 DEF PingLost
  <2>23. CASE ContextEnds(c)
      BY <1>1, <2>23 DEF ContextEnds
  <2> QED
      BY <1>1, <2>1, <2>2, <2>3, <2>4, <2>5, <2>6, <2>7, <2>8, <2>9, <2>10, <2>11, <2>12,
        <2>13, <2>14, <2>15, <2>16, <2>17, <2>18, <2>19, <2>20, <2>21, <2>22,
        <2>23 DEF RPC, Job
<1>2. ASSUME NEW h \in Helpers, UNCHANGED os,
        User(h) \/ Process(h) \/ HelperDies(h) \/ WaiterGivesUp(h)
      PROVE  TypeOK'
  <2>1. CASE UserConsents(h) \/ UserRefuses(h)
      BY <1>2, <2>1 DEF UserConsents, UserRefuses, UserConsents, UserRefuses, Answer
  <2>2. CASE HelperLeaves(h) \/ HelperDies(h)
      BY <1>2, <2>2 DEF HelperLeaves, HelperDies, HelperLeaves, HelperDies, Exits
  <2>3. CASE WaiterTakes(h)
      BY <1>2, <2>3 DEF WaiterTakes
  <2>4. CASE WaiterPutsBack(h)
      BY <1>2, <2>4 DEF WaiterPutsBack, WaiterLeaves
  <2>5. CASE WaiterGivesUp(h)
      BY <1>2, <2>5 DEF WaiterGivesUp
  <2> QED
      BY <1>2, <2>1, <2>2, <2>3, <2>4, <2>5 DEF User, Process
<1>3. CASE UNCHANGED <<vars, os>>
    BY <1>3 DEF vars
<1> QED
    BY <1>1, <1>2, <1>3 DEF Next, Acts

(* A lock changes hands only with the place it guards, and a keepalive     *)
(* does not outlive the pipeline it is for.                                *)
LEMMA StepOwned ==
    TypeOK /\ Owned /\ [Next]_<<vars, os>> => Owned'
<1> SUFFICES ASSUME TypeOK, Owned, [Next]_<<vars, os>> PROVE Owned'
    OBVIOUS
<1> USE CallsAssumption, MaxHelpersAssumption DEF TypeOK, Owned, Starting, Ensuring,
        Working, To, callVars, lockVars, serviceVars, procVars
<1>1. ASSUME NEW c \in Calls, UNCHANGED os,
        StartJob(c) \/ RPC(c) \/ Job(c) \/ PingLost(c) \/ ContextEnds(c)
      PROVE  Owned'
  <2>1. CASE StartJob(c)
      BY <1>1, <2>1 DEF StartJob, Begin
  <2>2. CASE PlanFails(c)
      BY <1>1, <2>2 DEF PlanFails
  <2>3. CASE EnsureReady(c)
      BY <1>1, <2>3 DEF EnsureReady
  <2>4. CASE PingAnswered(c)
      BY <1>1, <2>4 DEF PingAnswered
  <2>5. CASE PingFails(c)
      BY <1>1, <2>5 DEF PingFails, PingUnanswered, DropClient, Release
  <2>6. CASE StillThere(c)
      BY <1>1, <2>6 DEF StillThere, Fails
  <2>7. CASE MayRespawn(c)
      BY <1>1, <2>7 DEF MayRespawn, Alive
  <2>8. CASE Spawn(c)
      BY <1>1, <2>8 DEF Spawn
  <2>9. CASE SpawnFails(c)
      BY <1>1, <2>9 DEF SpawnFails, Fails
  <2>10. CASE PromptAnswered(c)
      BY <1>1, <2>10 DEF PromptAnswered
  <2>11. CASE PromptRefused(c)
      BY <1>1, <2>11 DEF PromptRefused, Fails
  <2>12. CASE GiveUpOnPrompt(c)
      BY <1>1, <2>12 DEF GiveUpOnPrompt, Fails, Release
  <2>13. CASE Dial(c)
      BY <1>1, <2>13 DEF Dial
  <2>14. CASE DialFails(c)
      BY <1>1, <2>14 DEF DialFails, Fails, Release
  <2>15. CASE Handshake(c)
      BY <1>1, <2>15 DEF Handshake
  <2>16. CASE HandshakeFails(c)
      BY <1>1, <2>16 DEF HandshakeFails, Fails, Release
  <2>17. CASE Enqueue(c)
      BY <1>1, <2>17 DEF Enqueue
  <2>18. CASE Hold(c)
      BY <1>1, <2>18 DEF Hold
  <2>19. CASE PipelineReturns(c)
      BY <1>1, <2>19 DEF PipelineReturns, StopKeepalive
  <2>20. CASE Unhold(c)
      BY <1>1, <2>20 DEF Unhold
  <2>21. CASE JobEnds(c)
      BY <1>1, <2>21 DEF JobEnds
  <2>22. CASE PingLost(c)
      BY <1>1, <2>22 DEF PingLost
  <2>23. CASE ContextEnds(c)
      BY <1>1, <2>23 DEF ContextEnds
  <2> QED
      BY <1>1, <2>1, <2>2, <2>3, <2>4, <2>5, <2>6, <2>7, <2>8, <2>9, <2>10, <2>11, <2>12,
        <2>13, <2>14, <2>15, <2>16, <2>17, <2>18, <2>19, <2>20, <2>21, <2>22,
        <2>23 DEF RPC, Job
<1>2. ASSUME NEW h \in Helpers, UNCHANGED os,
        User(h) \/ Process(h) \/ HelperDies(h) \/ WaiterGivesUp(h)
      PROVE  Owned'
  <2>1. CASE UserConsents(h) \/ UserRefuses(h)
      BY <1>2, <2>1 DEF UserConsents, UserRefuses, UserConsents, UserRefuses, Answer
  <2>2. CASE HelperLeaves(h) \/ HelperDies(h)
      BY <1>2, <2>2 DEF HelperLeaves, HelperDies, HelperLeaves, HelperDies, Exits
  <2>3. CASE WaiterTakes(h)
      BY <1>2, <2>3 DEF WaiterTakes
  <2>4. CASE WaiterPutsBack(h)
      BY <1>2, <2>4 DEF WaiterPutsBack, WaiterLeaves
  <2>5. CASE WaiterGivesUp(h)
      BY <1>2, <2>5 DEF WaiterGivesUp
  <2> QED
      BY <1>2, <2>1, <2>2, <2>3, <2>4, <2>5 DEF User, Process
<1>3. CASE UNCHANGED <<vars, os>>
    BY <1>3 DEF vars
<1> QED
    BY <1>1, <1>2, <1>3 DEF Next, Acts

(* A helper that has an exit status is not in use, and one in use has its  *)
(* directory.                                                              *)
LEMMA StepLife ==
    TypeOK /\ Owned /\ Life /\ [Next]_<<vars, os>> => Life'
<1> SUFFICES ASSUME TypeOK, Owned, Life, [Next]_<<vars, os>> PROVE Life'
    OBVIOUS
<1> USE CallsAssumption, MaxHelpersAssumption DEF TypeOK, Owned, Starting, Ensuring,
        Working, Helpers, None, NoCall, Life, InUse, Serving, To, callVars, lockVars,
        serviceVars, procVars
<1>1. ASSUME NEW c \in Calls, UNCHANGED os,
        StartJob(c) \/ RPC(c) \/ Job(c) \/ PingLost(c) \/ ContextEnds(c)
      PROVE  Life'
  <2>1. CASE StartJob(c)
      BY <1>1, <2>1 DEF StartJob, Begin
  <2>2. CASE PlanFails(c)
      BY <1>1, <2>2 DEF PlanFails
  <2>3. CASE EnsureReady(c)
      BY <1>1, <2>3 DEF EnsureReady
  <2>4. CASE PingAnswered(c)
      BY <1>1, <2>4 DEF PingAnswered
  <2>5. CASE PingFails(c)
      BY <1>1, <2>5 DEF PingFails, PingUnanswered, DropClient, Release
  <2>6. CASE StillThere(c)
      BY <1>1, <2>6 DEF StillThere, Fails
  <2>7. CASE MayRespawn(c)
      BY <1>1, <2>7 DEF MayRespawn, Alive
  <2>8. CASE Spawn(c)
    <3>1. \A g \in Helpers : g # spawned + 1 => helper'[g] = helper[g]
        BY <1>1, <2>8 DEF Spawn
    <3>2. helper[spawned + 1] = "none" /\ helper'[spawned + 1] = "asking"
        BY <1>1, <2>8 DEF Spawn
    <3>3. exit[spawned + 1] = "none" /\ UNCHANGED exit
        BY <1>1, <2>8, <3>2 DEF Spawn
    <3>4. \A g \in Helpers : (exit[g] # "none" => helper[g] \in {"denied", "exited"})'
        BY <3>1, <3>3, <1>1
    <3>5. \A g \in Helpers : (g > spawned => helper[g] = "none")'
        BY <1>1, <2>8, <3>1 DEF Spawn
    <3>6. \A g \in Helpers : (os = "linux" /\ g \in InUse => g \in dirs)'
        BY <1>1, <2>8, <3>1 DEF Spawn
    <3>7. \A d \in Calls : (pc[d] \in {"prompt", "dial",
        "handshake"} => mine[d] \in Helpers)'
        BY <1>1, <2>8 DEF Spawn
    <3>8. \A d \in Calls : (pc[d] = "ping" => client # None)'
        BY <1>1, <2>8 DEF Spawn
    <3> QED
        BY <3>4, <3>5, <3>6, <3>7, <3>8
  <2>9. CASE SpawnFails(c)
      BY <1>1, <2>9 DEF SpawnFails, Fails
  <2>10. CASE PromptAnswered(c)
      BY <1>1, <2>10 DEF PromptAnswered
  <2>11. CASE PromptRefused(c)
      BY <1>1, <2>11 DEF PromptRefused, Fails
  <2>12. CASE GiveUpOnPrompt(c)
      BY <1>1, <2>12 DEF GiveUpOnPrompt, Fails, Release
  <2>13. CASE Dial(c)
      BY <1>1, <2>13 DEF Dial
  <2>14. CASE DialFails(c)
      BY <1>1, <2>14 DEF DialFails, Fails, Release
  <2>15. CASE Handshake(c)
      BY <1>1, <2>15 DEF Handshake
  <2>16. CASE HandshakeFails(c)
      BY <1>1, <2>16 DEF HandshakeFails, Fails, Release
  <2>17. CASE Enqueue(c)
      BY <1>1, <2>17 DEF Enqueue
  <2>18. CASE Hold(c)
      BY <1>1, <2>18 DEF Hold
  <2>19. CASE PipelineReturns(c)
      BY <1>1, <2>19 DEF PipelineReturns, StopKeepalive
  <2>20. CASE Unhold(c)
      BY <1>1, <2>20 DEF Unhold
  <2>21. CASE JobEnds(c)
      BY <1>1, <2>21 DEF JobEnds
  <2>22. CASE PingLost(c)
      BY <1>1, <2>22 DEF PingLost
  <2>23. CASE ContextEnds(c)
      BY <1>1, <2>23 DEF ContextEnds
  <2> QED
      BY <1>1, <2>1, <2>2, <2>3, <2>4, <2>5, <2>6, <2>7, <2>8, <2>9, <2>10, <2>11, <2>12,
        <2>13, <2>14, <2>15, <2>16, <2>17, <2>18, <2>19, <2>20, <2>21, <2>22,
        <2>23 DEF RPC, Job
<1>2. ASSUME NEW h \in Helpers, UNCHANGED os,
        User(h) \/ Process(h) \/ HelperDies(h) \/ WaiterGivesUp(h)
      PROVE  Life'
  <2>1. CASE UserConsents(h) \/ UserRefuses(h)
      BY <1>2, <2>1 DEF UserConsents, UserRefuses, UserConsents, UserRefuses, Answer
  <2>2. CASE HelperLeaves(h) \/ HelperDies(h)
      BY <1>2, <2>2 DEF HelperLeaves, HelperDies, HelperLeaves, HelperDies, Exits
  <2>3. CASE WaiterTakes(h)
      BY <1>2, <2>3 DEF WaiterTakes
  <2>4. CASE WaiterPutsBack(h)
      BY <1>2, <2>4 DEF WaiterPutsBack, WaiterLeaves
  <2>5. CASE WaiterGivesUp(h)
      BY <1>2, <2>5 DEF WaiterGivesUp
  <2> QED
      BY <1>2, <2>1, <2>2, <2>3, <2>4, <2>5 DEF User, Process
<1>3. CASE UNCHANGED <<vars, os>>
    BY <1>3 DEF vars
<1> QED
    BY <1>1, <1>2, <1>3 DEF Next, Acts

(* No helper in use is forgotten: a call spawns one only when the one the  *)
(* service knows has exited.                                               *)
LEMMA StepKnown ==
    TypeOK /\ Owned /\ Life /\ Known /\ [Next]_<<vars, os>> => Known'
<1> SUFFICES ASSUME TypeOK, Owned, Life, Known, [Next]_<<vars, os>> PROVE Known'
    OBVIOUS
<1> USE CallsAssumption, MaxHelpersAssumption DEF TypeOK, Owned, Starting, Ensuring,
        Working, Helpers, None, NoCall, Life, Known, InUse, To, callVars, lockVars,
        serviceVars, procVars
<1>1. ASSUME NEW c \in Calls, UNCHANGED os,
        StartJob(c) \/ RPC(c) \/ Job(c) \/ PingLost(c) \/ ContextEnds(c)
      PROVE  Known'
  <2>1. CASE StartJob(c)
      BY <1>1, <2>1 DEF StartJob, Begin
  <2>2. CASE PlanFails(c)
      BY <1>1, <2>2 DEF PlanFails
  <2>3. CASE EnsureReady(c)
      BY <1>1, <2>3 DEF EnsureReady
  <2>4. CASE PingAnswered(c)
      BY <1>1, <2>4 DEF PingAnswered
  <2>5. CASE PingFails(c)
      BY <1>1, <2>5 DEF PingFails, PingUnanswered, DropClient, Release
  <2>6. CASE StillThere(c)
      BY <1>1, <2>6 DEF StillThere, Fails
  <2>7. CASE MayRespawn(c)
    <3>1. \A d \in Calls : pc[d] \notin {"spawn", "prompt", "dial"}
        BY <1>1, <2>7 DEF MayRespawn
    <3>2. os = "linux" => InUse \subseteq {proc} /\ proc \notin InUse
      <4>1. proc \in Helpers => exit[proc] = "there"
          BY <2>7 DEF MayRespawn, Alive
      <4> QED
          BY <3>1, <4>1
    <3>3. helper' = helper /\ os' = os /\ pc' = [pc EXCEPT ![c] = "spawn"]
        BY <1>1, <2>7 DEF MayRespawn
    <3>4. os = "linux" => InUse' = {}
        BY <3>2, <3>3
    <3> QED
        BY <3>1, <3>3, <3>4
  <2>8. CASE Spawn(c)
      BY <1>1, <2>8 DEF Spawn
  <2>9. CASE SpawnFails(c)
      BY <1>1, <2>9 DEF SpawnFails, Fails
  <2>10. CASE PromptAnswered(c)
      BY <1>1, <2>10 DEF PromptAnswered
  <2>11. CASE PromptRefused(c)
      BY <1>1, <2>11 DEF PromptRefused, Fails
  <2>12. CASE GiveUpOnPrompt(c)
      BY <1>1, <2>12 DEF GiveUpOnPrompt, Fails, Release
  <2>13. CASE Dial(c)
      BY <1>1, <2>13 DEF Dial
  <2>14. CASE DialFails(c)
      BY <1>1, <2>14 DEF DialFails, Fails, Release
  <2>15. CASE Handshake(c)
      BY <1>1, <2>15 DEF Handshake
  <2>16. CASE HandshakeFails(c)
      BY <1>1, <2>16 DEF HandshakeFails, Fails, Release
  <2>17. CASE Enqueue(c)
      BY <1>1, <2>17 DEF Enqueue
  <2>18. CASE Hold(c)
      BY <1>1, <2>18 DEF Hold
  <2>19. CASE PipelineReturns(c)
      BY <1>1, <2>19 DEF PipelineReturns, StopKeepalive
  <2>20. CASE Unhold(c)
      BY <1>1, <2>20 DEF Unhold
  <2>21. CASE JobEnds(c)
      BY <1>1, <2>21 DEF JobEnds
  <2>22. CASE PingLost(c)
      BY <1>1, <2>22 DEF PingLost
  <2>23. CASE ContextEnds(c)
      BY <1>1, <2>23 DEF ContextEnds
  <2> QED
      BY <1>1, <2>1, <2>2, <2>3, <2>4, <2>5, <2>6, <2>7, <2>8, <2>9, <2>10, <2>11, <2>12,
        <2>13, <2>14, <2>15, <2>16, <2>17, <2>18, <2>19, <2>20, <2>21, <2>22,
        <2>23 DEF RPC, Job
<1>2. ASSUME NEW h \in Helpers, UNCHANGED os,
        User(h) \/ Process(h) \/ HelperDies(h) \/ WaiterGivesUp(h)
      PROVE  Known'
  <2>1. CASE UserConsents(h) \/ UserRefuses(h)
      BY <1>2, <2>1 DEF UserConsents, UserRefuses, UserConsents, UserRefuses, Answer
  <2>2. CASE HelperLeaves(h) \/ HelperDies(h)
      BY <1>2, <2>2 DEF HelperLeaves, HelperDies, HelperLeaves, HelperDies, Exits
  <2>3. CASE WaiterTakes(h)
      BY <1>2, <2>3 DEF WaiterTakes
  <2>4. CASE WaiterPutsBack(h)
      BY <1>2, <2>4 DEF WaiterPutsBack, WaiterLeaves
  <2>5. CASE WaiterGivesUp(h)
      BY <1>2, <2>5 DEF WaiterGivesUp
  <2> QED
      BY <1>2, <2>1, <2>2, <2>3, <2>4, <2>5 DEF User, Process
<1>3. CASE UNCHANGED <<vars, os>>
    BY <1>3 DEF vars
<1> QED
    BY <1>1, <1>2, <1>3 DEF Next, Acts

-----------------------------------------------------------------------------
(* The inductive invariant: Known alone says that a helper in use is one   *)
(* the service will ask about, but not that a call comes to a spawn alone  *)
(* (Owned), nor what an exit status in hand means (Life).                  *)
IInv == TypeOK /\ Owned /\ Life /\ Known

(* It holds throughout.                                                    *)
LEMMA Invariance == Spec => []IInv
<1>1. Init => IInv
  <2> SUFFICES ASSUME Init PROVE IInv
      OBVIOUS
  <2>1. TypeOK
      BY SystemsAssumption, MaxHelpersAssumption
         DEF Init, TypeOK, Starting, Ensuring, Working, Helpers, None, NoCall
  <2>2. Owned
      BY CallsAssumption DEF Init, Owned, Starting, Ensuring, Working
  <2>3. InUse = {}
      BY DEF Init, InUse
  <2> QED
      BY <2>1, <2>2, <2>3 DEF Init, IInv, Life, Known
<1>2. IInv /\ [Next]_<<vars, os>> => IInv'
    BY StepType, StepOwned, StepLife, StepKnown DEF IInv
<1> QED
    BY <1>1, <1>2, PTL DEF Spec

(* The service's variables have their types, its locks their holders among *)
(* the calls.                                                              *)
THEOREM TypeCorrect == Spec => []TypeOK
<1>1. IInv => TypeOK
    BY DEF IInv
<1> QED
    BY <1>1, Invariance, PTL

(* A call that comes to Enqueue finds the manager free, however many race  *)
(* for it, and a keepalive runs only within its own job                    *)
(* (service/jobs.go:57-59, keepalive.go).                                  *)
THEOREM JobsAreAlone == Spec => []JobIsAlone
<1>1. IInv => JobIsAlone
    BY CallsAssumption DEF IInv, TypeOK, Owned, Starting, Working, JobIsAlone, EnqueueIsFree,
        KeepaliveWithinJob
<1> QED
    BY <1>1, Invariance, PTL

(* From its EnsureReady to its end nobody takes a job's session away, no   *)
(* matter which other calls of StartJob come meanwhile.                    *)
THEOREM SessionIsKept == Spec => JobKeepsSession
<1> DEFINE A == \A c \in Calls : pc[c] \in {"enqueue", "hold", "run", "unhold", "end"} =>
                                   client' = client
<1>1. IInv /\ [Next]_<<vars, os>> => [A]_vars
  <2> SUFFICES ASSUME TypeOK, Owned, Next, NEW c \in Calls,
                      pc[c] \in {"enqueue", "hold", "run", "unhold", "end"}
               PROVE  client' = client
      BY DEF IInv, vars
  <2> USE CallsAssumption DEF TypeOK, Owned, Starting, Ensuring, Working, callVars, lockVars,
          serviceVars, procVars
  <2>1. ASSUME NEW d \in Calls, PingFails(d) \/ Handshake(d) PROVE FALSE
      BY <2>1 DEF PingFails, PingUnanswered, Handshake
  <2>2. ASSUME NEW d \in Calls, StartJob(d) \/ RPC(d), ~PingFails(d), ~Handshake(d)
        PROVE  client' = client
      BY <2>2 DEF StartJob, Begin, RPC, PlanFails, EnsureReady, PingAnswered, StillThere,
          MayRespawn, Spawn, SpawnFails, PromptAnswered, PromptRefused, GiveUpOnPrompt, Dial,
          DialFails, HandshakeFails
  <2>3. ASSUME NEW d \in Calls, Job(d) \/ PingLost(d) \/ ContextEnds(d)
        PROVE  client' = client
      BY <2>3 DEF Job, Enqueue, Hold, PipelineReturns, StopKeepalive, Unhold, JobEnds, PingLost,
          ContextEnds
  <2>4. ASSUME NEW h \in Helpers, User(h) \/ Process(h) \/ HelperDies(h) \/ WaiterGivesUp(h)
        PROVE  client' = client
      BY <2>4 DEF User, UserConsents, UserRefuses, Answer, Process, HelperLeaves, HelperDies,
          Exits, WaiterTakes, WaiterPutsBack, WaiterLeaves, WaiterGivesUp
  <2> QED
      BY <2>1, <2>2, <2>3, <2>4 DEF Next, Acts
<1> QED
    BY <1>1, Invariance, PTL DEF JobKeepsSession, Spec

(* On Linux there is never a second elevated helper or a second prompt,    *)
(* however the calls race, the user answers and the helpers die, and the   *)
(* one there is has its socket directory (service_elevated.go:34-36).      *)
THEOREM NeverTwoHelpers == Spec => []OneElevatedHelper
<1>1. IInv => OneElevatedHelper
  <2> SUFFICES ASSUME IInv, os = "linux" PROVE Cardinality(InUse) <= 1 /\ InUse \subseteq dirs
      BY DEF OneElevatedHelper
  <2>1. TypeOK /\ Owned /\ Life /\ Known
      BY DEF IInv
  <2>2. InUse \subseteq dirs
      BY <2>1 DEF Life, InUse
  <2>3. \E h : InUse \subseteq {h}
      BY <2>1 DEF Known
  <2>4. PICK h : InUse \subseteq {h}
      BY <2>3
  <2>5. IsFiniteSet({h}) /\ Cardinality({h}) = 1
      BY FS_Singleton
  <2>6. Cardinality(InUse) <= 1
      BY <2>4, <2>5, FS_Subset
  <2> QED
      BY <2>2, <2>6
<1> QED
    BY <1>1, Invariance, PTL
=============================================================================
