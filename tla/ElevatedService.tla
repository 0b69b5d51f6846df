--------------------------- MODULE ElevatedService ---------------------------
(***************************************************************************)
(* Who starts, keeps and lets go of the elevated helper on Linux and       *)
(* Windows: JobsService.StartJob (service/jobs.go), elevatedService        *)
(* (priv/service_elevated.go), spawnHelper and helperProcess               *)
(* (priv/transport_linux.go, transport_unix.go, transport_windows.go) and  *)
(* heldRunnable (priv/keepalive.go), with any number of StartJob calls     *)
(* racing, a user who answers the elevation prompt when he likes, and      *)
(* helpers that idle out or die.                                           *)
(*                                                                         *)
(* A call is followed from StartJob into the job it starts: one process of *)
(* this module is the RPC and then the job's goroutine.  What a helper     *)
(* does with a request is HelperSession's business, how a call on the      *)
(* connection ends is PrivClient's, the job's status JobManager's.         *)
(*                                                                         *)
(* StartJob's own Shutdown, for an Enqueue that refuses, is left out: that *)
(* Enqueue never refuses here is EnqueueIsFree, a part of JobIsAlone.      *)
(*                                                                         *)
(* An operator that stands just before a definition and takes its name     *)
(* with a suffix is a faulty variant, used only to try the properties.     *)
(***************************************************************************)
EXTENDS Naturals, FiniteSets

CONSTANTS
    Calls,      \* the calls of StartJob
    MaxHelpers, \* how many helpers may be spawned in all (bound)
    Systems     \* the systems to consider

ASSUME SystemsAssumption == Systems \subseteq {"linux", "windows"}
ASSUME MaxHelpersAssumption == MaxHelpers \in Nat \ {0}

VARIABLES
    os,       \* the system the app was built for: it never changes
    pc,       \* where each call stands
    ctxEnded, \* calls whose RPC context has ended
    start,    \* holder of JobsService.start
    job,      \* the call whose job is pending or running
    mu,       \* holder of elevatedService.mu
    proc,     \* elevatedService.proc
    client,   \* elevatedService.client: the helper at its other end
    hold,     \* elevatedService.hold: the call whose keepalive it is
    pings,    \* the helper each running keepalive pings
    mine,     \* the helper a call in EnsureReady is spawning
    spawned,  \* helpers spawned so far
    helper,   \* life of each helper process
    conn,     \* its connection, seen from the app
    exit,     \* its exit status in helperProcess.done
    waiting,  \* helpers for which release's goroutine waits
    dirs      \* helpers whose socket directory exists

callVars == <<pc, ctxEnded, mine>>
lockVars == <<start, mu>>
serviceVars == <<proc, client, hold, pings>>
procVars == <<spawned, helper, conn, exit, waiting, dirs>>
vars == <<callVars, lockVars, job, serviceVars, procVars>>

None == 0
NoCall == "none"
ASSUME CallsAssumption == NoCall \notin Calls
Helpers == 1 .. MaxHelpers

Init ==
    /\ os \in Systems
    /\ pc = [c \in Calls |-> "idle"] /\ ctxEnded = {}
    /\ start = NoCall /\ job = NoCall /\ mu = NoCall
    /\ proc = None /\ client = None /\ hold = NoCall
    /\ pings = [c \in Calls |-> None] /\ mine = [c \in Calls |-> None]
    /\ spawned = 0
    /\ helper = [h \in Helpers |-> "none"]
    /\ conn = [h \in Helpers |-> "none"]
    /\ exit = [h \in Helpers |-> "none"]
    /\ waiting = {} /\ dirs = {}

(* A process runs with the user's consent, or (pkexec) while it asks.      *)
Elevated(h) == helper[h] = "up"
Serving(h) == helper[h] = "up" /\ conn[h] = "open"

(* helperProcess.alive: on Linux it looks for the exit status in done,     *)
(* where release's goroutine may have it in hand just now.                 *)
Alive(h) == h \in {g \in Helpers : exit[g] # "there"}

To(c, l) == pc' = [pc EXCEPT ![c] = l]

(* helperProcess.release: disconnect, and on Linux wait for the exit.      *)
Release(h) ==
    /\ conn' = [conn EXCEPT ![h] = IF @ = "open" THEN "closed" ELSE @]
    /\ waiting' = IF os = "linux" THEN waiting \cup {h} ELSE waiting
    /\ UNCHANGED <<spawned, helper, exit, dirs>>

-----------------------------------------------------------------------------
(* StartJob up to EnsureReady, one call at a time.                         *)

Begin(c, allowed) ==
    /\ pc[c] = "idle" /\ start = NoCall
    /\ IF allowed THEN start' = c /\ To(c, "plan")
       ELSE start' = NoCall /\ To(c, "refused")
    /\ UNCHANGED <<ctxEnded, mine, mu, job, serviceVars, procVars>>
StartJobUnchecked(c) == Begin(c, TRUE)
StartJob(c) == Begin(c, job = NoCall)

(* The probe, the drive check or the installer's own checks refuse.        *)
PlanFails(c) ==
    /\ pc[c] = "plan"
    /\ start' = NoCall /\ To(c, "refused")
    /\ UNCHANGED <<ctxEnded, mine, mu, job, serviceVars, procVars>>

ContextEnds(c) ==
    /\ pc[c] \in {"plan", "ping", "checkProc", "spawn", "prompt", "dial", "handshake"}
    /\ c \notin ctxEnded
    /\ ctxEnded' = ctxEnded \cup {c}
    /\ UNCHANGED <<pc, mine, lockVars, job, serviceVars, procVars>>

-----------------------------------------------------------------------------
(* EnsureReady, under mu throughout.                                       *)

EnsureReady(c) ==
    /\ pc[c] = "plan" /\ mu = NoCall
    /\ mu' = c
    /\ To(c, IF client # None THEN "ping" ELSE "checkProc")
    /\ UNCHANGED <<ctxEnded, mine, start, job, serviceVars, procVars>>

(* EnsureReady returns an error, and so does StartJob. *)
Fails(c) == start' = NoCall /\ mu' = NoCall /\ To(c, "refused")

PingAnswered(c) ==
    /\ pc[c] = "ping" /\ Serving(client)
    /\ mu' = NoCall /\ To(c, "enqueue")
    /\ UNCHANGED <<ctxEnded, mine, start, job, serviceVars, procVars>>

(* No answer, or not within five seconds: dropClient.  (The client is       *)
(* always proc's.)                                                          *)
DropClient(keptProc) ==
    /\ hold' = NoCall
    /\ pings' = IF hold = NoCall THEN pings ELSE [pings EXCEPT ![hold] = None]
    /\ client' = None
    /\ proc' = keptProc
    /\ Release(client)
PingUnanswered(c, keptProc) ==
    /\ pc[c] = "ping"
    /\ DropClient(keptProc)
    /\ To(c, "checkProc")
    /\ UNCHANGED <<ctxEnded, mine, lockVars, job>>
PingFailsForgettingProc(c) == PingUnanswered(c, None)
PingFails(c) == PingUnanswered(c, proc)

(* A released helper that has not exited blocks a new spawn.               *)
StillThere(c) ==
    /\ pc[c] = "checkProc" /\ Alive(proc)
    /\ Fails(c)
    /\ UNCHANGED <<ctxEnded, mine, job, serviceVars, procVars>>

MayRespawn(c) ==
    /\ pc[c] = "checkProc" /\ ~Alive(proc)
    /\ proc' = None
    /\ To(c, "spawn")
    /\ UNCHANGED <<ctxEnded, mine, lockVars, job, client, hold, pings, procVars>>

(* spawnHelper starts pkexec, or asks UAC on a thread of its own.          *)
Spawn(c) ==
    LET h == spawned + 1 IN
    /\ pc[c] = "spawn" /\ h \in Helpers
    /\ spawned' = h
    /\ mine' = [mine EXCEPT ![c] = h]
    /\ helper' = [helper EXCEPT ![h] = "asking"]
    /\ dirs' = IF os = "linux" THEN dirs \cup {h} ELSE dirs
    /\ To(c, "prompt")
    /\ UNCHANGED <<ctxEnded, lockVars, job, serviceVars, conn, exit, waiting>>

SpawnFails(c) ==
    /\ pc[c] = "spawn"
    /\ Fails(c)
    /\ UNCHANGED <<ctxEnded, mine, job, serviceVars, procVars>>

(* The user consented.  On Linux this is seen by the helper's socket, so   *)
(* the helper still runs; on Windows UAC reports it.                       *)
PromptAnswered(c) ==
    /\ pc[c] = "prompt"
    /\ helper[mine[c]] = "up" \/ (os = "windows" /\ helper[mine[c]] = "exited")
    /\ To(c, "dial")
    /\ UNCHANGED <<ctxEnded, mine, lockVars, job, serviceVars, procVars>>

PromptRefused(c) ==
    /\ pc[c] = "prompt"
    /\ os = "windows" /\ helper[mine[c]] = "denied"
    /\ Fails(c)
    /\ UNCHANGED <<ctxEnded, mine, job, serviceVars, procVars>>

(* The context ended, or two minutes passed, or (Linux) the process has    *)
(* exited.  Linux releases the process and returns it; Windows leaves the  *)
(* prompt to abandon and returns none.                                     *)
GiveUpOnPrompt(c) ==
    /\ pc[c] = "prompt"
    /\ IF os = "linux" THEN proc' = mine[c] /\ Release(mine[c])
       ELSE UNCHANGED <<proc, procVars>>
    /\ Fails(c)
    /\ UNCHANGED <<ctxEnded, mine, job, client, hold, pings>>

Dial(c) ==
    /\ pc[c] = "dial" /\ helper[mine[c]] = "up"
    /\ conn' = [conn EXCEPT ![mine[c]] = "open"]
    /\ proc' = mine[c]
    /\ To(c, "handshake")
    /\ UNCHANGED <<ctxEnded, mine, lockVars, job, client, hold, pings, spawned,
                   helper, exit, waiting, dirs>>

(* The helper is gone; on Windows, where it has yet to create its pipe,    *)
(* the context may also end, or the time be up.                            *)
DialFails(c) ==
    /\ pc[c] = "dial" /\ (os = "windows" \/ helper[mine[c]] # "up")
    /\ proc' = mine[c] /\ Release(mine[c])
    /\ Fails(c)
    /\ UNCHANGED <<ctxEnded, mine, job, client, hold, pings>>

Handshake(c) ==
    /\ pc[c] = "handshake" /\ Serving(mine[c])
    /\ client' = mine[c]
    /\ mu' = NoCall /\ To(c, "enqueue")
    /\ UNCHANGED <<ctxEnded, mine, start, job, proc, hold, pings, procVars>>

(* This ping has no timeout but the RPC's context.                         *)
HandshakeFails(c) ==
    /\ pc[c] = "handshake"
    /\ ~Serving(mine[c]) \/ c \in ctxEnded
    /\ Release(mine[c])
    /\ Fails(c)
    /\ UNCHANGED <<ctxEnded, mine, job, serviceVars>>

-----------------------------------------------------------------------------
(* The job: Enqueue, and heldRunnable.Run around the pipeline.             *)

Enqueue(c) ==
    /\ pc[c] = "enqueue" /\ job = NoCall
    /\ job' = c /\ start' = NoCall /\ To(c, "hold")
    /\ UNCHANGED <<ctxEnded, mine, mu, serviceVars, procVars>>

(* Hold: the keepalive pings the session there is, if there is one.        *)
Hold(c) ==
    /\ pc[c] = "hold" /\ mu = NoCall
    /\ hold' = IF client = None THEN NoCall ELSE c
    /\ pings' = [pings EXCEPT ![c] = client]
    /\ To(c, "run")
    /\ UNCHANGED <<ctxEnded, mine, lockVars, job, proc, client, procVars>>

(* The pipeline has returned; release stops the keepalive, without mu.     *)
StopKeepalive(c, left) ==
    /\ pc[c] = "run"
    /\ pings' = left
    /\ To(c, "unhold")
    /\ UNCHANGED <<ctxEnded, mine, lockVars, job, proc, client, hold, procVars>>
PipelineReturnsUnstopped(c) == StopKeepalive(c, pings)
PipelineReturns(c) == StopKeepalive(c, [pings EXCEPT ![c] = None])

Unhold(c) ==
    /\ pc[c] = "unhold" /\ mu = NoCall
    /\ hold' = IF hold = c THEN NoCall ELSE hold
    /\ To(c, "end")
    /\ UNCHANGED <<ctxEnded, mine, lockVars, job, proc, client, pings, procVars>>

(* Manager.run sets the job's final status.                                *)
JobEnds(c) ==
    /\ pc[c] = "end"
    /\ job' = NoCall /\ To(c, "done")
    /\ UNCHANGED <<ctxEnded, mine, lockVars, serviceVars, procVars>>

(* The keepalive's first failed ping ends it.                              *)
PingLost(c) ==
    /\ pings[c] # None /\ ~Serving(pings[c])
    /\ pings' = [pings EXCEPT ![c] = None]
    /\ UNCHANGED <<callVars, lockVars, job, proc, client, hold, procVars>>

-----------------------------------------------------------------------------
(* The user, and the helper processes.                                     *)

Answer(h, yes) ==
    /\ helper[h] = "asking"
    /\ helper' = [helper EXCEPT ![h] = IF yes THEN "up" ELSE "denied"]
    /\ exit' = IF yes THEN exit ELSE [exit EXCEPT ![h] = "there"]
    /\ UNCHANGED <<callVars, lockVars, job, serviceVars, spawned, conn, waiting, dirs>>
UserConsents(h) == Answer(h, TRUE)
UserRefuses(h) == Answer(h, FALSE)

Exits(h) ==
    /\ helper' = [helper EXCEPT ![h] = "exited"]
    /\ exit' = [exit EXCEPT ![h] = "there"]
    /\ UNCHANGED <<callVars, lockVars, job, serviceVars, spawned, conn, waiting, dirs>>

(* It goes by itself once its client has left or nothing keeps it from     *)
(* being idle; a keepalive's pings come three times as often as the idle   *)
(* timeout.                                                                *)
HelperLeaves(h) ==
    /\ helper[h] = "up"
    /\ \A c \in Calls : pings[c] # h \/ conn[h] # "open"
    /\ Exits(h)

HelperDies(h) == helper[h] = "up" /\ Exits(h)

(* release's goroutine takes the exit status, puts it back, removes the    *)
(* directory; or gives up after seventy seconds.                           *)
WaiterTakes(h) ==
    /\ h \in waiting /\ exit[h] = "there"
    /\ exit' = [exit EXCEPT ![h] = "held"]
    /\ UNCHANGED <<callVars, lockVars, job, serviceVars, spawned, helper, conn, waiting, dirs>>
WaiterLeaves(h, status) ==
    /\ h \in waiting /\ exit[h] = "held"
    /\ exit' = [exit EXCEPT ![h] = status]
    /\ waiting' = waiting \ {h} /\ dirs' = dirs \ {h}
    /\ UNCHANGED <<callVars, lockVars, job, serviceVars, spawned, helper, conn>>
WaiterKeepsStatus(h) == WaiterLeaves(h, "gone")
WaiterPutsBack(h) == WaiterLeaves(h, "there")
WaiterGivesUp(h) ==
    /\ h \in waiting /\ exit[h] = "none"
    /\ waiting' = waiting \ {h}
    /\ UNCHANGED <<callVars, lockVars, job, serviceVars, spawned, helper, conn, exit, dirs>>

-----------------------------------------------------------------------------
RPC(c) == \/ PlanFails(c) \/ EnsureReady(c) \/ PingAnswered(c) \/ PingFails(c)
          \/ StillThere(c) \/ MayRespawn(c) \/ Spawn(c)
          \/ SpawnFails(c) \/ PromptAnswered(c) \/ PromptRefused(c)
          \/ GiveUpOnPrompt(c) \/ Dial(c) \/ DialFails(c) \/ Handshake(c)
          \/ HandshakeFails(c)
Job(c) == \/ Enqueue(c) \/ Hold(c) \/ PipelineReturns(c) \/ Unhold(c)
          \/ JobEnds(c)
User(h) == UserConsents(h) \/ UserRefuses(h)
Process(h) == HelperLeaves(h) \/ WaiterTakes(h) \/ WaiterPutsBack(h)

Acts ==
    \/ \E c \in Calls : StartJob(c) \/ RPC(c) \/ Job(c) \/ PingLost(c) \/ ContextEnds(c)
    \/ \E h \in Helpers : User(h) \/ Process(h) \/ HelperDies(h) \/ WaiterGivesUp(h)

Next == UNCHANGED os /\ Acts

Spec == Init /\ [][Next]_<<vars, os>>

(* Calls and jobs proceed (each wait of theirs is bounded), mutexes are    *)
(* handed on, a helper nobody keeps alive leaves.  The user need not       *)
(* answer: only what follows from an answer is assumed.                    *)
Fairness ==
    /\ \A c \in Calls : SF_vars(RPC(c)) /\ SF_vars(Job(c)) /\ WF_vars(PingLost(c))
    /\ \A h \in Helpers : WF_vars(HelperLeaves(h)) /\ WF_vars(WaiterTakes(h))
                          /\ WF_vars(WaiterPutsBack(h))
FairSpec == Spec /\ Fairness

-----------------------------------------------------------------------------
(* Properties.                                                             *)

(* On Linux the app never stacks a second elevated process, or a second    *)
(* prompt, on one it cannot kill (service_elevated.go:34-36), and the      *)
(* socket directory is there as long as the helper that uses it.           *)
InUse == {h \in Helpers : helper[h] \in {"asking", "up"}}
OneElevatedHelper == os = "linux" => Cardinality(InUse) <= 1 /\ InUse \subseteq dirs

(* No other StartJob takes the session away from a job between its         *)
(* EnsureReady and its end (service/jobs.go:57-59).                        *)
JobKeepsSession ==
    [][\A c \in Calls : pc[c] \in {"enqueue", "hold", "run", "unhold", "end"} =>
           client' = client]_vars

(* A helper serves one job: under JobsService.start, what Active said      *)
(* still holds at Enqueue, so none is brought up for a job that is then    *)
(* refused; and a keepalive lives within its job, so none is kept past it. *)
EnqueueIsFree == \A c \in Calls : pc[c] = "enqueue" => job = NoCall
KeepaliveWithinJob == \A c \in Calls : pings[c] # None => job = c
JobIsAlone == EnqueueIsFree /\ KeepaliveWithinJob

(* Every StartJob is answered and every job comes to its end, whatever     *)
(* helpers and users do, and a helper that has exited does not block the   *)
(* next one for good.                                                      *)
CallsReturn == \A c \in Calls : start = c ~> pc[c] \in {"refused", "done"}
DeadHelperUnblocks ==
    \A h \in Helpers : helper[h] = "exited" ~> (proc # h \/ ~Alive(h))
NobodyWaitsForever == CallsReturn /\ DeadHelperUnblocks

(* No elevated process stays behind once the jobs are over.                *)
NoHelperStays == \A h \in Helpers : Elevated(h) ~> ~Elevated(h)

=============================================================================
