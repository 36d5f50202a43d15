------------------------ MODULE ControllerGenerations ------------------------
(***************************************************************************)
(* The controller of a plan and the supervisor that launches, adopts,      *)
(* replaces and ends it.                                                   *)
(*                                                                         *)
(*   commands/watch/generations.ts   beginGeneration, ensureController-    *)
(*                                   Generation, launchController-         *)
(*                                   Generation, resolveGeneration         *)
(*   commands/watch/supervisor.ts    tick, ensureController,               *)
(*                                   superviseController, terminateAll-    *)
(*                                   GenerationsConfirmed, the loop's end  *)
(*   commands/job/exec-wrapper.ts    runExecWrapper                        *)
(*                                                                         *)
(* A wrapper is a process that claims the nonce of its generation and      *)
(* starts the controller in a process group of its own.  The jobs and the  *)
(* gate are one bit, green; the tracks are in TrackCohort.                 *)
(***************************************************************************)
EXTENDS Naturals, Sequences

CONSTANTS
    MaxGenerations,  \* bound on the generations of a journal
    MaxWrappers,     \* bound on the wrappers ever spawned
    MaxRelaunches,   \* MAX_RELAUNCHES_PER_HOUR
    MaxDowns,        \* bound on the times the supervisor goes down
    Faults           \* what may go wrong: see FaultNames

FaultNames ==
    {"crash",        \* the supervisor dies between two steps
     "signal",       \* the operator stops the supervisor
     "wrapper",      \* a wrapper dies
     "spawn",        \* the command of the controller cannot be spawned
     "launch",       \* the launch of a wrapper throws
     "block"}        \* a tick finds the cycle blocked by something else

ASSUME GenerationsAssumption ==
    /\ {MaxGenerations, MaxWrappers, MaxRelaunches, MaxDowns} \subseteq Nat
    /\ Faults \subseteq FaultNames

VARIABLES
    gens,       \* generations of the journal
    cycle,      \* the status of the cycle, REQUESTS when requests block it
    green,      \* the gate of the jobs would pass
    files,      \* files[g]: the sidecars of a generation
    wrapper,    \* wrapper[w]: a process of exec-wrapper
    cmd,        \* cmd[g]: the controller of a generation
    starts,     \* starts[g]: how often it was started, which no code counts
    sup,        \* the supervisor's memory
    downs       \* times the supervisor went down

vars == <<gens, cycle, green, files, wrapper, cmd, starts, sup, downs>>

-----------------------------------------------------------------------------
(* Types *)

Gens == 1 .. MaxGenerations

Wrappers == 1 .. MaxWrappers

(* wrapperRef 0 is the absent reference.                                   *)
Generation ==
    [state : {"active", "controller-suspected-stall", "superseded", "terminated"},
     intent : BOOLEAN, wrapperRef : 0 .. MaxWrappers, processRef : BOOLEAN]

(* claim is the wrapper that created the claim, 0 for none.                *)
Sidecars == [claim : 0 .. MaxWrappers, identity : BOOLEAN, result : BOOLEAN]

WrapperPhases == {"unborn", "starting", "claimed", "spawned", "waiting", "gone"}

(* "leaderless": the leader is dead and descendants of its group are not.  *)
CommandStates == {"none", "running", "leaderless", "gone", "killed"}

Pcs == {"off", "idle", "ensure", "spawn", "record", "supervise", "resolve", "gate",
        "complete", "stop"}

(* relaunch: ensureController was called by superviseController; spawned:  *)
(* the wrapper just spawned; next: which reference is to be ended next;    *)
(* released: the last loop ended in order.                                 *)
Memory ==
    [pc : Pcs, relaunch : BOOLEAN, spawned : 0 .. MaxWrappers,
     waiting : BOOLEAN, stamps : 0 .. MaxRelaunches, next : 1 .. (2 * MaxGenerations + 1),
     released : BOOLEAN]

GenTypeOK ==
    /\ gens \in Seq(Generation)
    /\ Len(gens) <= MaxGenerations
    /\ cycle \in {"IN_PROGRESS", "BLOCKED", "REQUESTS", "COMPLETE"}
    /\ green \in BOOLEAN
    /\ files \in [Gens -> Sidecars]
    /\ wrapper \in [Wrappers -> [gen : 0 .. MaxGenerations, at : WrapperPhases]]
    /\ cmd \in [Gens -> CommandStates]
    /\ starts \in [Gens -> Nat]
    /\ sup \in Memory
    /\ downs \in 0 .. MaxDowns

-----------------------------------------------------------------------------
(* Observations *)

Held == {"active", "controller-suspected-stall"}

(* activeGeneration: there is at most one; 0 if there is none.             *)
ActiveSet == {g \in 1 .. Len(gens) : gens[g].state \in Held}

HasActive == ActiveSet # {}

Active == CHOOSE g \in ActiveSet : \A h \in ActiveSet : g <= h

WrapperAlive(w) == wrapper[w].at \notin {"unborn", "gone"}

(* refIsAlive of a command asks for its leader.                            *)
LeaderAlive(g) == cmd[g] = "running"

GroupGone(g) == cmd[g] \in {"none", "gone", "killed"}

ControllerLives(g) == cmd[g] \in {"running", "leaderless"}

(* controllerGenerationHasUnresolvedClaim                                  *)
UnresolvedClaim(g) ==
    /\ gens[g].intent
    /\ ~gens[g].processRef
    /\ files[g].claim # 0
    /\ ~files[g].result

(* identity.command was captured by the wrapper that holds the claim.      *)
Identified(g) == gens[g].intent /\ files[g].identity

-----------------------------------------------------------------------------
(* The wrapper and the command *)

(* Mutant of Claim: the file is opened without wx.                         *)
ClaimShared(w) ==
    /\ wrapper[w].at = "starting"
    /\ files' = [files EXCEPT ![wrapper[w].gen].claim = w]
    /\ wrapper' = [wrapper EXCEPT ![w].at = "claimed"]
    /\ UNCHANGED <<gens, cycle, green, cmd, starts, sup, downs>>

(* The claim is created with wx: who finds one dies.                       *)
Claim(w) ==
    LET g == wrapper[w].gen
    IN  /\ wrapper[w].at = "starting"
        /\ IF files[g].claim = 0
             THEN /\ files' = [files EXCEPT ![g].claim = w]
                  /\ wrapper' = [wrapper EXCEPT ![w].at = "claimed"]
             ELSE /\ wrapper' = [wrapper EXCEPT ![w].at = "gone"]
                  /\ UNCHANGED files
        /\ UNCHANGED <<gens, cycle, green, cmd, starts, sup, downs>>

StartCommand(w) ==
    LET g == wrapper[w].gen
    IN  /\ wrapper[w].at = "claimed"
        /\ cmd' = [cmd EXCEPT ![g] = "running"]
        /\ starts' = [starts EXCEPT ![g] = @ + 1]
        /\ wrapper' = [wrapper EXCEPT ![w].at = "spawned"]
        /\ UNCHANGED <<gens, cycle, green, files, sup, downs>>

(* finish(127): a result and no identity.                                  *)
CommandMissing(w) ==
    /\ "spawn" \in Faults
    /\ wrapper[w].at = "claimed"
    /\ files' = [files EXCEPT ![wrapper[w].gen].result = TRUE]
    /\ wrapper' = [wrapper EXCEPT ![w].at = "gone"]
    /\ UNCHANGED <<gens, cycle, green, cmd, starts, sup, downs>>

Identify(w) ==
    /\ wrapper[w].at = "spawned"
    /\ files' = [files EXCEPT ![wrapper[w].gen].identity = TRUE]
    /\ wrapper' = [wrapper EXCEPT ![w].at = "waiting"]
    /\ UNCHANGED <<gens, cycle, green, cmd, starts, sup, downs>>

(* The command has exited: its group is drained, then the result written.  *)
Finish(w) ==
    LET g == wrapper[w].gen
    IN  /\ wrapper[w].at = "waiting"
        /\ cmd[g] # "running"
        /\ cmd' = [cmd EXCEPT ![g] = IF @ = "leaderless" THEN "gone" ELSE @]
        /\ files' = [files EXCEPT ![g].result = TRUE]
        /\ wrapper' = [wrapper EXCEPT ![w].at = "gone"]
        /\ UNCHANGED <<gens, cycle, green, starts, sup, downs>>

WrapperDies(w) ==
    /\ "wrapper" \in Faults
    /\ WrapperAlive(w)
    /\ wrapper' = [wrapper EXCEPT ![w].at = "gone"]
    /\ UNCHANGED <<gens, cycle, green, files, cmd, starts, sup, downs>>

(* The controller ends, or only its leader does.                           *)
CommandExits(g) ==
    /\ cmd[g] = "running"
    /\ \E s \in {"gone", "leaderless"} : cmd' = [cmd EXCEPT ![g] = s]
    /\ UNCHANGED <<gens, cycle, green, files, wrapper, starts, sup, downs>>

DescendantsExit(g) ==
    /\ cmd[g] = "leaderless"
    /\ cmd' = [cmd EXCEPT ![g] = "gone"]
    /\ UNCHANGED <<gens, cycle, green, files, wrapper, starts, sup, downs>>

(* The jobs the cycle asks for are done.                                   *)
TurnGreen ==
    /\ ~green
    /\ gens # <<>>
    /\ green' = TRUE
    /\ UNCHANGED <<gens, cycle, files, wrapper, cmd, starts, sup, downs>>

-----------------------------------------------------------------------------
(* The supervisor: a tick up to ensureController *)

Go(pc) == sup' = [sup EXCEPT !.pc = pc]

Off ==
    [pc |-> "off", relaunch |-> FALSE, spawned |-> 0, waiting |-> FALSE,
     stamps |-> 0, next |-> 1, released |-> FALSE]

(* A loop begins, with a new Backoff, unless the cycle is over.            *)
Start ==
    /\ sup.pc = "off"
    /\ cycle # "COMPLETE"
    /\ sup' = [Off EXCEPT !.pc = "idle"]
    /\ UNCHANGED <<gens, cycle, green, files, wrapper, cmd, starts, downs>>

Custody(why) ==
    /\ cycle' = why
    /\ sup' = [sup EXCEPT !.pc = "idle", !.relaunch = FALSE, !.spawned = 0, !.next = 1]
    /\ UNCHANGED <<gens, green, files, wrapper, cmd, starts, downs>>

Idle == sup.pc = "idle" /\ cycle = "IN_PROGRESS"

(* The binding, the admission, the recovery check or the requests block.   *)
TickBlocks ==
    /\ "block" \in Faults
    /\ Idle
    /\ \E why \in {"BLOCKED", "REQUESTS"} : Custody(why)

(* beginGeneration: every generation before it loses the token.            *)
Superseding(gs) ==
    Append([g \in 1 .. Len(gs) |->
                IF gs[g].state \in Held THEN [gs[g] EXCEPT !.state = "superseded"] ELSE gs[g]],
           [state |-> "active", intent |-> FALSE, wrapperRef |-> 0, processRef |-> FALSE])

(* A tick that may go on; without a generation it begins one.              *)
BeginTick ==
    /\ Idle
    /\ HasActive \/ Len(gens) < MaxGenerations
    /\ gens' = IF HasActive THEN gens ELSE Superseding(gens)
    /\ Go("ensure")
    /\ UNCHANGED <<cycle, green, files, wrapper, cmd, starts, downs>>

Exhausted == sup.stamps >= MaxRelaunches

(* Before the backoff is over nothing is adopted or launched.              *)
EnsureDeferred ==
    /\ sup.pc = "ensure"
    /\ sup.waiting
    /\ Go("supervise")
    /\ UNCHANGED <<gens, cycle, green, files, wrapper, cmd, starts, downs>>

EnsureExhausted ==
    /\ sup.pc = "ensure"
    /\ ~sup.waiting
    /\ Exhausted
    /\ Custody("BLOCKED")

Ensuring == sup.pc = "ensure" /\ ~sup.waiting /\ ~Exhausted

Adopted(gs, g) ==
    [gs EXCEPT ![g].wrapperRef = files[g].claim, ![g].processRef = TRUE]

(* collectControllerGeneration                                             *)
EnsureAdopts ==
    /\ Ensuring
    /\ Identified(Active)
    /\ gens' = Adopted(gens, Active)
    /\ Go("supervise")
    /\ UNCHANGED <<cycle, green, files, wrapper, cmd, starts, downs>>

Unadopted == Ensuring /\ ~Identified(Active)

Untracked ==
    /\ Unadopted
    /\ ~gens[Active].processRef
    /\ gens[Active].wrapperRef = 0

(* A wrapper that is known is waited for.                                  *)
EnsureKnown ==
    /\ Unadopted
    /\ gens[Active].processRef \/ gens[Active].wrapperRef # 0
    /\ Go("supervise")
    /\ UNCHANGED <<gens, cycle, green, files, wrapper, cmd, starts, downs>>

(* Mutant of EnsureEnded: a controller that ended is waited for.           *)
EnsureEndedIgnored ==
    /\ Untracked
    /\ gens[Active].intent
    /\ files[Active].result
    /\ Go("supervise")
    /\ UNCHANGED <<gens, cycle, green, files, wrapper, cmd, starts, downs>>

EnsureEnded ==
    /\ Untracked
    /\ gens[Active].intent
    /\ files[Active].result
    /\ Custody("BLOCKED")

(* A claim without an identity: a grace, then custody.                     *)
ClaimAmbiguous ==
    /\ Untracked
    /\ gens[Active].intent
    /\ ~files[Active].result
    /\ files[Active].claim # 0

EnsureYoungClaim ==
    /\ ClaimAmbiguous
    /\ Go("supervise")
    /\ UNCHANGED <<gens, cycle, green, files, wrapper, cmd, starts, downs>>

EnsureOldClaim == ClaimAmbiguous /\ Custody("BLOCKED")

(* launchControllerGeneration writes the intent, of the same nonce if it   *)
(* has one.                                                                *)
Launchable ==
    /\ Untracked
    /\ gens[Active].intent => ~files[Active].result /\ files[Active].claim = 0

EnsureLaunch ==
    /\ Launchable
    /\ gens' = [gens EXCEPT ![Active].intent = TRUE]
    /\ Go("spawn")
    /\ UNCHANGED <<cycle, green, files, wrapper, cmd, starts, downs>>

(* It throws, before the intent or after it: backoff, then the tick goes   *)
(* on, or custody at the limit.                                            *)
LaunchFails ==
    /\ "launch" \in Faults
    /\ Launchable \/ sup.pc = "spawn"
    /\ \/ /\ sup.stamps + 1 < MaxRelaunches
          /\ sup' = [sup EXCEPT !.pc = IF sup.relaunch THEN "gate" ELSE "supervise",
                                !.relaunch = FALSE, !.stamps = @ + 1, !.waiting = TRUE]
          /\ UNCHANGED cycle
       \/ /\ sup.stamps + 1 >= MaxRelaunches
          /\ cycle' = "BLOCKED"
          /\ sup' = [sup EXCEPT !.pc = "idle", !.relaunch = FALSE, !.stamps = @ + 1,
                                !.waiting = TRUE]
    /\ UNCHANGED <<gens, green, files, wrapper, cmd, starts, downs>>

NextWrapper(w) ==
    /\ wrapper[w].at = "unborn"
    /\ \A v \in Wrappers : v < w => wrapper[v].at # "unborn"

Spawn(w) ==
    /\ sup.pc = "spawn"
    /\ NextWrapper(w)
    /\ wrapper' = [wrapper EXCEPT ![w] = [gen |-> Active, at |-> "starting"]]
    /\ sup' = [sup EXCEPT !.pc = "record", !.spawned = w]
    /\ UNCHANGED <<gens, cycle, green, files, cmd, starts, downs>>

(* wrapperRef; a replacement also counts and waits.                        *)
RecordWrapper ==
    /\ sup.pc = "record"
    /\ gens' = [gens EXCEPT ![Active].wrapperRef = sup.spawned]
    /\ sup' = [sup EXCEPT !.pc = IF sup.relaunch THEN "gate" ELSE "supervise",
                          !.spawned = 0, !.relaunch = FALSE,
                          !.stamps = IF sup.relaunch THEN @ + 1 ELSE @,
                          !.waiting = @ \/ sup.relaunch]
    /\ UNCHANGED <<cycle, green, files, wrapper, cmd, starts, downs>>

(* relaunchNotBefore passes.                                               *)
BackoffPasses ==
    /\ sup.waiting
    /\ sup' = [sup EXCEPT !.waiting = FALSE]
    /\ UNCHANGED <<gens, cycle, green, files, wrapper, cmd, starts, downs>>

(* A relaunch becomes older than an hour, which it does not while launches *)
(* fail one after the other: with waits of 1, 5 and 15 minutes six of them *)
(* fit in an hour.                                                         *)
HourPasses ==
    /\ sup.stamps > 0
    /\ HasActive
    /\ gens[Active].wrapperRef # 0
    /\ sup' = [sup EXCEPT !.stamps = @ - 1]
    /\ UNCHANGED <<gens, cycle, green, files, wrapper, cmd, starts, downs>>

-----------------------------------------------------------------------------
(* The supervisor: superviseController *)

(* No controller of its own to look at yet: no new work.                   *)
SuperviseDeferred ==
    /\ sup.pc = "supervise"
    /\ ~gens[Active].processRef
    /\ Go("gate")
    /\ UNCHANGED <<gens, cycle, green, files, wrapper, cmd, starts, downs>>

(* decideStall over a controller that lives: fresh or stale heartbeat,     *)
(* activity or none.  Its adapter calls a living process indeterminate.    *)
SafeToReplace(g) == ~LeaderAlive(g)

Supervising == sup.pc = "supervise" /\ gens[Active].processRef

Observe(state) ==
    /\ gens' = [gens EXCEPT ![Active].state = state]
    /\ Go("gate")
    /\ UNCHANGED <<cycle, green, files, wrapper, cmd, starts, downs>>

SuperviseHealthy ==
    /\ Supervising
    /\ ~SafeToReplace(Active)
    /\ Observe("active")

SuperviseSuspects ==
    /\ Supervising
    /\ ~SafeToReplace(Active)
    /\ Observe("controller-suspected-stall")

SuperviseSilence ==
    /\ Supervising
    /\ ~SafeToReplace(Active)
    /\ Custody("BLOCKED")

(* resolve-generation                                                      *)
SuperviseDead ==
    /\ Supervising
    /\ SafeToReplace(Active)
    /\ Go("resolve")
    /\ UNCHANGED <<gens, cycle, green, files, wrapper, cmd, starts, downs>>

(* terminateGroupConfirmed: a group whose leader is dead is not signalled. *)
Unconfirmed(g) == ~GroupGone(g) /\ ~LeaderAlive(g)

Ended(g) == IF LeaderAlive(g) THEN [cmd EXCEPT ![g] = "killed"] ELSE cmd

ResolveUnconfirmed ==
    /\ sup.pc = "resolve"
    /\ Unconfirmed(Active)
    /\ Custody("BLOCKED")

Resolved ==
    /\ sup.pc = "resolve"
    /\ ~Unconfirmed(Active)

(* Dead and gone.  The limit and the backoff, which the code asks for once *)
(* more here, were asked for by ensureController in the same tick: only a  *)
(* tick that passed them has a controller of its own to look at.           *)
ResolveNotAdmitted ==
    /\ "block" \in Faults
    /\ Resolved
    /\ Custody("BLOCKED")

(* Generation N+1.  A group that ended while it was looked at twice leaves *)
(* "terminated".                                                           *)
Replace ==
    /\ Resolved
    /\ ~Exhausted
    /\ ~sup.waiting
    /\ Len(gens) < MaxGenerations
    /\ cmd' = Ended(Active)
    /\ \E s \in {"active", "terminated"} :
           gens' = Superseding([gens EXCEPT ![Active].state = s])
    /\ sup' = [sup EXCEPT !.pc = "ensure", !.relaunch = TRUE]
    /\ UNCHANGED <<cycle, green, files, wrapper, starts, downs>>

-----------------------------------------------------------------------------
(* The supervisor: the gate, COMPLETE and the end of the loop *)

GateRed ==
    /\ sup.pc = "gate"
    /\ ~green
    /\ Go("idle")
    /\ UNCHANGED <<gens, cycle, green, files, wrapper, cmd, starts, downs>>

GateGreen ==
    /\ sup.pc = "gate"
    /\ green
    /\ sup' = [sup EXCEPT !.pc = "complete", !.next = 1]
    /\ UNCHANGED <<gens, cycle, green, files, wrapper, cmd, starts, downs>>

(* The references to be ended: processRef then wrapperRef of each.         *)
RefGen == (sup.next + 1) \div 2

RefIsCommand == sup.next % 2 = 1

MoreRefs == sup.next <= 2 * Len(gens)

Ending == sup.pc \in {"complete", "stop"}

(* terminateGroupConfirmed of the next one: gone, killed or unconfirmed.   *)
EndCommand ==
    /\ Ending
    /\ MoreRefs
    /\ RefIsCommand
    /\ gens[RefGen].processRef => ~Unconfirmed(RefGen)
    /\ sup.pc = "stop" => ~UnresolvedClaim(RefGen)
    /\ cmd' = IF gens[RefGen].processRef THEN Ended(RefGen) ELSE cmd
    /\ sup' = [sup EXCEPT !.next = @ + 1]
    /\ UNCHANGED <<gens, cycle, green, files, wrapper, starts, downs>>

EndWrapper ==
    LET w == gens[RefGen].wrapperRef
    IN  /\ Ending
        /\ MoreRefs
        /\ ~RefIsCommand
        /\ wrapper' = IF w # 0 /\ WrapperAlive(w) THEN [wrapper EXCEPT ![w].at = "gone"]
                                                  ELSE wrapper
        /\ sup' = [sup EXCEPT !.next = @ + 1]
        /\ UNCHANGED <<gens, cycle, green, files, cmd, starts, downs>>

CompleteUnconfirmed ==
    /\ sup.pc = "complete"
    /\ MoreRefs
    /\ RefIsCommand
    /\ gens[RefGen].processRef
    /\ Unconfirmed(RefGen)
    /\ Custody("BLOCKED")

AllTerminated == [g \in 1 .. Len(gens) |-> [gens[g] EXCEPT !.state = "terminated"]]

(* One write: every generation terminated and the cycle COMPLETE.  The     *)
(* loop then ends: it finds every group gone, or an unresolved claim.      *)
Complete ==
    /\ sup.pc = "complete"
    /\ ~MoreRefs
    /\ gens' = AllTerminated
    /\ cycle' = "COMPLETE"
    /\ sup' = [Off EXCEPT !.released = \A g \in 1 .. Len(gens) : ~UnresolvedClaim(g)]
    /\ UNCHANGED <<green, files, wrapper, cmd, starts, downs>>

(* A signal between two ticks: what can be adopted is, then ended.         *)
Signal ==
    /\ "signal" \in Faults
    /\ sup.pc = "idle"
    /\ downs < MaxDowns
    /\ downs' = downs + 1
    /\ gens' = IF HasActive /\ Identified(Active) THEN Adopted(gens, Active) ELSE gens
    /\ sup' = [sup EXCEPT !.pc = "stop", !.next = 1]
    /\ UNCHANGED <<cycle, green, files, wrapper, cmd, starts>>

(* It throws and the lock stays.                                           *)
StopRetains ==
    /\ sup.pc = "stop"
    /\ MoreRefs
    /\ RefIsCommand
    /\ UnresolvedClaim(RefGen) \/ (gens[RefGen].processRef /\ Unconfirmed(RefGen))
    /\ sup' = Off
    /\ UNCHANGED <<gens, cycle, green, files, wrapper, cmd, starts, downs>>

Stop ==
    /\ sup.pc = "stop"
    /\ ~MoreRefs
    /\ gens' = AllTerminated
    /\ sup' = [Off EXCEPT !.released = TRUE]
    /\ UNCHANGED <<cycle, green, files, wrapper, cmd, starts, downs>>

Crash ==
    /\ "crash" \in Faults
    /\ sup.pc # "off"
    /\ downs < MaxDowns
    /\ downs' = downs + 1
    /\ sup' = Off
    /\ UNCHANGED <<gens, cycle, green, files, wrapper, cmd, starts>>

(* Mutant of ResumeOffline: nobody asks whether a controller lives.        *)
ResumeOfflineAnyway ==
    /\ sup.pc = "off"
    /\ cycle = "REQUESTS"
    /\ cycle' = "IN_PROGRESS"
    /\ gens' = [g \in 1 .. Len(gens) |->
                    IF gens[g].state \in Held THEN [gens[g] EXCEPT !.state = "superseded"]
                    ELSE gens[g]]
    /\ UNCHANGED <<green, files, wrapper, cmd, starts, sup, downs>>

(* The offline lane resumes a cycle that requests blocked: no reference of *)
(* a generation may be alive (recoverRejectedTask).                        *)
ResumeOffline ==
    /\ sup.pc = "off"
    /\ cycle = "REQUESTS"
    /\ \A g \in 1 .. Len(gens) :
           /\ gens[g].processRef => ~LeaderAlive(g)
           /\ gens[g].wrapperRef # 0 => ~WrapperAlive(gens[g].wrapperRef)
    /\ cycle' = "IN_PROGRESS"
    /\ gens' = [g \in 1 .. Len(gens) |->
                    IF gens[g].state \in Held THEN [gens[g] EXCEPT !.state = "superseded"]
                    ELSE gens[g]]
    /\ UNCHANGED <<green, files, wrapper, cmd, starts, sup, downs>>

-----------------------------------------------------------------------------
(* Specification *)

Init ==
    /\ gens = <<>>
    /\ cycle = "IN_PROGRESS"
    /\ green = FALSE
    /\ files = [g \in Gens |-> [claim |-> 0, identity |-> FALSE, result |-> FALSE]]
    /\ wrapper = [w \in Wrappers |-> [gen |-> 0, at |-> "unborn"]]
    /\ cmd = [g \in Gens |-> "none"]
    /\ starts = [g \in Gens |-> 0]
    /\ sup = Off
    /\ downs = 0

WrapperStep(w) ==
    \/ Claim(w)
    \/ StartCommand(w)
    \/ CommandMissing(w)
    \/ Identify(w)
    \/ Finish(w)

CommandStep(g) ==
    \/ CommandExits(g)
    \/ DescendantsExit(g)

Ensure ==
    \/ EnsureDeferred
    \/ EnsureExhausted
    \/ EnsureAdopts
    \/ EnsureKnown
    \/ EnsureEnded
    \/ EnsureYoungClaim
    \/ EnsureOldClaim
    \/ EnsureLaunch
    \/ LaunchFails
    \/ \E w \in Wrappers : Spawn(w)
    \/ RecordWrapper

Supervise ==
    \/ SuperviseDeferred
    \/ SuperviseHealthy
    \/ SuperviseSuspects
    \/ SuperviseSilence
    \/ SuperviseDead
    \/ ResolveUnconfirmed
    \/ ResolveNotAdmitted
    \/ Replace

EndOfTick ==
    \/ GateRed
    \/ GateGreen
    \/ EndCommand
    \/ EndWrapper
    \/ CompleteUnconfirmed
    \/ Complete
    \/ StopRetains
    \/ Stop

Next ==
    \/ \E w \in Wrappers : WrapperStep(w) \/ WrapperDies(w)
    \/ \E g \in Gens : CommandStep(g)
    \/ TurnGreen
    \/ Start
    \/ TickBlocks
    \/ BeginTick
    \/ Ensure
    \/ BackoffPasses
    \/ HourPasses
    \/ Supervise
    \/ EndOfTick
    \/ Signal
    \/ Crash
    \/ ResumeOffline

Spec == Init /\ [][Next]_vars

(* The loop ticks, backoffs pass, claims grow old and wrappers run.        *)
Loop == Start \/ BeginTick \/ Ensure \/ Supervise \/ EndOfTick

FairSpec ==
    /\ Spec
    /\ WF_vars(Loop)
    /\ WF_vars(BackoffPasses)
    /\ SF_vars(EnsureOldClaim)
    /\ \A w \in Wrappers : WF_vars(WrapperStep(w))
    /\ \A g \in Gens : WF_vars(DescendantsExit(g))

-----------------------------------------------------------------------------
(* Properties *)

(* The controller of a generation is started at most once, however often   *)
(* its intent is emitted again after a crash: the claim of the wrapper     *)
(* decides which of two wrappers of one nonce runs it.                     *)
StartedOnce == \A g \in Gens : starts[g] <= 1

(* Two controllers never coexist on one worktree.                          *)
OneController == \A g, h \in Gens : ControllerLives(g) /\ ControllerLives(h) => g = h

(* A generation is superseded only when its controller is dead.            *)
SupersededIsDead ==
    \A g \in 1 .. Len(gens) : gens[g].state = "superseded" => ~ControllerLives(g)

(* Silence kills nobody: a controller is killed only because the gate      *)
(* passed or the operator stops the supervisor, never because a heartbeat  *)
(* or its activity stopped (superviseController, resolveGeneration).       *)
SilenceKillsNobody == (\E g \in Gens : cmd[g] = "killed") => green \/ downs > 0

(* Whoever leaves leaves nobody: COMPLETE has no living controller.        *)
CompleteLeavesNobody == cycle = "COMPLETE" => \A g \in Gens : ~ControllerLives(g)

(* A supervisor that gave back its lock has no living controller.          *)
ReleasedLeavesNobody == sup.released => \A g \in Gens : ~ControllerLives(g)

(* A controller that was adopted is never abandoned: while its leader      *)
(* lives its generation keeps the token, whoever replaces it (the tick,    *)
(* the gate, a stop, the offline lane).                                    *)
AdoptedIsKept ==
    \A g \in 1 .. Len(gens) :
        gens[g].processRef /\ LeaderAlive(g) => gens[g].state \in Held

(* A launch that nobody will tell the supervisor of: its wrapper is on     *)
(* record and has gone without an identity, and ensureControllerGeneration *)
(* waits for it without a limit.                                           *)
LostLaunch ==
    /\ HasActive
    /\ gens[Active].wrapperRef # 0
    /\ ~WrapperAlive(gens[Active].wrapperRef)
    /\ ~gens[Active].processRef
    /\ ~files[Active].identity

(* A supervised cycle gets a controller back or somebody is told: of all   *)
(* the ways a launch may fail only a lost one leaves it waiting for ever.  *)
ControllerReturns ==
    (sup.pc = "idle" /\ cycle = "IN_PROGRESS")
        ~> \/ \E g \in Gens : LeaderAlive(g)
           \/ cycle # "IN_PROGRESS"
           \/ LostLaunch
           \/ ~HasActive /\ Len(gens) = MaxGenerations
=============================================================================
