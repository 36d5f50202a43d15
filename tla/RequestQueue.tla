---------------------------- MODULE RequestQueue ----------------------------
(***************************************************************************)
(* The queue of requests of a journal: commands emit files, the supervisor *)
(* consumes them in batches (copy of the journal, one write, then the      *)
(* files), and the offline lane replaces a rejected registration.          *)
(*                                                                         *)
(*   core/journal/requests.ts            emitRequest, listPendingRequests, *)
(*                                       applyOutcome                      *)
(*   commands/watch/apply.ts             consumePendingRequests and the    *)
(*                                       handlers of register-entity       *)
(*   commands/watch/request-recovery.ts  recoverRejectedTask               *)
(*                                                                         *)
(* A request id is a number in the order of emission: requestId starts     *)
(* with the time and the length of the directory, and files are listed     *)
(* sorted.  A payload stands for its digest; its key is what the emitter   *)
(* derives from it, and two payloads may have one key.                     *)
(***************************************************************************)
EXTENDS Naturals, FiniteSets

CONSTANTS
    Requests,        \* requests, numbered in the order of emission
    Tasks,           \* tasks a plan may register
    Keys,            \* idempotency keys
    Payloads,        \* what a request may ask for
    NoPayload,       \* content that is no well-formed envelope
    MaxGenerations,  \* bound on the generations of the controller
    MaxDowns         \* bound on the times the supervisor goes down

ASSUME RequestsAssumption == IsFiniteSet(Requests) /\ Requests \subseteq Nat \ {0}

(* "task" registers a task (its verification plan is good when it covers   *)
(* the verifiers the repository requires), "dispatch" needs one, "other"   *)
(* stands for the kinds that always apply.                                 *)
ASSUME PayloadAssumption ==
    /\ Payloads \subseteq [key : Keys, kind : {"task", "dispatch", "other"},
                           task : Tasks, good : BOOLEAN]
    /\ NoPayload \notin Payloads

ASSUME BoundAssumption == MaxGenerations \in Nat /\ MaxDowns \in Nat

VARIABLES
    req,       \* req[r]: what its file says, and what was published before it
    file,      \* file[r]: where the file of a request is
    journal,   \* what state.json says
    batch,     \* the supervisor's volatile copy and what it still has to do
    pc,        \* where the one process that holds supervisor.lock is
    downs      \* times the supervisor went down

vars == <<req, file, journal, batch, pc, downs>>

-----------------------------------------------------------------------------
(* Types *)

FileStates == {"none", "tmp", "json", "removed", "corrupt", "rejected"}

Outcomes == {"none", "applied", "rejected-digest-mismatch", "rejected-stale-generation"}

ProblemKinds == {"none", "corrupt", "rejected", "resolved"}

(* first[k] is the entry `find` meets for a key, 0 if there is none; ran   *)
(* counts the executions of a request, which no field of the code does.    *)
Journals ==
    [ack : [Requests -> Outcomes], first : [Keys -> Requests \union {0}],
     problem : [Requests -> ProblemKinds], status : {"IN_PROGRESS", "BLOCKED"},
     gen : Nat, active : BOOLEAN, tasks : SUBSET Tasks, ran : [Requests -> Nat]]

Batches ==
    [copy : Journals, todo : SUBSET Requests, rename : SUBSET Requests,
     remove : SUBSET Requests]

QueueTypeOK ==
    /\ req \in [Requests -> [payload : Payloads \union {NoPayload}, token : Nat,
                             after : SUBSET Requests]]
    /\ file \in [Requests -> FileStates]
    /\ journal \in Journals
    /\ batch \in Batches
    /\ pc \in {"off", "idle", "apply", "cleanup", "recovered"}
    /\ downs \in 0 .. MaxDowns

EmptyJournal ==
    [ack |-> [r \in Requests |-> "none"], first |-> [k \in Keys |-> 0],
     problem |-> [r \in Requests |-> "none"], status |-> "IN_PROGRESS",
     gen |-> 0, active |-> FALSE, tasks |-> {}, ran |-> [r \in Requests |-> 0]]

NoBatch == [copy |-> EmptyJournal, todo |-> {}, rename |-> {}, remove |-> {}]

-----------------------------------------------------------------------------
(* What a journal says of a request *)

(* activeRequestProblems: a problem is inactive only once it is resolved.  *)
ActiveProblems(j) == {r \in Requests : j.problem[r] \in {"corrupt", "rejected"}}

Decided(j, r) == j.ack[r] # "none" \/ j.problem[r] # "none"

Key(r) == req[r].payload.key

(* An entry of the same key with another digest.                           *)
Conflicting(j, r) ==
    LET prior == j.first[Key(r)]
    IN  prior # 0 /\ req[prior].payload # req[r].payload

(* applyRequestToState throws for a bad plan of a task that is new, and    *)
(* for a dispatch of a task that does not exist.                           *)
Accepts(j, p) ==
    CASE p.kind = "task"     -> p.good \/ p.task \in j.tasks
      [] p.kind = "dispatch" -> p.task \in j.tasks
      [] p.kind = "other"    -> TRUE

(* applyOutcome: an entry of the same key and digest lends its outcome.    *)
Outcome(j, r, outcome) ==
    IF j.first[Key(r)] = 0 \/ Conflicting(j, r) THEN outcome ELSE j.ack[j.first[Key(r)]]

Acked(j, r, outcome) ==
    [j EXCEPT !.ack[r] = Outcome(j, r, outcome),
              !.first[Key(r)] = IF @ = 0 THEN r ELSE @]

Executed(j, r) ==
    LET p == req[r].payload
    IN  [Acked(j, r, "applied") EXCEPT
            !.tasks = IF p.kind = "task" THEN @ \union {p.task} ELSE @,
            !.ran[r] = @ + 1]

-----------------------------------------------------------------------------
(* Emitters: processes of the CLI *)

(* Ids follow the clock and the length of the directory.                   *)
NextId(r) == file[r] = "none" /\ \A q \in Requests : q < r => file[q] # "none"

(* emitRequest up to its rename: the file is complete and not yet seen.    *)
Emit(r, p, g) ==
    /\ NextId(r)
    /\ file' = [file EXCEPT ![r] = "tmp"]
    /\ req' = [req EXCEPT ![r] = [payload |-> p, token |-> g,
                 after |-> {q \in Requests : file[q] \notin {"none", "tmp"}}]]
    /\ UNCHANGED <<journal, batch, pc, downs>>

(* The rename; an emitter may die before it.                               *)
Publish(r) ==
    /\ file[r] = "tmp"
    /\ file' = [file EXCEPT ![r] = "json"]
    /\ UNCHANGED <<req, journal, batch, pc, downs>>

(* Something else leaves a file there that is no envelope.                 *)
Litter(r) ==
    /\ NextId(r)
    /\ file' = [file EXCEPT ![r] = "json"]
    /\ UNCHANGED <<req, journal, batch, pc, downs>>

-----------------------------------------------------------------------------
(* The supervisor *)

Start ==
    /\ pc = "off"
    /\ pc' = "idle"
    /\ UNCHANGED <<req, file, journal, batch, downs>>

Running == pc = "idle" /\ journal.status = "IN_PROGRESS"

(* recoveryWhitelistBlocker: an unresolved problem blocks the cycle before *)
(* the tick reaches the queue, and a blocked cycle never reaches it.       *)
EnterCustody ==
    /\ Running
    /\ ActiveProblems(journal) # {}
    /\ journal' = [journal EXCEPT !.status = "BLOCKED"]
    /\ UNCHANGED <<req, file, batch, pc, downs>>

(* beginGeneration, by a tick that finds none or in place of a dead        *)
(* controller at the end of a tick.                                        *)
BeginGeneration ==
    /\ Running
    /\ journal.active \/ ActiveProblems(journal) = {}
    /\ journal.gen < MaxGenerations
    /\ journal' = [journal EXCEPT !.gen = @ + 1, !.active = TRUE]
    /\ UNCHANGED <<req, file, batch, pc, downs>>

(* consumePendingRequests reads journal and directory.                     *)
List ==
    LET pending == {r \in Requests : file[r] = "json"}
    IN  /\ Running
        /\ journal.active
        /\ ActiveProblems(journal) = {}
        /\ pending # {}
        /\ batch' = [NoBatch EXCEPT !.copy = journal, !.todo = pending]
        /\ pc' = "apply"
        /\ UNCHANGED <<req, file, journal, downs>>

(* Mutant of Upcoming: readdir without its sort.                           *)
UpcomingAny(r) == pc = "apply" /\ r \in batch.todo

(* The next file of the batch, in the order of the sorted names.           *)
Upcoming(r) ==
    /\ pc = "apply"
    /\ r \in batch.todo
    /\ \A q \in batch.todo : r <= q

(* The copy goes on as j; the file will be renamed or removed.             *)
ToRename(r, j) ==
    /\ batch' = [batch EXCEPT !.copy = j, !.todo = @ \ {r}, !.rename = @ \union {r}]
    /\ UNCHANGED <<req, file, journal, pc, downs>>

ToRemove(r, j) ==
    /\ batch' = [batch EXCEPT !.copy = j, !.todo = @ \ {r}, !.remove = @ \union {r}]
    /\ UNCHANGED <<req, file, journal, pc, downs>>

WellFormed(r) == req[r].payload # NoPayload

(* A request the journal has an outcome of is only to be removed.          *)
Replayed(r) == WellFormed(r) /\ batch.copy.ack[r] # "none"

(* Mutant of Fresh: the replay check after a crash is left out.            *)
FreshUnchecked(r) == WellFormed(r)

Fresh(r) == WellFormed(r) /\ batch.copy.ack[r] = "none"

(* Mutant of Current: the token of the request is not compared.            *)
CurrentAnyGeneration(r) == ~Conflicting(batch.copy, r)

Current(r) == ~Conflicting(batch.copy, r) /\ req[r].token = batch.copy.gen

(* Mutant of ConsumeMalformed: a kind activeRequestProblems does not know. *)
ConsumeMalformedUnnamed(r) ==
    /\ Upcoming(r)
    /\ ~WellFormed(r)
    /\ ToRename(r, [batch.copy EXCEPT !.problem[r] = "malformed"])

(* Mutant of ConsumeMalformed: the file is passed over.                    *)
ConsumeMalformedSkipped(r) ==
    /\ Upcoming(r)
    /\ ~WellFormed(r)
    /\ batch' = [batch EXCEPT !.todo = @ \ {r}]
    /\ UNCHANGED <<req, file, journal, pc, downs>>

ConsumeMalformed(r) ==
    /\ Upcoming(r)
    /\ ~WellFormed(r)
    /\ ToRename(r, [batch.copy EXCEPT !.problem[r] = "corrupt"])

ConsumeReplay(r) ==
    /\ Upcoming(r)
    /\ Replayed(r)
    /\ ToRemove(r, batch.copy)

ConsumeMismatch(r) ==
    /\ Upcoming(r)
    /\ Fresh(r)
    /\ Conflicting(batch.copy, r)
    /\ ToRemove(r, Acked(batch.copy, r, "rejected-digest-mismatch"))

ConsumeStale(r) ==
    /\ Upcoming(r)
    /\ Fresh(r)
    /\ ~Conflicting(batch.copy, r)
    /\ req[r].token # batch.copy.gen
    /\ ToRemove(r, Acked(batch.copy, r, "rejected-stale-generation"))

ConsumeApplied(r) ==
    /\ Upcoming(r)
    /\ Fresh(r)
    /\ Current(r)
    /\ Accepts(batch.copy, req[r].payload)
    /\ ToRemove(r, Executed(batch.copy, r))

(* A handler that throws leaves a problem and no outcome.                  *)
ConsumeInvalid(r) ==
    /\ Upcoming(r)
    /\ Fresh(r)
    /\ Current(r)
    /\ ~Accepts(batch.copy, req[r].payload)
    /\ ToRename(r, [batch.copy EXCEPT !.problem[r] = "rejected"])

(* The journal before the files.                                           *)
WriteBatch ==
    /\ pc = "apply"
    /\ batch.todo = {}
    /\ journal' = batch.copy
    /\ batch' = [batch EXCEPT !.copy = EmptyJournal]
    /\ pc' = "cleanup"
    /\ UNCHANGED <<req, file, downs>>

Rename(r) ==
    /\ pc = "cleanup"
    /\ r \in batch.rename
    /\ \A q \in batch.rename : r <= q
    /\ file' = [file EXCEPT ![r] = journal.problem[r]]
    /\ batch' = [batch EXCEPT !.rename = @ \ {r}]
    /\ UNCHANGED <<req, journal, pc, downs>>

(* Mutant of Remove: the files go before the journal is written.           *)
RemoveEarly(r) ==
    /\ pc \in {"apply", "cleanup", "recovered"}
    /\ r \in batch.remove
    /\ file' = [file EXCEPT ![r] = "removed"]
    /\ batch' = [batch EXCEPT !.remove = @ \ {r}]
    /\ UNCHANGED <<req, journal, pc, downs>>

Remove(r) ==
    /\ pc \in {"cleanup", "recovered"}
    /\ batch.rename = {}
    /\ r \in batch.remove
    /\ \A q \in batch.remove : r <= q
    /\ file' = [file EXCEPT ![r] = "removed"]
    /\ batch' = [batch EXCEPT !.remove = @ \ {r}]
    /\ UNCHANGED <<req, journal, pc, downs>>

(* The tick goes on; the lane releases the lock.                           *)
EndBatch ==
    /\ pc \in {"cleanup", "recovered"}
    /\ batch.rename = {}
    /\ batch.remove = {}
    /\ pc' = IF pc = "cleanup" THEN "idle" ELSE "off"
    /\ UNCHANGED <<req, file, journal, batch, downs>>

-----------------------------------------------------------------------------
(* The offline lane: recoverRejectedTask under supervisor.lock *)

Resumed(j) == [j EXCEPT !.status = "IN_PROGRESS", !.active = FALSE]

(* A resumed cycle needs a new generation: MaxGenerations bounds it here.  *)
MayResume(j) ==
    /\ j.status = "BLOCKED"
    /\ ActiveProblems(j) = {}
    /\ j.gen < MaxGenerations

(* The rejected registration rej of a task is replaced by the pending rep, *)
(* which the lane applies itself.                                          *)
Recover(rej, rep, resume) ==
    LET p == req[rep].payload
        candidate == [Executed(journal, rep) EXCEPT !.problem[rej] = "resolved"]
    IN  /\ pc = "off"
        /\ rej # rep
        /\ journal.problem[rej] = "rejected"
        /\ file[rej] = "rejected"
        /\ file[rep] = "json"
        /\ WellFormed(rep)
        /\ req[rej].token = journal.gen
        /\ req[rep].token = journal.gen
        /\ p.kind = "task"
        /\ req[rej].payload.kind = "task"
        /\ p.task = req[rej].payload.task
        /\ p.task \notin journal.tasks
        /\ journal.ack[rep] = "none"
        /\ \A q \in Requests : journal.ack[q] # "none" /\ Key(q) = Key(rep)
                                   => req[q].payload = p
        /\ Accepts(journal, p)
        /\ candidate.ack[rep] = "applied"
        /\ resume => MayResume(candidate)
        /\ journal' = IF resume THEN Resumed(candidate) ELSE candidate
        /\ batch' = [NoBatch EXCEPT !.remove = {rep}]
        /\ pc' = "recovered"
        /\ UNCHANGED <<req, file, downs>>

(* The lane again, for a rejection it has already resolved.                *)
ResumeCycle(rej) ==
    /\ pc = "off"
    /\ journal.problem[rej] = "resolved"
    /\ req[rej].token = journal.gen
    /\ MayResume(journal)
    /\ journal' = Resumed(journal)
    /\ UNCHANGED <<req, file, batch, pc, downs>>

(* A signal between two ticks, or a crash anywhere.                        *)
GoDown ==
    /\ pc # "off"
    /\ downs < MaxDowns
    /\ downs' = downs + 1
    /\ pc' = "off"
    /\ batch' = NoBatch
    /\ UNCHANGED <<req, file, journal>>

-----------------------------------------------------------------------------
(* Specification *)

Init ==
    /\ req = [r \in Requests |-> [payload |-> NoPayload, token |-> 0, after |-> {}]]
    /\ file = [r \in Requests |-> "none"]
    /\ journal = EmptyJournal
    /\ batch = NoBatch
    /\ pc = "off"
    /\ downs = 0

Emitter ==
    \E r \in Requests :
        \/ \E p \in Payloads, g \in 1 .. journal.gen : Emit(r, p, g)
        \/ Publish(r)
        \/ Litter(r)

Consume(r) ==
    \/ ConsumeMalformed(r)
    \/ ConsumeReplay(r)
    \/ ConsumeMismatch(r)
    \/ ConsumeStale(r)
    \/ ConsumeApplied(r)
    \/ ConsumeInvalid(r)

Finish == EndBatch \/ \E r \in Requests : Rename(r) \/ Remove(r)

Lane ==
    \/ \E rej, rep \in Requests, resume \in BOOLEAN : Recover(rej, rep, resume)
    \/ \E rej \in Requests : ResumeCycle(rej)

Next ==
    \/ Emitter
    \/ Start
    \/ EnterCustody
    \/ BeginGeneration
    \/ List
    \/ \E r \in Requests : Consume(r)
    \/ WriteBatch
    \/ Finish
    \/ Lane
    \/ GoDown

Spec == Init /\ [][Next]_vars

(* The loop ticks and is started again; a tick that began a batch ends it. *)
Tick ==
    \/ Start
    \/ EnterCustody
    \/ ~journal.active /\ BeginGeneration
    \/ List
    \/ \E r \in Requests : Consume(r)
    \/ WriteBatch
    \/ Finish

FairSpec == Spec /\ WF_vars(Tick)

-----------------------------------------------------------------------------
(* Properties *)

(* No request is lost: a file leaves the queue only once the journal on    *)
(* disk says what became of it, whatever crash comes between the write of  *)
(* the journal and the renames and removals of consumePendingRequests, or  *)
(* of the offline lane.                                                    *)
NoRequestLost ==
    \A r \in Requests :
        file[r] \in {"removed", "corrupt", "rejected"} => Decided(journal, r)

(* A request is executed at most once in the life of the journal, though   *)
(* its file may be listed again after a crash and the lane may apply it    *)
(* while it is in the queue of the supervisor.                             *)
ExecutedOnce == \A r \in Requests : journal.ran[r] <= 1

(* Causal order: by the time a batch decides a request it has decided all *)
(* that were published before that one was emitted, and a request is not   *)
(* refused before those are decided.  So a dispatch emitted after the      *)
(* registration of its task is never refused for want of the task.  Only   *)
(* the offline lane applies a request out of its turn.                     *)
OrderKept ==
    \A r \in Requests : \A q \in req[r].after :
        /\ pc = "apply" /\ Decided(batch.copy, r) /\ ~Decided(journal, r)
               => Decided(batch.copy, q)
        /\ journal.problem[r] # "none" => Decided(journal, q)

(* Who is told "applied" finds its effect: a request with that outcome, or *)
(* one of the same payload that lent it the outcome, has been executed,    *)
(* and a task it registers is there.                                       *)
AppliedIsDone ==
    \A r \in Requests :
        journal.ack[r] = "applied" =>
            /\ \E q \in Requests :
                  /\ journal.ran[q] = 1
                  /\ req[q].payload = req[r].payload
            /\ req[r].payload.kind = "task" => req[r].payload.task \in journal.tasks

(* Who is told "rejected" finds no effect: an outcome of rejection is that *)
(* of a request that was not executed.                                     *)
RejectedIsNotDone ==
    \A r \in Requests :
        journal.ack[r] \in {"rejected-stale-generation", "rejected-digest-mismatch"}
            => journal.ran[r] = 0

(* Every published request is answered, by an outcome or by a problem on   *)
(* record, unless a problem blocks the cycle.                              *)
RequestsAnswered ==
    \A r \in Requests :
        file[r] = "json" ~> Decided(journal, r) \/ journal.status = "BLOCKED"

Fate(r) ==
    IF journal.ran[r] > 0 THEN "executed"
    ELSE IF Decided(journal, r) THEN "refused"
    ELSE IF file[r] = "json" THEN "waiting" ELSE "unseen"

Contract == INSTANCE RequestContract WITH
    fate <- [r \in Requests |-> Fate(r)],
    token <- [r \in Requests |-> req[r].token],
    gen <- journal.gen

(* The queue implements RequestContract: a decision is final (a rejected   *)
(* request whose file a crash left in the queue is never applied later)    *)
(* and a request of a replaced generation is never executed.               *)
ImplementsRequestContract == Contract!Spec
=============================================================================
