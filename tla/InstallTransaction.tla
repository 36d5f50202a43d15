------------------------- MODULE InstallTransaction -------------------------
(***************************************************************************)
(* The transactional writes of the CLI: applyInstallPlan, the backup       *)
(* session awm init opens around everything it writes, and awm backup      *)
(* restore (core/install-transaction.ts, core/executor.ts,                 *)
(* core/artifact-state.ts, commands/init.ts).                              *)
(*                                                                         *)
(* Commands follow each other: nothing in the code keeps two processes     *)
(* from installing at once, and this module does not model that.  Inside   *)
(* a command every file operation may fail and the process may die before  *)
(* or within any of them.                                                  *)
(*                                                                         *)
(* Files are abstracted to what they hold: Absent, Torn (a recursive       *)
(* removal or copy that did not finish), 0 (what the user had) or what a   *)
(* transaction wrote, named by its id: a later one never writes the same.  *)
(* Staging writes beside the target and is one step for the whole plan,    *)
(* since nobody looks at what it leaves.                                   *)
(***************************************************************************)
EXTENDS Integers, FiniteSets, Sequences, FiniteSetsExt

CONSTANTS
    NTargets,      \* physical targets an install may write, in plan order
    NCovered,      \* the first of them awm init knows before it syncs its registries
    MaxIds,        \* bound: transactions under ~/.awm/backups
    MaxFaults      \* bound: file operations that fail and processes that die

Targets == 1 .. NTargets
Covered == 1 .. NCovered

ASSUME InstallAssumption ==
    /\ NTargets \in Nat \ {0}
    /\ NCovered \in 0 .. NTargets
    /\ MaxIds \in Nat /\ MaxFaults \in Nat

Ids == 1 .. MaxIds

Absent == -1
Torn == -2
Contents == {Absent, Torn} \cup (0 .. MaxIds)

NoId == 0
NoTarget == 0
NoRecords == [t \in Targets |-> 0]

VARIABLES
    disk,       \* [Targets -> Contents]: the targets
    ledger,     \* [Targets -> 0..MaxIds]: state/artifacts.json, 0 is no record
    copies,     \* [Ids -> [1..NTargets -> Contents]]: the numbered files of a backup
    manifest,   \* [Ids -> Seq(entry)]: manifest.json, entry i names the file i
    ledgerCopy, \* [Ids -> ledgers]: the copy of the ledger a session keeps
    run,        \* the command that is running
    faults,     \* how many operations failed and processes died
    before,     \* history: [Ids -> [disk, ledger, scope]] when the transaction began
    open        \* history: the transactions of the last command that are to be undone if it dies

vars == <<disk, ledger, copies, manifest, ledgerCopy, run, faults, before, open>>

Ledgers == [Targets -> 0 .. MaxIds]
Entry == [target : Targets, existed : BOOLEAN]

Phases == {"idle", "steps", "backup", "stage", "replace", "swap", "verify",
           "ledger", "undo", "threw", "restore", "restored"}

Idle == [phase |-> "idle", session |-> NoId, failed |-> FALSE, id |-> NoId,
         ops |-> {}, replaced |-> {}, half |-> NoTarget, dirty |-> FALSE, entry |-> 0]

Run == [phase : Phases,
        session : Ids \cup {NoId},     \* the session of awm init
        failed : BOOLEAN,              \* a step of init failed
        id : Ids \cup {NoId},          \* the transaction applied or restored
        ops : SUBSET Targets,          \* plan.operations
        replaced : SUBSET Targets,
        half : Targets \cup {NoTarget},\* its replacement failed after the removal began
        dirty : BOOLEAN,               \* a restore of the undo failed
        entry : 0 .. NTargets + 1]     \* entries restored so far, the ledger is the first

-----------------------------------------------------------------------------
(* Transactions and their backups                                          *)

Begun == {i \in Ids : before[i] # <<>>}
NextId == Cardinality(Begun) + 1

\* Mutant: the timestamp alone, the same for two transactions of one millisecond.
FreshIdByTime == (Begun \cap {NextId - 1}) \cup (Ids \cap {NextId})

\* sanitizeTransactionTimestamp: a timestamp and a random suffix, never used before.
FreshId == Ids \cap {NextId}

\* A command starts with its own transaction open; one of a session adds to it.
Begins(id, scope) ==
    /\ before' = [before EXCEPT ![id] = <<[disk |-> disk, ledger |-> ledger, scope |-> scope]>>]
    /\ open' = IF run.phase = "idle" THEN {id} ELSE open \cup {id}

EntryFor(t) == [target |-> t, existed |-> disk[t] # Absent]

\* backupEntryFor: the target, if it is there, is copied to the numbered file n.
CopiedTo(files, t, n) ==
    IF disk[t] = Absent THEN files ELSE [files EXCEPT ![n] = disk[t]]

\* restoreManifestEntry: the backed up file, or nothing if there was none.
Restored(id, n) == IF manifest[id][n].existed THEN copies[id][n] ELSE Absent

EntriesOf(id, t) == {n \in DOMAIN manifest[id] : manifest[id][n].target = t}

-----------------------------------------------------------------------------
(* Failures                                                                *)

Fault == faults < MaxFaults /\ faults' = faults + 1

\* What a target may hold when its removal, or its removal and copy, stopped midway.
HalfRemoved(t) == IF disk[t] = Absent THEN {Absent} ELSE {disk[t], Absent, Torn}
HalfRestored(t) == {disk[t], Absent, Torn}

Quiet == UNCHANGED faults
Files == <<disk, ledger>>
Backups == <<copies, manifest, ledgerCopy>>
History == <<before, open>>

-----------------------------------------------------------------------------
Init ==
    /\ disk \in [Targets -> {Absent, 0}]
    /\ ledger = NoRecords
    /\ copies = [i \in Ids |-> [n \in Targets |-> Absent]]
    /\ manifest = [i \in Ids |-> <<>>]
    /\ ledgerCopy = [i \in Ids |-> <<>>]
    /\ run = Idle
    /\ faults = 0
    /\ before = [i \in Ids |-> <<>>]
    /\ open = {}

-----------------------------------------------------------------------------
(* awm init                                                                *)

\* beginBackupSession: everything the run may write, the ledger included, is
\* copied and then named by a manifest, before the first write of the run.
BeginSession ==
    /\ run.phase = "idle"
    /\ \E id \in FreshId :
         /\ Begins(id, Covered)
         /\ copies' = [copies EXCEPT ![id] = [n \in Targets |->
                IF n \in Covered /\ disk[n] # Absent THEN disk[n] ELSE @[n]]]
         /\ manifest' = [manifest EXCEPT ![id] = [n \in Covered |-> EntryFor(n)]]
         /\ ledgerCopy' = [ledgerCopy EXCEPT ![id] = <<ledger>>]
         /\ run' = [Idle EXCEPT !.phase = "steps", !.session = id]
    /\ UNCHANGED Files /\ Quiet

\* A step that writes a file of its own: preferences, hook, injection, profile.
WriteConfig(t) ==
    /\ run.phase = "steps" /\ t \in Covered
    /\ disk' = [disk EXCEPT ![t] = run.session]
    /\ UNCHANGED <<ledger, run>> /\ UNCHANGED Backups /\ UNCHANGED History /\ Quiet

\* A step, or a synchronisation of registries, that fails: the steps after it still run.
FailStep ==
    /\ run.phase = "steps" /\ ~run.failed
    /\ Fault
    /\ run' = [run EXCEPT !.failed = TRUE]
    /\ UNCHANGED Files /\ UNCHANGED Backups /\ UNCHANGED History

\* backup.commit: the manifest is marked and kept.
CommitSession ==
    /\ run.phase = "steps" /\ ~run.failed
    /\ run' = Idle
    /\ open' = open \ {run.session}
    /\ UNCHANGED before
    /\ UNCHANGED Files /\ UNCHANGED Backups /\ Quiet

\* backup.rollback: a failed init restores its own session.
RollBackSession ==
    /\ run.phase = "steps" /\ run.failed
    /\ run' = [run EXCEPT !.phase = "restore", !.id = run.session, !.entry = 0]
    /\ UNCHANGED Files /\ UNCHANGED Backups /\ UNCHANGED History /\ Quiet

-----------------------------------------------------------------------------
(* applyInstallPlan, inside a session or alone (sync, update, add)         *)

\* Every operation is validated before anything is written; an invalid plan
\* is FailStep of a session and nothing at all outside one.
BeginApply(ops) ==
    /\ run.phase \in {"idle", "steps"}
    /\ \E id \in FreshId :
         /\ Begins(id, ops)
         /\ run' = [run EXCEPT !.phase = "backup", !.id = id, !.ops = ops]
    /\ UNCHANGED Files /\ UNCHANGED Backups /\ Quiet

\* deps.backup of the next operation: the copy, then the manifest with one entry more.
Backup ==
    LET n == Len(manifest[run.id]) + 1
        t == Min({o \in run.ops : EntriesOf(run.id, o) = {}})
    IN  /\ run.phase = "backup"
        /\ \E o \in run.ops : EntriesOf(run.id, o) = {}
        /\ copies' = [copies EXCEPT ![run.id] = CopiedTo(@, t, n)]
        /\ manifest' = [manifest EXCEPT ![run.id] = Append(@, EntryFor(t))]
        /\ UNCHANGED <<ledgerCopy, run>>
        /\ UNCHANGED Files /\ UNCHANGED History /\ Quiet

AllBackedUp == \A o \in run.ops : EntriesOf(run.id, o) # {}

\* deps.stage of every operation.
Stage ==
    /\ run.phase = "backup" /\ AllBackedUp
    /\ run' = [run EXCEPT !.phase = "replace"]
    /\ UNCHANGED Files /\ UNCHANGED Backups /\ UNCHANGED History /\ Quiet

\* A copy, a manifest or a staging that fails: no target was touched.
BackupFails ==
    /\ run.phase = "backup"
    /\ Fault
    /\ run' = [run EXCEPT !.phase = "threw"]
    /\ UNCHANGED Files /\ UNCHANGED Backups /\ UNCHANGED History

Pending == run.ops \ run.replaced

\* replaceArtifact, its first half: the live target is removed.
RemoveTarget ==
    /\ run.phase = "replace" /\ Pending # {}
    /\ disk' = [disk EXCEPT ![Min(Pending)] = Absent]
    /\ run' = [run EXCEPT !.phase = "swap"]
    /\ UNCHANGED ledger /\ UNCHANGED Backups /\ UNCHANGED History /\ Quiet

\* The removal fails, having removed nothing, some of it or all of it.
RemoveFails ==
    /\ run.phase = "replace" /\ Pending # {}
    /\ Fault
    /\ \E c \in HalfRemoved(Min(Pending)) :
         /\ disk' = [disk EXCEPT ![Min(Pending)] = c]
         /\ run' = [run EXCEPT !.phase = "undo",
                !.half = IF c = disk[Min(Pending)] THEN NoTarget ELSE Min(Pending)]
    /\ UNCHANGED ledger /\ UNCHANGED Backups /\ UNCHANGED History

\* Its second half: the staged file takes the name of the target.
RenameStaged ==
    /\ run.phase = "swap"
    /\ disk' = [disk EXCEPT ![Min(Pending)] = run.id]
    /\ run' = [run EXCEPT !.phase = "replace", !.replaced = @ \cup {Min(Pending)}]
    /\ UNCHANGED ledger /\ UNCHANGED Backups /\ UNCHANGED History /\ Quiet

\* The rename fails: the operation was never pushed to `replaced`, so nothing
\* of this transaction brings its target back.
RenameFails ==
    /\ run.phase = "swap"
    /\ Fault
    /\ run' = [run EXCEPT !.phase = "undo", !.half = Min(Pending)]
    /\ UNCHANGED Files /\ UNCHANGED Backups /\ UNCHANGED History

\* deps.verify of every operation, after the last replacement.
Verify ==
    /\ run.phase = "replace" /\ Pending = {}
    /\ run' = [run EXCEPT !.phase = "ledger"]
    /\ UNCHANGED Files /\ UNCHANGED Backups /\ UNCHANGED History /\ Quiet

VerifyFails ==
    /\ run.phase = "replace" /\ Pending = {}
    /\ Fault
    /\ run' = [run EXCEPT !.phase = "undo"]
    /\ UNCHANGED Files /\ UNCHANGED Backups /\ UNCHANGED History

\* Mutant: the records of the plan replace the whole ledger.
MergedWholesale == [t \in Targets |-> IF t \in run.ops THEN run.id ELSE 0]

\* mergeArtifactRecords: records of other targets survive.
Merged == [t \in Targets |-> IF t \in run.ops THEN run.id ELSE ledger[t]]

\* Back to the steps of the session, or to nothing.
AfterApply(failed) ==
    IF run.session = NoId THEN Idle
    ELSE [Idle EXCEPT !.phase = "steps", !.session = run.session,
                      !.failed = run.failed \/ failed]

WriteLedger ==
    /\ run.phase = "ledger"
    /\ ledger' = Merged
    /\ run' = AfterApply(FALSE)
    /\ open' = open \ {run.id}
    /\ UNCHANGED <<disk, before>> /\ UNCHANGED Backups /\ Quiet

\* Mutant: the ledger is written outside the block whose failure is rolled back.
LedgerFailsOutside ==
    /\ run.phase = "ledger"
    /\ Fault
    /\ run' = [run EXCEPT !.phase = "threw"]
    /\ UNCHANGED Files /\ UNCHANGED Backups /\ UNCHANGED History

LedgerFails ==
    /\ run.phase = "ledger"
    /\ Fault
    /\ run' = [run EXCEPT !.phase = "undo"]
    /\ UNCHANGED Files /\ UNCHANGED Backups /\ UNCHANGED History

\* deps.rollback of the last replaced operation: the target is removed and its
\* backup copied back.  A failure leaves it anyhow and the others go on.
Undo ==
    LET t == Max(run.replaced)
        n == CHOOSE k \in EntriesOf(run.id, t) : TRUE
    IN  /\ run.phase = "undo" /\ run.replaced # {}
        /\ \/ disk' = [disk EXCEPT ![t] = Restored(run.id, n)]
              /\ run' = [run EXCEPT !.replaced = @ \ {t}]
              /\ UNCHANGED faults
           \/ Fault
              /\ \E c \in HalfRestored(t) : disk' = [disk EXCEPT ![t] = c]
              /\ run' = [run EXCEPT !.replaced = @ \ {t}, !.dirty = TRUE]
        /\ UNCHANGED ledger /\ UNCHANGED Backups /\ UNCHANGED History

\* The original failure is thrown again.
UndoEnds ==
    /\ run.phase = "undo" /\ run.replaced = {}
    /\ run' = [run EXCEPT !.phase = "threw"]
    /\ UNCHANGED Files /\ UNCHANGED Backups /\ UNCHANGED History /\ Quiet

\* The caller sees the failure: a failed step of the session, or the end of the command.
ReturnFailure ==
    /\ run.phase = "threw"
    /\ run' = AfterApply(TRUE)
    /\ open' = open \ (IF run.half = NoTarget /\ ~run.dirty THEN {run.id} ELSE {})
    /\ UNCHANGED before
    /\ UNCHANGED Files /\ UNCHANGED Backups /\ Quiet

-----------------------------------------------------------------------------
(* restoreBackup: the rollback of a session, or awm backup restore <id>    *)

BeginRestore(id) ==
    /\ run.phase = "idle" /\ manifest[id] # <<>>
    /\ run' = [Idle EXCEPT !.phase = "restore", !.id = id]
    /\ open' = {}
    /\ UNCHANGED before
    /\ UNCHANGED Files /\ UNCHANGED Backups /\ Quiet

LastEntry == Len(manifest[run.id])

\* The ledger is the first entry of a session's manifest that this module names.
RestoreLedger ==
    /\ run.phase = "restore" /\ run.entry = 0
    /\ ledger' = IF ledgerCopy[run.id] = <<>> THEN ledger ELSE Head(ledgerCopy[run.id])
    /\ run' = [run EXCEPT !.entry = 1]
    /\ UNCHANGED disk /\ UNCHANGED Backups /\ UNCHANGED History /\ Quiet

RestoreEntry ==
    /\ run.phase = "restore" /\ run.entry \in 1 .. LastEntry
    /\ disk' = [disk EXCEPT ![manifest[run.id][run.entry].target] = Restored(run.id, run.entry)]
    /\ run' = [run EXCEPT !.entry = @ + 1]
    /\ UNCHANGED ledger /\ UNCHANGED Backups /\ UNCHANGED History /\ Quiet

\* A restore that stops in the middle of an entry; a ledger removed and not yet
\* copied back reads as one without records.
Halfway ==
    \/ /\ run.entry = 0
       /\ \/ UNCHANGED ledger
          \/ ledgerCopy[run.id] # <<>> /\ ledger' = NoRecords
       /\ UNCHANGED disk
    \/ /\ run.entry \in 1 .. LastEntry
       /\ \E c \in HalfRestored(manifest[run.id][run.entry].target) :
            disk' = [disk EXCEPT ![manifest[run.id][run.entry].target] = c]
       /\ UNCHANGED ledger

\* An entry that fails ends the restore: the entries after it are not tried.
RestoreFails ==
    /\ run.phase = "restore" /\ run.entry <= LastEntry
    /\ Fault
    /\ Halfway
    /\ run' = Idle
    /\ UNCHANGED Backups /\ UNCHANGED History

RestoreEnds ==
    /\ run.phase = "restore" /\ run.entry > LastEntry
    /\ run' = [run EXCEPT !.phase = "restored"]
    /\ UNCHANGED Files /\ UNCHANGED Backups /\ UNCHANGED History /\ Quiet

\* The command reports what it restored and exits.
Report ==
    /\ run.phase = "restored"
    /\ run' = Idle
    /\ open' = open \ {run.id}
    /\ UNCHANGED before
    /\ UNCHANGED Files /\ UNCHANGED Backups /\ Quiet

-----------------------------------------------------------------------------
\* The process dies, at rest or within the operation it is at.
DiesWithin ==
    \/ UNCHANGED Files
    \/ /\ run.phase = "replace" /\ Pending # {}
       /\ \E c \in HalfRemoved(Min(Pending)) : disk' = [disk EXCEPT ![Min(Pending)] = c]
       /\ UNCHANGED ledger
    \/ /\ run.phase = "undo" /\ run.replaced # {}
       /\ \E c \in HalfRestored(Max(run.replaced)) : disk' = [disk EXCEPT ![Max(run.replaced)] = c]
       /\ UNCHANGED ledger
    \/ run.phase = "restore" /\ Halfway

Crash ==
    /\ run.phase # "idle"
    /\ Fault
    /\ DiesWithin
    /\ run' = Idle
    /\ UNCHANGED Backups /\ UNCHANGED History

Next ==
    \/ BeginSession \/ FailStep \/ CommitSession \/ RollBackSession
    \/ \E t \in Targets : WriteConfig(t)
    \/ \E ops \in SUBSET Targets \ {{}} : BeginApply(ops)
    \/ Backup \/ Stage \/ BackupFails
    \/ RemoveTarget \/ RemoveFails \/ RenameStaged \/ RenameFails
    \/ Verify \/ VerifyFails \/ WriteLedger \/ LedgerFails
    \/ Undo \/ UndoEnds \/ ReturnFailure
    \/ \E id \in Ids : BeginRestore(id)
    \/ RestoreLedger \/ RestoreEntry \/ RestoreFails \/ RestoreEnds \/ Report
    \/ Crash

Spec == Init /\ [][Next]_vars

-----------------------------------------------------------------------------
(* Properties                                                              *)

\* Type invariant.
InstallTypeOK ==
    /\ disk \in [Targets -> Contents]
    /\ ledger \in Ledgers
    /\ copies \in [Ids -> [Targets -> Contents]]
    /\ manifest \in [Ids -> Seq(Entry)]
    /\ ledgerCopy \in [Ids -> Seq(Ledgers)]
    /\ run \in Run
    /\ faults \in 0 .. MaxFaults
    /\ open \subseteq Begun

CanRestore(id, t) ==
    \E n \in EntriesOf(id, t) : Restored(id, n) = before[id][1].disk[t]

\* "Always revertible": whatever the user had when a transaction began is
\* either still in its place or restored by awm backup restore of its id, at
\* every instant of a transaction, after its death and after every later
\* transaction, whose backups never overwrite it.
Recoverable ==
    \A id \in Begun :
        /\ \A n \in DOMAIN manifest[id] :
             Restored(id, n) = before[id][1].disk[manifest[id][n].target]
        /\ id \in open =>
             \A t \in before[id][1].scope : disk[t] = before[id][1].disk[t] \/ CanRestore(id, t)

\* A failure is undone: a plan that throws leaves every target but the one whose
\* replacement stopped midway, and the ledger, as it found them; and a restore
\* that reports success, the rollback of init or the command of the operator,
\* leaves all it names, that one included, as it was when its transaction began.
FailureIsUndone ==
    /\ run.phase = "threw" /\ ~run.dirty =>
         /\ \A t \in Targets \ {run.half} : disk[t] = before[run.id][1].disk[t]
         /\ ledger = before[run.id][1].ledger
    /\ run.phase = "restored" =>
         /\ \A n \in DOMAIN manifest[run.id] :
              LET t == manifest[run.id][n].target IN disk[t] = before[run.id][1].disk[t]
         /\ ledgerCopy[run.id] # <<>> => ledger = before[run.id][1].ledger

\* "Partially matches is the one outcome" a sync "must not produce": a plan that
\* throws, every rollback having succeeded, leaves every target as it found it.
SyncIsAtomic ==
    run.phase = "threw" /\ ~run.dirty =>
        \A t \in Targets : disk[t] = before[run.id][1].disk[t]

\* The ledger names an artifact only when the version it names was put in place
\* and verified, and a plan keeps the records of targets that are not its own.
LedgerIsUpsert ==
    [][run.phase # "restore" =>
         \A t \in Targets : ledger'[t] # ledger[t] => t \in run.ops /\ disk[t] = ledger'[t]]_vars
=============================================================================
