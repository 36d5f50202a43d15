---------------------- MODULE InstallTransactionProofs ----------------------
(***************************************************************************)
(* Theorems of InstallTransaction for every number of targets, of them     *)
(* covered by a session, of transactions and of failures.                  *)
(***************************************************************************)
EXTENDS InstallTransaction, FiniteSetTheorems, SequenceTheorems, WellFoundedInduction, TLAPS

-----------------------------------------------------------------------------
(* The inductive invariant                                                 *)

Snapshot == [disk : [Targets -> Contents], ledger : Ledgers, scope : SUBSET Targets]

\* What transaction id found when it began, and the targets its backup names.
Found(id) == before[id][1]
Named(id) == {t \in Targets : EntriesOf(id, t) # {}}

BeforeOK == before \in [Ids -> {<<>>} \cup {<<b>> : b \in Snapshot}]

\* A new id is one that was never used.
IdsInOrder == Begun = 1 .. Cardinality(Begun)

\* A backup holds one file for each target it names, which is what the
\* transaction found there, whatever was installed or restored since.
FaithfulBackup(id) ==
    /\ id \notin Begun => manifest[id] = <<>> /\ ledgerCopy[id] = <<>>
    /\ Len(manifest[id]) = Cardinality(Named(id))
    /\ \A n \in DOMAIN manifest[id] : Restored(id, n) = Found(id).disk[manifest[id][n].target]
    /\ ledgerCopy[id] # <<>> => Head(ledgerCopy[id]) = Found(id).ledger

BackupsFaithful == \A id \in Ids : FaithfulBackup(id)

Writing == {"replace", "swap", "ledger"}
Applying == {"backup", "undo", "threw"} \cup Writing

Untouched == run.half = NoTarget /\ ~run.dirty

RunOfBegun ==
    /\ run.id \in Begun \cup {NoId} /\ run.session \in Begun \cup {NoId}
    /\ run.phase \in {"idle", "steps"} => run.replaced = {} /\ Untouched
    /\ run.phase = "steps" => run.session # NoId
    /\ run.phase \in Applying \cup {"restore", "restored"} => run.id # NoId

\* What a plan has changed of what it found: nothing before every target it
\* writes is in its backup; then the replaced targets and the one at hand; and
\* a failure is undone but for the one left half replaced.
Applied ==
    /\ Found(run.id).scope = run.ops /\ run.replaced \subseteq run.ops
    /\ ledger = Found(run.id).ledger
    /\ run.phase = "backup" => disk = Found(run.id).disk /\ run.replaced = {} /\ Untouched
    /\ run.phase \in Writing => Untouched /\ \A t \in run.replaced : disk[t] = run.id
    /\ run.phase \in Writing \cup {"undo"} => run.ops \subseteq Named(run.id)
    /\ run.phase = "swap" => Pending # {}
    /\ run.phase = "ledger" => Pending = {}
    /\ run.phase = "threw" =>
          /\ run.replaced = {}
          /\ run.ops \subseteq Named(run.id) \/ (disk = Found(run.id).disk /\ Untouched)
    /\ ~run.dirty => \A t \in Targets \ run.replaced :
          \/ disk[t] = Found(run.id).disk[t]
          \/ t = run.half
          \/ run.phase = "swap" /\ t = Min(Pending)

ApplyInv == run.phase \in Applying => Applied

\* A transaction whose death is to be undone has all it may write in its
\* backup, or has written nothing.
Undoable(id) ==
    \/ Found(id).scope \subseteq Named(id)
    \/ /\ disk = Found(id).disk
       /\ run.phase = "idle" \/ (id = run.id /\ run.phase \in {"backup", "threw"} /\ Untouched)

OpenInv == \A id \in open : Undoable(id)

\* What a restore has brought back so far.
RestoredSoFar ==
    /\ run.entry <= Len(manifest[run.id]) + 1
    /\ run.phase = "restored" => run.entry > Len(manifest[run.id])
    /\ \A n \in DOMAIN manifest[run.id] : n < run.entry =>
          disk[manifest[run.id][n].target] = Found(run.id).disk[manifest[run.id][n].target]
    /\ run.entry > 0 /\ ledgerCopy[run.id] # <<>> => ledger = Found(run.id).ledger

RestoreInv == run.phase \in {"restore", "restored"} => RestoredSoFar

\* What is known of the backups; and of the command that runs.
BackupInv == BeforeOK /\ IdsInOrder /\ BackupsFaithful
RunInv == RunOfBegun /\ ApplyInv /\ OpenInv /\ RestoreInv

InstallIInv == InstallTypeOK /\ BackupInv /\ RunInv

-----------------------------------------------------------------------------
(* The first and the last of a set of targets                              *)

LEMMA StrictlyIncluded ==
  ASSUME NEW T, NEW V \in SUBSET T, NEW U \in SUBSET T, V \subseteq U, V # U
  PROVE  <<V, U>> \in StrictSubsetOrdering(T)
  BY DEF StrictSubsetOrdering

\* Of the intervals that begin or end at an element of a set of targets one is
\* included in the others.
LEMMA FirstOfTargets ==
  ASSUME NEW S \in SUBSET Targets, S # {}
  PROVE  Min(S) \in S
<1>. DEFINE I == {1 .. x : x \in S}
<1>1. NTargets \in Nat /\ S \subseteq 1 .. NTargets
  BY InstallAssumption DEF Targets
<1>2. I \subseteq FiniteSubsetsOf(Nat) /\ I # {}
  <2>1. ASSUME NEW x \in S PROVE 1 .. x \in FiniteSubsetsOf(Nat)
    <3>1. IsFiniteSet(1 .. x)
      BY <1>1, FS_Interval
    <3>2. 1 .. x \in SUBSET Nat
      OBVIOUS
    <3>. QED  BY <3>1, <3>2 DEF FiniteSubsetsOf
  <2>. QED  BY <2>1
<1>3. PICK U \in I : \A V \in I : ~(<<V, U>> \in StrictSubsetOrdering(Nat))
  BY <1>2, FS_StrictSubsetOrderingWellFounded, WFMin
<1>4. PICK m \in S : U = 1 .. m
  OBVIOUS
<1>5. \A y \in S : m <= y
  <2>. SUFFICES ASSUME NEW y \in S, y < m PROVE FALSE
    BY <1>1
  <2>1. 1 .. y \subseteq 1 .. m /\ 1 .. y # 1 .. m /\ 1 .. y \in I
    BY <1>1
  <2>2. 1 .. y \in SUBSET Nat /\ 1 .. m \in SUBSET Nat
    OBVIOUS
  <2>3. <<1 .. y, 1 .. m>> \in StrictSubsetOrdering(Nat)
    BY <2>1, <2>2, StrictlyIncluded
  <2>. QED  BY <1>3, <1>4, <2>1, <2>3
<1>. QED  BY <1>5 DEF Min

LEMMA LastOfTargets ==
  ASSUME NEW S \in SUBSET Targets, S # {}
  PROVE  Max(S) \in S
<1>. DEFINE I == {x .. NTargets : x \in S}
<1>1. NTargets \in Nat /\ S \subseteq 1 .. NTargets
  BY InstallAssumption DEF Targets
<1>2. I \subseteq FiniteSubsetsOf(Nat) /\ I # {}
  <2>1. ASSUME NEW x \in S PROVE x .. NTargets \in FiniteSubsetsOf(Nat)
    <3>1. IsFiniteSet(x .. NTargets)
      BY <1>1, FS_Interval
    <3>2. x .. NTargets \in SUBSET Nat
      BY <1>1
    <3>. QED  BY <3>1, <3>2 DEF FiniteSubsetsOf
  <2>. QED  BY <2>1
<1>3. PICK U \in I : \A V \in I : ~(<<V, U>> \in StrictSubsetOrdering(Nat))
  BY <1>2, FS_StrictSubsetOrderingWellFounded, WFMin
<1>4. PICK m \in S : U = m .. NTargets
  OBVIOUS
<1>5. \A y \in S : m >= y
  <2>. SUFFICES ASSUME NEW y \in S, y > m PROVE FALSE
    BY <1>1
  <2>1. y .. NTargets \subseteq m .. NTargets /\ y .. NTargets # m .. NTargets /\ y .. NTargets \in I
    BY <1>1
  <2>2. y .. NTargets \in SUBSET Nat /\ m .. NTargets \in SUBSET Nat
    BY <1>1
  <2>3. <<y .. NTargets, m .. NTargets>> \in StrictSubsetOrdering(Nat)
    BY <2>1, <2>2, StrictlyIncluded
  <2>. QED  BY <1>3, <1>4, <2>1, <2>3
<1>. QED  BY <1>5 DEF Max

-----------------------------------------------------------------------------
(* What a backup holds                                                     *)

LEMMA ConstantsAreNumbers ==
  /\ NTargets \in Nat /\ MaxIds \in Nat /\ MaxFaults \in Nat
  /\ NCovered \in 0 .. NTargets
  /\ NoId \notin Ids /\ NoTarget \notin Targets
  /\ Absent \in Contents /\ Torn \in Contents /\ 0 .. MaxIds \subseteq Contents
  /\ Ids \cup {NoId} = 0 .. MaxIds
  BY InstallAssumption DEF NoId, NoTarget, Ids, Targets, Contents, Absent, Torn

LEMMA UpTo ==
  ASSUME NEW n \in Nat
  PROVE  IsFiniteSet(1 .. n) /\ Cardinality(1 .. n) = n
<1>1. /\ IsFiniteSet(1 .. n)
      /\ Cardinality(1 .. n) = IF 1 > n THEN 0 ELSE n - 1 + 1
  BY FS_Interval
<1>. QED  BY <1>1

LEMMA FoundIsSnapshot ==
  ASSUME BeforeOK, NEW id \in Begun
  PROVE  /\ id \in Ids /\ before[id] # <<>>
         /\ Found(id) \in Snapshot
         /\ Found(id).disk \in [Targets -> Contents]
         /\ Found(id).ledger \in Ledgers
         /\ Found(id).scope \in SUBSET Targets
<1>1. id \in Ids /\ before[id] # <<>>
  BY DEF Begun
<1>2. PICK b \in Snapshot : before[id] = <<b>>
  BY <1>1 DEF BeforeOK
<1>3. Found(id) = b
  BY <1>2 DEF Found
<1>. QED  BY <1>1, <1>3 DEF Snapshot

LEMMA EntryIsOfTarget ==
  ASSUME InstallTypeOK, NEW id \in Ids
  PROVE  /\ Len(manifest[id]) \in Nat
         /\ DOMAIN manifest[id] = 1 .. Len(manifest[id])
         /\ \A n \in DOMAIN manifest[id] :
               /\ manifest[id][n] \in Entry
               /\ manifest[id][n].target \in Named(id)
         /\ Named(id) \subseteq Targets
<1>1. manifest[id] \in Seq(Entry)
  BY DEF InstallTypeOK
<1>2. /\ Len(manifest[id]) \in Nat
      /\ DOMAIN manifest[id] = 1 .. Len(manifest[id])
      /\ \A n \in DOMAIN manifest[id] : manifest[id][n] \in Entry
  BY <1>1, LenProperties, ElementOfSeq
<1>. QED  BY <1>2 DEF Named, EntriesOf, Entry

LEMMA BackupFits ==
  ASSUME InstallTypeOK, NEW id \in Ids, FaithfulBackup(id)
  PROVE  Len(manifest[id]) <= NTargets
<1>1. IsFiniteSet(Targets) /\ Cardinality(Targets) = NTargets
  BY ConstantsAreNumbers, UpTo DEF Targets
<1>2. Named(id) \in SUBSET Targets
  BY DEF Named
<1>3. Cardinality(Named(id)) <= NTargets
  BY <1>1, <1>2, FS_Subset
<1>. QED  BY <1>3 DEF FaithfulBackup

LEMMA RestoredIsFound ==
  ASSUME InstallTypeOK, BackupInv, NEW id \in Begun, NEW n \in DOMAIN manifest[id]
  PROVE  /\ manifest[id][n].target \in Targets
         /\ Restored(id, n) = Found(id).disk[manifest[id][n].target]
         /\ Restored(id, n) \in Contents
<1>1. id \in Ids /\ Found(id).disk \in [Targets -> Contents]
  BY FoundIsSnapshot DEF BackupInv
<1>2. manifest[id][n].target \in Targets
  BY <1>1, EntryIsOfTarget
<1>. QED  BY <1>1, <1>2 DEF BackupInv, BackupsFaithful, FaithfulBackup

\* A step that begins no transaction and writes no backup.
LEMMA BackupsStay ==
  ASSUME BackupInv, UNCHANGED Backups, before' = before
  PROVE  /\ BackupInv' /\ Begun' = Begun
         /\ \A id : Found(id)' = Found(id) /\ Named(id)' = Named(id)
<1>1. copies' = copies /\ manifest' = manifest /\ ledgerCopy' = ledgerCopy /\ before' = before
  BY DEF Backups
<1>2. Begun' = Begun
  BY <1>1 DEF Begun
<1>3. \A id : Found(id)' = Found(id)
  BY <1>1 DEF Found
<1>4. \A id, t : EntriesOf(id, t)' = EntriesOf(id, t)
  BY <1>1 DEF EntriesOf
<1>5. \A id : Named(id)' = Named(id)
  BY <1>4 DEF Named
<1>6. \A id, n : Restored(id, n)' = Restored(id, n)
  BY <1>1 DEF Restored
<1>7. BeforeOK'
  BY <1>1 DEF BackupInv, BeforeOK
<1>8. IdsInOrder'
  BY <1>2 DEF BackupInv, IdsInOrder
<1>9. ASSUME NEW id \in Ids PROVE FaithfulBackup(id)'
  <2>1. FaithfulBackup(id)
    BY DEF BackupInv, BackupsFaithful
  <2>2. /\ Named(id)' = Named(id) /\ Found(id)' = Found(id)
        /\ manifest'[id] = manifest[id] /\ ledgerCopy'[id] = ledgerCopy[id]
    BY <1>1, <1>3, <1>5
  <2>3. \A n \in DOMAIN manifest[id] : Restored(id, n)' = Restored(id, n)
    BY <1>6
  <2>4. Found(id).disk' = Found(id).disk /\ Found(id).ledger' = Found(id).ledger
    BY <2>2
  <2>. QED  BY <1>2, <2>1, <2>2, <2>3, <2>4 DEF FaithfulBackup
<1>. QED  BY <1>2, <1>3, <1>5, <1>7, <1>8, <1>9 DEF BackupInv, BackupsFaithful

-----------------------------------------------------------------------------
(* What a step may write of the command that runs                          *)

LEMMA RunWrites ==
  ASSUME NEW r \in Run
  PROVE  /\ \A p \in Phases : [r EXCEPT !.phase = p] \in Run
         /\ [r EXCEPT !.failed = TRUE] \in Run
         /\ \A p \in Phases, h \in Targets \cup {NoTarget} : [r EXCEPT !.phase = p, !.half = h] \in Run
         /\ \A p \in Phases, s \in SUBSET Targets : [r EXCEPT !.phase = p, !.replaced = s] \in Run
         /\ \A s \in SUBSET Targets : [r EXCEPT !.replaced = s] \in Run
         /\ \A s \in SUBSET Targets : [r EXCEPT !.replaced = s, !.dirty = TRUE] \in Run
         /\ \A e \in 0 .. NTargets + 1 : [r EXCEPT !.entry = e] \in Run
<1>. USE DEF Run
<1>1. \A p \in Phases : [r EXCEPT !.phase = p] \in Run
  OBVIOUS
<1>2. [r EXCEPT !.failed = TRUE] \in Run
  OBVIOUS
<1>3. \A p \in Phases, h \in Targets \cup {NoTarget} : [r EXCEPT !.phase = p, !.half = h] \in Run
  OBVIOUS
<1>4. \A p \in Phases, s \in SUBSET Targets : [r EXCEPT !.phase = p, !.replaced = s] \in Run
  OBVIOUS
<1>5. \A s \in SUBSET Targets : [r EXCEPT !.replaced = s] \in Run
  OBVIOUS
<1>6. \A s \in SUBSET Targets : [r EXCEPT !.replaced = s, !.dirty = TRUE] \in Run
  OBVIOUS
<1>7. \A e \in 0 .. NTargets + 1 : [r EXCEPT !.entry = e] \in Run
  OBVIOUS
<1>. QED  BY <1>1, <1>2, <1>3, <1>4, <1>5, <1>6, <1>7

LEMMA RunBegins ==
  ASSUME NEW r \in Run, NEW id \in Ids \cup {NoId}
  PROVE  /\ \A ops \in SUBSET Targets :
               [r EXCEPT !.phase = "backup", !.id = id, !.ops = ops] \in Run
         /\ [r EXCEPT !.phase = "restore", !.id = id, !.entry = 0] \in Run
<1>. USE DEF Run, Phases
<1>1. 0 \in 0 .. NTargets + 1
  BY ConstantsAreNumbers
<1>2. ASSUME NEW ops \in SUBSET Targets
      PROVE  [r EXCEPT !.phase = "backup", !.id = id, !.ops = ops] \in Run
  OBVIOUS
<1>3. [r EXCEPT !.phase = "restore", !.id = id, !.entry = 0] \in Run
  BY <1>1
<1>. QED  BY <1>2, <1>3

LEMMA IdleIsRun ==
  ASSUME NEW id \in Ids \cup {NoId}, NEW f \in BOOLEAN
  PROVE  /\ Idle \in Run
         /\ [Idle EXCEPT !.phase = "steps", !.session = id] \in Run
         /\ [Idle EXCEPT !.phase = "steps", !.session = id, !.failed = f] \in Run
         /\ [Idle EXCEPT !.phase = "restore", !.id = id] \in Run
<1>1. 0 \in 0 .. NTargets + 1 /\ NoId \in Ids \cup {NoId} /\ NoTarget \in Targets \cup {NoTarget}
      /\ "idle" \in Phases /\ "steps" \in Phases /\ "restore" \in Phases
  BY ConstantsAreNumbers DEF Phases
<1>2. Idle \in Run
  BY <1>1 DEF Idle, Run
<1>3. \A r \in Run : [r EXCEPT !.phase = "steps", !.session = id] \in Run
  BY <1>1 DEF Run
<1>4. \A r \in Run : [r EXCEPT !.phase = "steps", !.session = id, !.failed = f] \in Run
  BY <1>1 DEF Run
<1>5. \A r \in Run : [r EXCEPT !.phase = "restore", !.id = id] \in Run
  BY <1>1 DEF Run
<1>. QED  BY <1>2, <1>3, <1>4, <1>5

-----------------------------------------------------------------------------
(* Steps that leave the backups alone                                      *)

LEMMA BackupsKept ==
  ASSUME InstallTypeOK, BackupInv, UNCHANGED Backups, before' = before, open' \subseteq open,
         disk' \in [Targets -> Contents], ledger' \in Ledgers, run' \in Run, Fault \/ Quiet
  PROVE  InstallTypeOK' /\ BackupInv'
<1>1. BackupInv' /\ Begun' = Begun
  BY BackupsStay
<1>2. faults' \in 0 .. MaxFaults
  BY ConstantsAreNumbers DEF InstallTypeOK, Fault, Quiet
<1>3. copies' = copies /\ manifest' = manifest /\ ledgerCopy' = ledgerCopy
  BY DEF Backups
<1>. QED  BY <1>1, <1>2, <1>3 DEF InstallTypeOK

\* The same, of a step that writes no target and no record either.
LEMMA FilesKept ==
  ASSUME InstallTypeOK, BackupInv, UNCHANGED Files, UNCHANGED Backups, before' = before,
         open' \subseteq open, run' \in Run, Fault \/ Quiet
  PROVE  InstallTypeOK' /\ BackupInv' /\ disk' = disk /\ ledger' = ledger
<1>1. disk' = disk /\ ledger' = ledger
  BY DEF Files
<1>2. disk' \in [Targets -> Contents] /\ ledger' \in Ledgers
  BY <1>1 DEF InstallTypeOK
<1>3. InstallTypeOK' /\ BackupInv'
  BY <1>2, BackupsKept
<1>. QED  BY <1>1, <1>3

\* Where a transaction writes, what is open has everything in its backup.
LEMMA OpenIsBackedUp ==
  ASSUME RunInv, run.phase \notin {"idle", "backup", "threw"}, NEW id \in open
  PROVE  Found(id).scope \subseteq Named(id)
  BY DEF RunInv, OpenInv, Undoable

LEMMA OpenStays ==
  ASSUME BackupInv, RunInv, run.phase \notin {"idle", "backup", "threw"},
         UNCHANGED Backups, before' = before, open' \subseteq open
  PROVE  OpenInv'
<1>1. \A id : Found(id)' = Found(id) /\ Named(id)' = Named(id)
  BY BackupsStay
<1>2. ASSUME NEW id \in open' PROVE Undoable(id)'
  <2>1. Found(id).scope \subseteq Named(id)
    BY OpenIsBackedUp
  <2>2. Found(id).scope' = Found(id).scope /\ Named(id)' = Named(id)
    BY <1>1
  <2>. QED  BY <2>1, <2>2 DEF Undoable
<1>. QED  BY <1>2 DEF OpenInv

-----------------------------------------------------------------------------
(* The steps of a session                                                  *)

LEMMA WriteConfigKeeps ==
  ASSUME InstallIInv, NEW t \in Targets, WriteConfig(t)
  PROVE  InstallIInv'
<1>. USE DEF InstallIInv
<1>1. /\ run.phase = "steps" /\ run' = run /\ ledger' = ledger /\ before' = before /\ open' = open
      /\ run.session \in Ids /\ run \in Run
  BY DEF WriteConfig, History, RunInv, RunOfBegun, NoId, Begun, InstallTypeOK
<1>2. disk' \in [Targets -> Contents] /\ ledger' \in Ledgers
  BY <1>1, ConstantsAreNumbers DEF WriteConfig, InstallTypeOK
<1>3. InstallTypeOK' /\ BackupInv' /\ Begun' = Begun
  BY <1>1, <1>2, BackupsKept, BackupsStay DEF WriteConfig
<1>4. RunOfBegun'
  BY <1>1, <1>3 DEF RunInv, RunOfBegun, Untouched
<1>5. ApplyInv' /\ RestoreInv'
  BY <1>1 DEF ApplyInv, RestoreInv, Applying, Writing
<1>6. OpenInv'
  BY <1>1, OpenStays DEF WriteConfig
<1>. QED  BY <1>3, <1>4, <1>5, <1>6 DEF RunInv

LEMMA FailStepKeeps ==
  ASSUME InstallIInv, FailStep
  PROVE  InstallIInv'
<1>. USE DEF InstallIInv
<1>1. run.phase = "steps" /\ run \in Run /\ run' = [run EXCEPT !.failed = TRUE]
  BY DEF FailStep, InstallTypeOK
<1>2. /\ run' \in Run /\ run'.phase = "steps" /\ run'.id = run.id /\ run'.session = run.session
      /\ run'.replaced = run.replaced /\ run'.half = run.half /\ run'.dirty = run.dirty
  <2>1. run' \in Run
    BY <1>1, RunWrites
  <2>2. /\ run'.phase = "steps" /\ run'.id = run.id /\ run'.session = run.session
        /\ run'.replaced = run.replaced /\ run'.half = run.half /\ run'.dirty = run.dirty
    BY <1>1 DEF Run
  <2>. QED  BY <2>1, <2>2
<1>3. before' = before /\ open' = open
  BY DEF FailStep, History
<1>4. InstallTypeOK' /\ BackupInv' /\ Begun' = Begun
  BY <1>2, <1>3, FilesKept, BackupsStay DEF FailStep
<1>5. RunOfBegun'
  BY <1>1, <1>2, <1>4 DEF RunInv, RunOfBegun, Untouched, Applying, Writing
<1>6. ApplyInv' /\ RestoreInv'
  BY <1>2 DEF ApplyInv, RestoreInv, Applying, Writing
<1>7. OpenInv'
  BY <1>1, <1>3, OpenStays DEF FailStep
<1>. QED  BY <1>4, <1>5, <1>6, <1>7 DEF RunInv

\* A command that has ended is idle.
LEMMA IdleKeeps ==
  ASSUME run' = Idle
  PROVE  RunOfBegun' /\ ApplyInv' /\ RestoreInv'
  BY DEF Idle, RunOfBegun, ApplyInv, RestoreInv, Applying, Writing, Untouched

LEMMA CommitSessionKeeps ==
  ASSUME InstallIInv, CommitSession
  PROVE  InstallIInv'
<1>. USE DEF InstallIInv
<1>1. run.phase = "steps" /\ run' = Idle /\ before' = before /\ open' \subseteq open
  BY DEF CommitSession
<1>2. InstallTypeOK' /\ BackupInv'
  BY <1>1, IdleIsRun, FilesKept DEF CommitSession
<1>3. OpenInv'
  BY <1>1, OpenStays DEF CommitSession
<1>. QED  BY <1>1, <1>2, <1>3, IdleKeeps DEF RunInv

LEMMA RollBackSessionKeeps ==
  ASSUME InstallIInv, RollBackSession
  PROVE  InstallIInv'
<1>. USE DEF InstallIInv
<1>1. /\ run.phase = "steps" /\ run \in Run /\ run.session \in Begun
      /\ run' = [run EXCEPT !.phase = "restore", !.id = run.session, !.entry = 0]
  BY DEF RollBackSession, InstallTypeOK, RunInv, RunOfBegun
<1>2. run.session \in Ids
  BY <1>1 DEF Begun
<1>3. /\ run' \in Run /\ run'.phase = "restore" /\ run'.id = run.session /\ run'.session = run.session
      /\ run'.entry = 0
  BY <1>1, <1>2, RunBegins DEF Run
<1>4. before' = before /\ open' = open /\ manifest' = manifest
  BY DEF RollBackSession, History, Backups
<1>5. InstallTypeOK' /\ BackupInv' /\ Begun' = Begun
  BY <1>3, <1>4, FilesKept, BackupsStay DEF RollBackSession
<1>6. RunOfBegun'
  BY <1>1, <1>2, <1>3, <1>5, ConstantsAreNumbers DEF RunOfBegun
<1>7. ApplyInv'
  BY <1>3 DEF ApplyInv, Applying, Writing
<1>8. Len(manifest'[run'.id]) \in Nat /\ DOMAIN manifest'[run'.id] = 1 .. Len(manifest'[run'.id])
  BY <1>2, <1>3, <1>4, EntryIsOfTarget
<1>9. RestoreInv'
  BY <1>3, <1>8 DEF RestoreInv, RestoredSoFar
<1>10. OpenInv'
  BY <1>1, <1>4, OpenStays DEF RollBackSession
<1>. QED  BY <1>5, <1>6, <1>7, <1>9, <1>10 DEF RunInv

-----------------------------------------------------------------------------
(* The steps of a plan                                                     *)

\* What is known of a plan that is applied.
LEMMA AppliedFacts ==
  ASSUME InstallIInv, run.phase \in Applying
  PROVE  /\ run \in Run /\ run.id \in Begun /\ run.id \in Ids /\ run.id # NoId
         /\ run.session \in Begun \cup {NoId}
         /\ run.half \in Targets \cup {NoTarget}
         /\ run.ops \in SUBSET Targets /\ run.replaced \in SUBSET Targets
         /\ Pending \in SUBSET Targets
         /\ Found(run.id) \in Snapshot /\ Found(run.id).disk \in [Targets -> Contents]
         /\ disk \in [Targets -> Contents]
         /\ Applied
<1>. USE DEF InstallIInv
<1>1. run \in Run /\ disk \in [Targets -> Contents]
  BY DEF InstallTypeOK
<1>2. run.id \in Begun /\ run.id # NoId /\ run.session \in Begun \cup {NoId} /\ Applied
  BY ConstantsAreNumbers DEF RunInv, RunOfBegun, ApplyInv
<1>3. /\ run.half \in Targets \cup {NoTarget}
      /\ run.ops \in SUBSET Targets /\ run.replaced \in SUBSET Targets
  BY <1>1 DEF Run
<1>4. /\ run.id \in Ids /\ Found(run.id) \in Snapshot /\ Found(run.id).disk \in [Targets -> Contents]
  BY <1>2, FoundIsSnapshot DEF BackupInv
<1>. QED  BY <1>1, <1>2, <1>3, <1>4 DEF Pending

\* A step to another phase of the same plan.
LEMMA PlanGoesOn ==
  ASSUME InstallIInv, run.phase \in Applying, NEW p \in Applying,
         run' = [run EXCEPT !.phase = p],
         UNCHANGED Files, UNCHANGED Backups, UNCHANGED History, Fault \/ Quiet
  PROVE  /\ InstallTypeOK' /\ BackupInv' /\ RunOfBegun' /\ RestoreInv'
         /\ run'.phase = p /\ run'.id = run.id /\ run'.ops = run.ops
         /\ run'.replaced = run.replaced /\ run'.half = run.half /\ run'.dirty = run.dirty
         /\ disk' = disk /\ ledger' = ledger /\ before' = before /\ open' = open
         /\ Found(run.id)' = Found(run.id) /\ Named(run.id)' = Named(run.id)
<1>. USE DEF InstallIInv
<1>1. run \in Run /\ p \in Phases
  BY DEF InstallTypeOK, Applying, Writing, Phases
<1>2. run' \in Run
  BY <1>1, RunWrites
<1>3. /\ run'.phase = p /\ run'.id = run.id /\ run'.ops = run.ops /\ run'.session = run.session
      /\ run'.replaced = run.replaced /\ run'.half = run.half /\ run'.dirty = run.dirty
  BY <1>1 DEF Run
<1>4. before' = before /\ open' = open
  BY DEF History
<1>5. InstallTypeOK' /\ BackupInv' /\ disk' = disk /\ ledger' = ledger
  BY <1>2, <1>4, FilesKept
<1>6. Begun' = Begun /\ \A id : Found(id)' = Found(id) /\ Named(id)' = Named(id)
  BY <1>4, BackupsStay
<1>7. RunOfBegun' /\ RestoreInv'
  BY <1>3, <1>6 DEF RunInv, RunOfBegun, RestoreInv, Applying, Writing
<1>8. Found(run.id)' = Found(run.id) /\ Named(run.id)' = Named(run.id)
  BY <1>3, <1>6
<1>. QED  BY <1>3, <1>4, <1>5, <1>7, <1>8

LEMMA StageKeeps ==
  ASSUME InstallIInv, Stage
  PROVE  InstallIInv'
<1>. USE DEF InstallIInv
<1>1. run.phase = "backup" /\ AllBackedUp /\ run' = [run EXCEPT !.phase = "replace"]
  BY DEF Stage
<1>2. /\ "replace" \in Applying /\ run.phase \in Applying
  BY <1>1 DEF Applying, Writing
<1>3. /\ InstallTypeOK' /\ BackupInv' /\ RunOfBegun' /\ RestoreInv'
      /\ run'.phase = "replace" /\ run'.id = run.id /\ run'.ops = run.ops
      /\ run'.replaced = run.replaced /\ run'.half = run.half /\ run'.dirty = run.dirty
      /\ disk' = disk /\ ledger' = ledger /\ before' = before /\ open' = open
      /\ Found(run.id)' = Found(run.id) /\ Named(run.id)' = Named(run.id)
  BY <1>1, <1>2, PlanGoesOn DEF Stage
<1>4. run.ops \in SUBSET Targets /\ Applied
  BY <1>2, AppliedFacts
<1>5. run.ops \subseteq Named(run.id)
  BY <1>1, <1>4 DEF AllBackedUp, Named
<1>6. Applied'
  BY <1>1, <1>3, <1>4, <1>5 DEF Applied, Writing, Untouched
<1>7. \A id : Found(id)' = Found(id) /\ Named(id)' = Named(id)
  BY <1>3, BackupsStay DEF Stage
<1>8. ASSUME NEW id \in open PROVE Undoable(id)'
  <2>1. Undoable(id)
    BY DEF RunInv, OpenInv
  <2>2. Found(id).scope \subseteq Named(id)
    BY <1>1, <1>4, <1>5, <2>1 DEF Undoable, Applied
  <2>3. Found(id).scope' = Found(id).scope /\ Named(id)' = Named(id)
    BY <1>7
  <2>. QED  BY <2>2, <2>3 DEF Undoable
<1>. QED  BY <1>3, <1>6, <1>8 DEF RunInv, ApplyInv, OpenInv

LEMMA BackupFailsKeeps ==
  ASSUME InstallIInv, BackupFails
  PROVE  InstallIInv'
<1>. USE DEF InstallIInv
<1>1. run.phase = "backup" /\ run' = [run EXCEPT !.phase = "threw"]
  BY DEF BackupFails
<1>2. /\ "threw" \in Applying /\ run.phase \in Applying
  BY <1>1 DEF Applying, Writing
<1>3. /\ InstallTypeOK' /\ BackupInv' /\ RunOfBegun' /\ RestoreInv'
      /\ run'.phase = "threw" /\ run'.id = run.id /\ run'.ops = run.ops
      /\ run'.replaced = run.replaced /\ run'.half = run.half /\ run'.dirty = run.dirty
      /\ disk' = disk /\ ledger' = ledger /\ before' = before /\ open' = open
      /\ Found(run.id)' = Found(run.id) /\ Named(run.id)' = Named(run.id)
  BY <1>1, <1>2, PlanGoesOn DEF BackupFails
<1>4. Applied
  BY <1>2, AppliedFacts
<1>5. Applied'
  BY <1>1, <1>3, <1>4 DEF Applied, Writing, Untouched
<1>6. \A id : Found(id)' = Found(id) /\ Named(id)' = Named(id)
  BY <1>3, BackupsStay DEF BackupFails
<1>7. ASSUME NEW id \in open PROVE Undoable(id)'
  <2>1. Undoable(id)
    BY DEF RunInv, OpenInv
  <2>2. /\ Found(id).scope' = Found(id).scope /\ Found(id).disk' = Found(id).disk
        /\ Named(id)' = Named(id)
    BY <1>6
  <2>. QED  BY <1>1, <1>3, <2>1, <2>2 DEF Undoable, Untouched
<1>. QED  BY <1>3, <1>5, <1>7 DEF RunInv, ApplyInv, OpenInv

LEMMA VerifyKeeps ==
  ASSUME InstallIInv, Verify \/ VerifyFails \/ LedgerFails
  PROVE  InstallIInv'
<1>. USE DEF InstallIInv
<1>1. /\ \/ run.phase = "replace" /\ Pending = {} /\ run' = [run EXCEPT !.phase = "ledger"]
         \/ run.phase \in {"replace", "ledger"} /\ run' = [run EXCEPT !.phase = "undo"]
      /\ UNCHANGED Files /\ UNCHANGED Backups /\ UNCHANGED History /\ (Fault \/ Quiet)
  BY DEF Verify, VerifyFails, LedgerFails
<1>2. /\ "ledger" \in Applying /\ "undo" \in Applying /\ run.phase \in Applying
  BY <1>1 DEF Applying, Writing
<1>3. PICK p \in {"ledger", "undo"} :
        /\ run' = [run EXCEPT !.phase = p]
        /\ p = "ledger" => run.phase = "replace" /\ Pending = {}
  BY <1>1
<1>4. /\ InstallTypeOK' /\ BackupInv' /\ RunOfBegun' /\ RestoreInv'
      /\ run'.phase = p /\ run'.id = run.id /\ run'.ops = run.ops
      /\ run'.replaced = run.replaced /\ run'.half = run.half /\ run'.dirty = run.dirty
      /\ disk' = disk /\ ledger' = ledger /\ before' = before /\ open' = open
      /\ Found(run.id)' = Found(run.id) /\ Named(run.id)' = Named(run.id)
  BY <1>1, <1>2, <1>3, PlanGoesOn
<1>5. Applied
  BY <1>2, AppliedFacts
<1>6. Applied'
  BY <1>1, <1>3, <1>4, <1>5 DEF Applied, Writing, Untouched, Pending
<1>7. OpenInv'
  BY <1>1, <1>4, OpenStays
<1>. QED  BY <1>4, <1>6, <1>7 DEF RunInv, ApplyInv

LEMMA UndoEndsKeeps ==
  ASSUME InstallIInv, UndoEnds
  PROVE  InstallIInv'
<1>. USE DEF InstallIInv
<1>1. run.phase = "undo" /\ run.replaced = {} /\ run' = [run EXCEPT !.phase = "threw"]
  BY DEF UndoEnds
<1>2. /\ "threw" \in Applying /\ run.phase \in Applying
  BY <1>1 DEF Applying, Writing
<1>3. /\ InstallTypeOK' /\ BackupInv' /\ RunOfBegun' /\ RestoreInv'
      /\ run'.phase = "threw" /\ run'.id = run.id /\ run'.ops = run.ops
      /\ run'.replaced = run.replaced /\ run'.half = run.half /\ run'.dirty = run.dirty
      /\ disk' = disk /\ ledger' = ledger /\ before' = before /\ open' = open
      /\ Found(run.id)' = Found(run.id) /\ Named(run.id)' = Named(run.id)
  BY <1>1, <1>2, PlanGoesOn DEF UndoEnds
<1>4. Applied
  BY <1>2, AppliedFacts
<1>5. Applied'
  BY <1>1, <1>3, <1>4 DEF Applied, Writing, Untouched
<1>6. OpenInv'
  BY <1>1, <1>3, OpenStays DEF UndoEnds
<1>. QED  BY <1>3, <1>5, <1>6 DEF RunInv, ApplyInv

LEMMA RenameFailsKeeps ==
  ASSUME InstallIInv, RenameFails
  PROVE  InstallIInv'
<1>. USE DEF InstallIInv
<1>. DEFINE m == Min(Pending)
<1>1. run.phase = "swap" /\ run' = [run EXCEPT !.phase = "undo", !.half = m]
  BY DEF RenameFails
<1>2. run.phase \in Applying
  BY <1>1 DEF Applying, Writing
<1>3. run \in Run /\ Pending \in SUBSET Targets /\ Applied
  BY <1>2, AppliedFacts
<1>4. m \in Targets
  BY <1>1, <1>3, FirstOfTargets DEF Applied
<1>. HIDE DEF m
<1>5. run' \in Run
  BY <1>1, <1>3, <1>4, RunWrites DEF Phases
<1>6. /\ run'.phase = "undo" /\ run'.id = run.id /\ run'.ops = run.ops /\ run'.session = run.session
      /\ run'.replaced = run.replaced /\ run'.half = m /\ run'.dirty = run.dirty
  BY <1>1, <1>3 DEF Run
<1>7. before' = before /\ open' = open
  BY DEF RenameFails, History
<1>8. InstallTypeOK' /\ BackupInv' /\ disk' = disk /\ ledger' = ledger
  BY <1>5, <1>7, FilesKept DEF RenameFails
<1>9. Begun' = Begun /\ \A id : Found(id)' = Found(id) /\ Named(id)' = Named(id)
  BY <1>7, BackupsStay DEF RenameFails
<1>10. RunOfBegun' /\ RestoreInv'
  BY <1>1, <1>6, <1>9 DEF RunInv, RunOfBegun, RestoreInv, Applying, Writing
<1>11. Found(run.id)' = Found(run.id) /\ Named(run.id)' = Named(run.id)
  BY <1>6, <1>9
<1>12. \A t \in Targets : t # run.half
  BY <1>1, <1>3, ConstantsAreNumbers DEF Applied, Writing, Untouched
<1>13. Applied'
  BY <1>1, <1>3, <1>6, <1>8, <1>11, <1>12 DEF Applied, Writing, Untouched, m
<1>14. OpenInv'
  BY <1>1, <1>7, OpenStays DEF RenameFails
<1>. QED  BY <1>8, <1>10, <1>13, <1>14 DEF RunInv, ApplyInv

\* A step that writes a target, of a plan that has everything in its backup.
LEMMA PlanWrites ==
  ASSUME InstallIInv, run.phase \in Writing \cup {"undo"},
         run' \in Run, run'.phase \in Applying, run'.id = run.id, run'.session = run.session,
         disk' \in [Targets -> Contents], ledger' = ledger,
         UNCHANGED Backups, UNCHANGED History, Fault \/ Quiet
  PROVE  /\ InstallTypeOK' /\ BackupInv' /\ RunOfBegun' /\ RestoreInv' /\ OpenInv'
         /\ Found(run.id)' = Found(run.id) /\ Named(run.id)' = Named(run.id)
<1>. USE DEF InstallIInv
<1>1. before' = before /\ open' = open
  BY DEF History
<1>2. ledger' \in Ledgers
  BY DEF InstallTypeOK
<1>3. InstallTypeOK' /\ BackupInv'
  BY <1>1, <1>2, BackupsKept
<1>4. Begun' = Begun /\ \A id : Found(id)' = Found(id) /\ Named(id)' = Named(id)
  BY <1>1, BackupsStay
<1>5. RunOfBegun' /\ RestoreInv'
  BY <1>4 DEF RunInv, RunOfBegun, RestoreInv, Applying, Writing
<1>6. OpenInv'
  BY <1>1, OpenStays DEF Writing
<1>7. Found(run.id)' = Found(run.id) /\ Named(run.id)' = Named(run.id)
  BY <1>4
<1>. QED  BY <1>3, <1>5, <1>6, <1>7

\* The facts of a plan that is writing its targets.
LEMMA WritingFacts ==
  ASSUME InstallIInv, run.phase \in Writing
  PROVE  /\ run.half = NoTarget /\ run.dirty = FALSE /\ \A t \in Targets : t # run.half
         /\ \A t \in run.replaced : disk[t] = run.id
         /\ run.ops \subseteq Named(run.id)
         /\ Pending # {} => Min(Pending) \in Targets /\ Min(Pending) \in Pending
<1>1. run \in Run /\ Applied /\ Pending \in SUBSET Targets
  BY AppliedFacts DEF Applying
<1>2. run.dirty = FALSE
  BY <1>1 DEF Applied, Untouched, Run
<1>3. run.half = NoTarget /\ run.ops \subseteq Named(run.id) /\ \A t \in run.replaced : disk[t] = run.id
  BY <1>1 DEF Applied, Untouched
<1>4. Pending # {} => Min(Pending) \in Targets /\ Min(Pending) \in Pending
  BY <1>1, FirstOfTargets
<1>. QED  BY <1>2, <1>3, <1>4, ConstantsAreNumbers

LEMMA RemoveTargetKeeps ==
  ASSUME InstallIInv, RemoveTarget
  PROVE  InstallIInv'
<1>. DEFINE m == Min(Pending)
<1>1. /\ run.phase = "replace" /\ Pending # {} /\ run' = [run EXCEPT !.phase = "swap"]
      /\ disk' = [disk EXCEPT ![m] = Absent] /\ ledger' = ledger
  BY DEF RemoveTarget
<1>2. run.phase \in Applying /\ run.phase \in Writing /\ "swap" \in Applying /\ "swap" \in Phases
  BY <1>1 DEF Applying, Writing, Phases
<1>3. /\ run \in Run /\ disk \in [Targets -> Contents] /\ Applied
      /\ run.half = NoTarget /\ run.dirty = FALSE /\ \A t \in Targets : t # run.half
      /\ \A t \in run.replaced : disk[t] = run.id
      /\ run.ops \subseteq Named(run.id) /\ run.replaced \in SUBSET Targets
      /\ m \in Targets /\ m \in Pending
  BY <1>1, <1>2, AppliedFacts, WritingFacts
<1>4. run' \in Run
  BY <1>1, <1>2, <1>3, RunWrites
<1>5. /\ run'.phase = "swap" /\ run'.id = run.id /\ run'.ops = run.ops /\ run'.session = run.session
      /\ run'.replaced = run.replaced /\ run'.half = run.half /\ run'.dirty = run.dirty
  BY <1>1, <1>3 DEF Run
<1>6. Pending' = Pending
  BY <1>5 DEF Pending
<1>7. /\ disk' \in [Targets -> Contents] /\ \A t \in Targets : t # m => disk'[t] = disk[t]
  BY <1>1, <1>3, ConstantsAreNumbers
<1>8. /\ InstallTypeOK' /\ BackupInv' /\ RunOfBegun' /\ RestoreInv' /\ OpenInv'
      /\ Found(run.id)' = Found(run.id) /\ Named(run.id)' = Named(run.id)
  BY <1>1, <1>2, <1>4, <1>5, <1>7, PlanWrites DEF RemoveTarget
<1>9. Min(Pending)' = m
  BY <1>6
<1>. HIDE DEF m
<1>10. \A t \in run.replaced : disk'[t] = run.id
  BY <1>3, <1>7 DEF Pending
<1>11. \A t \in Targets \ run.replaced : t = m \/ disk'[t] = Found(run.id).disk[t]
  BY <1>1, <1>3, <1>7 DEF Applied
<1>12. Applied'
  BY <1>1, <1>3, <1>5, <1>6, <1>8, <1>9, <1>10, <1>11 DEF Applied, Writing, Untouched
<1>. QED  BY <1>8, <1>12 DEF InstallIInv, RunInv, ApplyInv

LEMMA RemoveFailsKeeps ==
  ASSUME InstallIInv, RemoveFails
  PROVE  InstallIInv'
<1>. DEFINE m == Min(Pending)
<1>1. run.phase = "replace" /\ Pending # {} /\ ledger' = ledger
  BY DEF RemoveFails
<1>2. PICK c \in HalfRemoved(m) :
        /\ disk' = [disk EXCEPT ![m] = c]
        /\ run' = [run EXCEPT !.phase = "undo", !.half = IF c = disk[m] THEN NoTarget ELSE m]
  BY DEF RemoveFails
<1>. DEFINE h == IF c = disk[m] THEN NoTarget ELSE m
<1>3. run.phase \in Applying /\ run.phase \in Writing /\ "undo" \in Applying /\ "undo" \in Phases
  BY <1>1 DEF Applying, Writing, Phases
<1>4. /\ run \in Run /\ disk \in [Targets -> Contents] /\ Applied
      /\ run.half = NoTarget /\ run.dirty = FALSE /\ \A t \in Targets : t # run.half
      /\ run.ops \subseteq Named(run.id) /\ run.replaced \in SUBSET Targets
      /\ m \in Targets /\ m \in Pending
  BY <1>1, <1>3, AppliedFacts, WritingFacts
<1>5. h \in Targets \cup {NoTarget} /\ c \in Contents
  BY <1>4, ConstantsAreNumbers DEF HalfRemoved
<1>6. run' = [run EXCEPT !.phase = "undo", !.half = h]
  BY <1>2
<1>7. disk' \in [Targets -> Contents]
  BY <1>2, <1>4, <1>5
<1>8. \A t \in Targets : t = h \/ disk'[t] = disk[t]
  BY <1>2, <1>4
<1>. HIDE DEF m, h
<1>9. run' \in Run
  BY <1>3, <1>4, <1>5, <1>6, RunWrites
<1>10. /\ run'.phase = "undo" /\ run'.id = run.id /\ run'.ops = run.ops /\ run'.session = run.session
      /\ run'.replaced = run.replaced /\ run'.half = h /\ run'.dirty = run.dirty
  BY <1>4, <1>6 DEF Run
<1>11. /\ InstallTypeOK' /\ BackupInv' /\ RunOfBegun' /\ RestoreInv' /\ OpenInv'
      /\ Found(run.id)' = Found(run.id) /\ Named(run.id)' = Named(run.id)
  BY <1>1, <1>3, <1>9, <1>10, <1>7, PlanWrites DEF RemoveFails
<1>12. \A t \in Targets \ run.replaced : t = h \/ disk'[t] = Found(run.id).disk[t]
  BY <1>1, <1>4, <1>8 DEF Applied
<1>13. Applied'
  BY <1>1, <1>4, <1>10, <1>11, <1>12 DEF Applied, Writing
<1>. QED  BY <1>11, <1>13 DEF InstallIInv, RunInv, ApplyInv

LEMMA RenameStagedKeeps ==
  ASSUME InstallIInv, RenameStaged
  PROVE  InstallIInv'
<1>. DEFINE m == Min(Pending)
<1>. DEFINE s == run.replaced \cup {m}
<1>1. /\ run.phase = "swap" /\ ledger' = ledger /\ disk' = [disk EXCEPT ![m] = run.id]
      /\ run' = [run EXCEPT !.phase = "replace", !.replaced = s]
  BY DEF RenameStaged
<1>2. /\ run.phase \in Applying /\ run.phase \in Writing
      /\ "replace" \in Applying /\ "replace" \in Phases
  BY <1>1 DEF Applying, Writing, Phases
<1>3. /\ run \in Run /\ run.id \in Ids /\ disk \in [Targets -> Contents] /\ Applied
  BY <1>2, AppliedFacts
<1>4. /\ run.half = NoTarget /\ run.dirty = FALSE /\ \A t \in Targets : t # run.half
      /\ \A t \in run.replaced : disk[t] = run.id
      /\ run.ops \subseteq Named(run.id) /\ run.replaced \in SUBSET Targets
      /\ m \in Targets /\ m \in Pending
  BY <1>1, <1>2, <1>3, AppliedFacts, WritingFacts DEF Applied
<1>5. s \in SUBSET Targets /\ s \subseteq run.ops
  BY <1>3, <1>4 DEF Applied, Pending
<1>6. /\ disk' \in [Targets -> Contents] /\ \A t \in Targets : t # m => disk'[t] = disk[t]
      /\ disk'[m] = run.id
  BY <1>1, <1>3, <1>4, ConstantsAreNumbers
<1>7. \A t \in s : disk'[t] = run.id
  BY <1>4, <1>6
<1>8. \A t \in Targets \ s : disk'[t] = Found(run.id).disk[t]
  BY <1>1, <1>3, <1>4, <1>6 DEF Applied
<1>. HIDE DEF m, s
<1>9. run' \in Run
  BY <1>1, <1>2, <1>3, <1>5, RunWrites
<1>10. /\ run'.phase = "replace" /\ run'.id = run.id /\ run'.ops = run.ops /\ run'.session = run.session
      /\ run'.replaced = s /\ run'.half = run.half /\ run'.dirty = run.dirty
  BY <1>1, <1>3 DEF Run
<1>11. /\ InstallTypeOK' /\ BackupInv' /\ RunOfBegun' /\ RestoreInv' /\ OpenInv'
      /\ Found(run.id)' = Found(run.id) /\ Named(run.id)' = Named(run.id)
  BY <1>1, <1>2, <1>9, <1>10, <1>6, PlanWrites DEF RenameStaged
<1>12. Applied'
  BY <1>1, <1>3, <1>4, <1>5, <1>7, <1>8, <1>10, <1>11 DEF Applied, Writing, Untouched
<1>. QED  BY <1>11, <1>12 DEF InstallIInv, RunInv, ApplyInv

\* Whatever the plan replaced and then undid is what it found.
LEMMA UndoneIsFound ==
  ASSUME InstallIInv, run.phase = "undo", NEW t \in run.replaced,
         NEW k, k = (CHOOSE n \in EntriesOf(run.id, t) : TRUE)
  PROVE  Restored(run.id, k) = Found(run.id).disk[t] /\ Restored(run.id, k) \in Contents
<1>1. run.phase \in Applying
  BY DEF Applying
<1>2. run.id \in Begun /\ run.replaced \subseteq run.ops /\ run.ops \subseteq Named(run.id)
  BY <1>1, AppliedFacts DEF Applied
<1>3. EntriesOf(run.id, t) # {}
  BY <1>2 DEF Named
<1>4. k \in DOMAIN manifest[run.id] /\ manifest[run.id][k].target = t
  BY <1>3 DEF EntriesOf
<1>. QED  BY <1>2, <1>4, RestoredIsFound DEF InstallIInv

LEMMA UndoKeeps ==
  ASSUME InstallIInv, Undo
  PROVE  InstallIInv'
<1>. DEFINE t == Max(run.replaced)
<1>. DEFINE k == CHOOSE n \in EntriesOf(run.id, t) : TRUE
<1>. DEFINE s == run.replaced \ {t}
<1>1. run.phase = "undo" /\ run.replaced # {} /\ ledger' = ledger
  BY DEF Undo
<1>2. \/ disk' = [disk EXCEPT ![t] = Restored(run.id, k)] /\ run' = [run EXCEPT !.replaced = s]
      \/ /\ \E c \in HalfRestored(t) : disk' = [disk EXCEPT ![t] = c]
         /\ run' = [run EXCEPT !.replaced = s, !.dirty = TRUE]
  BY DEF Undo
<1>3. run.phase \in Applying /\ run.phase \in Writing \cup {"undo"}
  BY <1>1 DEF Applying, Writing
<1>4. /\ run \in Run /\ disk \in [Targets -> Contents] /\ Applied /\ run.replaced \in SUBSET Targets
  BY <1>3, AppliedFacts
<1>5. t \in run.replaced /\ t \in Targets
  BY <1>1, <1>4, LastOfTargets
<1>6. Restored(run.id, k) = Found(run.id).disk[t] /\ Restored(run.id, k) \in Contents
  BY <1>1, <1>5, UndoneIsFound
<1>7. \A c \in HalfRestored(t) : c \in Contents
  BY <1>4, <1>5, ConstantsAreNumbers DEF HalfRestored
<1>8. s \in SUBSET Targets /\ s \subseteq run.ops
  BY <1>4 DEF Applied
<1>. HIDE DEF t, k, s
<1>9. disk' \in [Targets -> Contents] /\ \A u \in Targets : u # t => disk'[u] = disk[u]
  BY <1>2, <1>4, <1>5, <1>6, <1>7
<1>10. run' \in Run
  BY <1>2, <1>4, <1>8, RunWrites
<1>11. /\ run'.phase = "undo" /\ run'.id = run.id /\ run'.ops = run.ops /\ run'.session = run.session
       /\ run'.replaced = s /\ run'.half = run.half
       /\ ~run'.dirty => ~run.dirty /\ disk'[t] = Found(run.id).disk[t]
  BY <1>1, <1>2, <1>4, <1>5, <1>6 DEF Run
<1>12. Fault \/ Quiet
  BY DEF Undo, Quiet
<1>13. /\ InstallTypeOK' /\ BackupInv' /\ RunOfBegun' /\ RestoreInv' /\ OpenInv'
       /\ Found(run.id)' = Found(run.id) /\ Named(run.id)' = Named(run.id)
  BY <1>1, <1>3, <1>9, <1>10, <1>11, <1>12, PlanWrites DEF Undo
<1>14. ~run'.dirty => \A u \in Targets \ s : u = run.half \/ disk'[u] = Found(run.id).disk[u]
  BY <1>1, <1>4, <1>9, <1>11 DEF Applied, s
<1>15. Applied'
  BY <1>1, <1>4, <1>8, <1>11, <1>13, <1>14 DEF Applied, Writing
<1>. QED  BY <1>13, <1>15 DEF InstallIInv, RunInv, ApplyInv

\* A plan that ends gives way to the steps of its session, or to nothing.
LEMMA PlanEnds ==
  ASSUME InstallIInv, run.phase \in Applying, NEW f \in BOOLEAN, run' = AfterApply(f),
         Begun' = Begun
  PROVE  run' \in Run /\ RunOfBegun' /\ ApplyInv' /\ RestoreInv' /\ run'.phase \in {"idle", "steps"}
<1>1. run \in Run /\ run.session \in Begun \cup {NoId} /\ run.session \in Ids \cup {NoId}
  BY AppliedFacts DEF Begun
<1>2. (run.failed \/ f) \in BOOLEAN
  BY <1>1 DEF Run
<1>3. CASE run.session = NoId
  <2>1. run' = Idle
    BY <1>3 DEF AfterApply
  <2>2. run' \in Run
    BY <1>1, <1>2, <2>1, IdleIsRun
  <2>. QED  BY <2>1, <2>2, IdleKeeps DEF Idle
<1>4. CASE run.session # NoId
  <2>. DEFINE g == run.failed \/ f
  <2>1. run' = [Idle EXCEPT !.phase = "steps", !.session = run.session, !.failed = g]
    BY <1>4 DEF AfterApply
  <2>2. run' \in Run
    BY <1>1, <1>2, <2>1, IdleIsRun
  <2>. HIDE DEF g
  <2>3. /\ run'.phase = "steps" /\ run'.session = run.session /\ run'.id = NoId
        /\ run'.replaced = {} /\ run'.half = NoTarget /\ run'.dirty = FALSE
    BY <2>1 DEF Idle
  <2>4. RunOfBegun'
    BY <1>1, <1>4, <2>3 DEF RunOfBegun, Untouched, Applying, Writing
  <2>5. ApplyInv' /\ RestoreInv'
    BY <2>3 DEF ApplyInv, RestoreInv, Applying, Writing
  <2>. QED  BY <2>2, <2>3, <2>4, <2>5
<1>. QED  BY <1>3, <1>4

LEMMA WriteLedgerKeeps ==
  ASSUME InstallIInv, WriteLedger
  PROVE  InstallIInv'
<1>. USE DEF InstallIInv
<1>1. /\ run.phase = "ledger" /\ run' = AfterApply(FALSE) /\ ledger' = Merged
      /\ disk' = disk /\ before' = before /\ open' \subseteq open
  BY DEF WriteLedger
<1>2. run.phase \in Applying
  BY <1>1 DEF Applying, Writing
<1>3. run.id \in Ids
  BY <1>2, AppliedFacts
<1>4. disk' \in [Targets -> Contents] /\ ledger' \in Ledgers
  BY <1>1, <1>3, ConstantsAreNumbers DEF InstallTypeOK, Ledgers, Merged
<1>5. Begun' = Begun
  BY <1>1, BackupsStay DEF WriteLedger
<1>6. run' \in Run /\ RunOfBegun' /\ ApplyInv' /\ RestoreInv'
  BY <1>1, <1>2, <1>5, PlanEnds
<1>7. InstallTypeOK' /\ BackupInv'
  BY <1>1, <1>4, <1>6, BackupsKept DEF WriteLedger
<1>8. OpenInv'
  BY <1>1, OpenStays DEF WriteLedger
<1>. QED  BY <1>6, <1>7, <1>8 DEF RunInv

LEMMA ReturnFailureKeeps ==
  ASSUME InstallIInv, ReturnFailure
  PROVE  InstallIInv'
<1>. USE DEF InstallIInv
<1>1. /\ run.phase = "threw" /\ run' = AfterApply(TRUE) /\ before' = before
      /\ open' \subseteq open
      /\ Untouched => run.id \notin open'
  BY DEF ReturnFailure, Untouched
<1>2. run.phase \in Applying
  BY <1>1 DEF Applying
<1>3. Begun' = Begun /\ \A id : Found(id)' = Found(id) /\ Named(id)' = Named(id)
  BY <1>1, BackupsStay DEF ReturnFailure
<1>4. run' \in Run /\ RunOfBegun' /\ ApplyInv' /\ RestoreInv'
  BY <1>1, <1>2, <1>3, PlanEnds
<1>5. InstallTypeOK' /\ BackupInv'
  BY <1>1, <1>4, FilesKept DEF ReturnFailure
<1>6. ASSUME NEW id \in open' PROVE Undoable(id)'
  <2>1. Undoable(id)
    BY <1>1 DEF RunInv, OpenInv
  <2>2. Found(id).scope \subseteq Named(id)
    BY <1>1, <1>6, <2>1 DEF Undoable
  <2>3. Found(id).scope' = Found(id).scope /\ Named(id)' = Named(id)
    BY <1>3
  <2>. QED  BY <2>2, <2>3 DEF Undoable
<1>. QED  BY <1>4, <1>5, <1>6 DEF RunInv, OpenInv

-----------------------------------------------------------------------------
(* The steps of a restore                                                  *)

LEMMA BeginRestoreKeeps ==
  ASSUME InstallIInv, NEW id \in Ids, BeginRestore(id)
  PROVE  InstallIInv'
<1>. USE DEF InstallIInv
<1>1. /\ manifest[id] # <<>> /\ run' = [Idle EXCEPT !.phase = "restore", !.id = id]
      /\ open' = {} /\ before' = before /\ manifest' = manifest
  BY DEF BeginRestore, Backups
<1>2. id \in Begun
  BY <1>1 DEF BackupInv, BackupsFaithful, FaithfulBackup
<1>3. run' \in Run
  BY <1>1, IdleIsRun
<1>4. run'.phase = "restore" /\ run'.id = id /\ run'.session = NoId /\ run'.entry = 0
  BY <1>1 DEF Idle
<1>5. InstallTypeOK' /\ BackupInv' /\ Begun' = Begun
  BY <1>1, <1>3, FilesKept, BackupsStay DEF BeginRestore
<1>6. RunOfBegun' /\ ApplyInv'
  BY <1>2, <1>4, <1>5, ConstantsAreNumbers DEF RunOfBegun, ApplyInv, Applying, Writing
<1>7. Len(manifest'[run'.id]) \in Nat /\ DOMAIN manifest'[run'.id] = 1 .. Len(manifest'[run'.id])
  BY <1>1, <1>4, EntryIsOfTarget
<1>8. RestoreInv'
  BY <1>4, <1>7 DEF RestoreInv, RestoredSoFar
<1>. QED  BY <1>1, <1>5, <1>6, <1>8 DEF RunInv, OpenInv

\* What is known of a restore.
LEMMA RestoreFacts ==
  ASSUME InstallIInv, run.phase \in {"restore", "restored"}
  PROVE  /\ run \in Run /\ run.id \in Begun /\ run.id \in Ids /\ run.id # NoId
         /\ run.entry \in 0 .. NTargets + 1
         /\ LastEntry \in Nat /\ LastEntry <= NTargets
         /\ DOMAIN manifest[run.id] = 1 .. LastEntry
         /\ \A n \in 1 .. LastEntry : manifest[run.id][n].target \in Targets
         /\ disk \in [Targets -> Contents] /\ ledger \in Ledgers
         /\ RestoredSoFar
<1>. USE DEF InstallIInv
<1>1. run \in Run /\ disk \in [Targets -> Contents] /\ ledger \in Ledgers
  BY DEF InstallTypeOK
<1>2. run.id \in Begun /\ run.id # NoId /\ RestoredSoFar
  BY ConstantsAreNumbers DEF RunInv, RunOfBegun, RestoreInv
<1>3. run.entry \in 0 .. NTargets + 1
  BY <1>1 DEF Run
<1>4. run.id \in Ids
  BY <1>2 DEF Begun
<1>5. FaithfulBackup(run.id)
  BY <1>4 DEF BackupInv, BackupsFaithful
<1>6. LastEntry <= NTargets
  BY <1>4, <1>5, BackupFits DEF LastEntry
<1>7. /\ LastEntry \in Nat /\ DOMAIN manifest[run.id] = 1 .. LastEntry
      /\ \A n \in 1 .. LastEntry : manifest[run.id][n].target \in Targets
  BY <1>4, EntryIsOfTarget DEF LastEntry
<1>. QED  BY <1>1, <1>2, <1>3, <1>4, <1>6, <1>7

\* What the next entry restores is what its transaction found.
LEMMA EntryRestores ==
  ASSUME InstallIInv, run.phase = "restore", run.entry \in 1 .. LastEntry
  PROVE  LET t == manifest[run.id][run.entry].target
         IN  /\ t \in Targets
             /\ Restored(run.id, run.entry) = Found(run.id).disk[t]
             /\ Restored(run.id, run.entry) \in Contents
<1>1. run.id \in Begun /\ run.entry \in DOMAIN manifest[run.id]
  BY RestoreFacts
<1>. QED  BY <1>1, RestoredIsFound DEF InstallIInv

LEMMA RestoreGoesOn ==
  ASSUME InstallIInv, run.phase \in {"restore", "restored"},
         run' \in Run, run'.phase \in {"restore", "restored"}, run'.id = run.id,
         run'.session = run.session,
         disk' \in [Targets -> Contents], ledger' \in Ledgers,
         UNCHANGED Backups, UNCHANGED History, Fault \/ Quiet
  PROVE  /\ InstallTypeOK' /\ BackupInv' /\ RunOfBegun' /\ ApplyInv' /\ OpenInv'
         /\ Found(run.id)' = Found(run.id)
         /\ manifest'[run.id] = manifest[run.id] /\ ledgerCopy'[run.id] = ledgerCopy[run.id]
<1>. USE DEF InstallIInv
<1>1. before' = before /\ open' = open /\ manifest' = manifest /\ ledgerCopy' = ledgerCopy
  BY DEF History, Backups
<1>2. InstallTypeOK' /\ BackupInv'
  BY <1>1, BackupsKept
<1>3. Begun' = Begun /\ \A id : Found(id)' = Found(id) /\ Named(id)' = Named(id)
  BY <1>1, BackupsStay
<1>4. RunOfBegun' /\ ApplyInv'
  BY <1>3 DEF RunInv, RunOfBegun, ApplyInv, Applying, Writing
<1>5. OpenInv'
  BY <1>1, OpenStays
<1>6. Found(run.id)' = Found(run.id)
  BY <1>3
<1>. QED  BY <1>1, <1>2, <1>4, <1>5, <1>6

LEMMA RestoreLedgerKeeps ==
  ASSUME InstallIInv, RestoreLedger
  PROVE  InstallIInv'
<1>1. /\ run.phase = "restore" /\ run.entry = 0 /\ run' = [run EXCEPT !.entry = 1] /\ disk' = disk
      /\ ledger' = IF ledgerCopy[run.id] = <<>> THEN ledger ELSE Head(ledgerCopy[run.id])
  BY DEF RestoreLedger
<1>2. /\ run \in Run /\ run.id \in Begun /\ run.id \in Ids /\ run.entry \in 0 .. NTargets + 1
      /\ LastEntry \in Nat /\ DOMAIN manifest[run.id] = 1 .. LastEntry
      /\ disk \in [Targets -> Contents] /\ ledger \in Ledgers
  BY <1>1, RestoreFacts
<1>3. FaithfulBackup(run.id)
  BY <1>2 DEF InstallIInv, BackupInv, BackupsFaithful
<1>4. ledgerCopy[run.id] # <<>> => ledger' = Found(run.id).ledger
  BY <1>1, <1>3 DEF FaithfulBackup
<1>5. ledger' \in Ledgers
  <2>1. Found(run.id).ledger \in Ledgers
    BY <1>2, FoundIsSnapshot DEF InstallIInv, BackupInv
  <2>. QED  BY <1>1, <1>2, <1>4, <2>1
<1>6. run' \in Run
  <2>1. 1 \in 0 .. NTargets + 1
    BY ConstantsAreNumbers
  <2>. QED  BY <1>1, <1>2, <2>1, RunWrites
<1>7. run'.phase = "restore" /\ run'.id = run.id /\ run'.session = run.session /\ run'.entry = 1
  BY <1>1, <1>2 DEF Run
<1>8. /\ InstallTypeOK' /\ BackupInv' /\ RunOfBegun' /\ ApplyInv' /\ OpenInv'
      /\ Found(run.id)' = Found(run.id)
      /\ manifest'[run.id] = manifest[run.id] /\ ledgerCopy'[run.id] = ledgerCopy[run.id]
  BY <1>1, <1>2, <1>5, <1>6, <1>7, RestoreGoesOn DEF RestoreLedger
<1>9. Len(manifest[run.id]) \in Nat /\ DOMAIN manifest[run.id] = 1 .. Len(manifest[run.id])
  BY <1>2 DEF LastEntry
<1>10. RestoredSoFar'
  BY <1>4, <1>7, <1>8, <1>9 DEF RestoredSoFar
<1>. QED  BY <1>8, <1>10 DEF InstallIInv, RunInv, RestoreInv

LEMMA RestoreEntryKeeps ==
  ASSUME InstallIInv, RestoreEntry
  PROVE  InstallIInv'
<1>. DEFINE e == run.entry
<1>. DEFINE u == manifest[run.id][e].target
<1>1. /\ run.phase = "restore" /\ e \in 1 .. LastEntry /\ run' = [run EXCEPT !.entry = e + 1]
      /\ disk' = [disk EXCEPT ![u] = Restored(run.id, e)] /\ ledger' = ledger
  BY DEF RestoreEntry
<1>2. /\ run \in Run /\ run.id \in Begun /\ run.id \in Ids
      /\ LastEntry \in Nat /\ LastEntry <= NTargets /\ DOMAIN manifest[run.id] = 1 .. LastEntry
      /\ \A n \in 1 .. LastEntry : manifest[run.id][n].target \in Targets
      /\ disk \in [Targets -> Contents] /\ ledger \in Ledgers /\ RestoredSoFar
  BY <1>1, RestoreFacts
<1>3. /\ u \in Targets /\ Restored(run.id, e) = Found(run.id).disk[u]
      /\ Restored(run.id, e) \in Contents
  BY <1>1, EntryRestores
<1>4. e + 1 \in 0 .. NTargets + 1
  BY <1>1, <1>2, ConstantsAreNumbers
<1>5. run' \in Run
  BY <1>1, <1>2, <1>4, RunWrites
<1>6. /\ run'.phase = "restore" /\ run'.id = run.id /\ run'.session = run.session
      /\ run'.entry = e + 1
  BY <1>1, <1>2 DEF Run
<1>7. disk' \in [Targets -> Contents]
  BY <1>1, <1>2, <1>3
<1>8. /\ InstallTypeOK' /\ BackupInv' /\ RunOfBegun' /\ ApplyInv' /\ OpenInv'
      /\ Found(run.id)' = Found(run.id)
      /\ manifest'[run.id] = manifest[run.id] /\ ledgerCopy'[run.id] = ledgerCopy[run.id]
  BY <1>1, <1>2, <1>5, <1>6, <1>7, RestoreGoesOn DEF RestoreEntry
<1>9. ASSUME NEW n \in DOMAIN manifest[run.id], n < e + 1
      PROVE  disk'[manifest[run.id][n].target] = Found(run.id).disk[manifest[run.id][n].target]
  <2>. DEFINE v == manifest[run.id][n].target
  <2>1. v \in Targets
    BY <1>2
  <2>2. disk'[v] = IF v = u THEN Restored(run.id, e) ELSE disk[v]
    BY <1>1, <1>2, <2>1
  <2>3. CASE v = u
    <3>1. disk'[v] = Found(run.id).disk[u]
      BY <1>3, <2>2, <2>3
    <3>. QED  BY <2>3, <3>1
  <2>4. CASE v # u
    <3>1. n # e
      BY <2>4
    <3>2. n \in Int /\ e \in Int
      BY <1>1, <1>2
    <3>3. n < e
      BY <1>9, <3>1, <3>2
    <3>4. disk[v] = Found(run.id).disk[v]
      BY <1>2, <3>3 DEF RestoredSoFar
    <3>. QED  BY <2>2, <2>4, <3>4
  <2>. QED  BY <2>3, <2>4
<1>10. Len(manifest[run.id]) = LastEntry
  BY DEF LastEntry
<1>11. ledgerCopy[run.id] # <<>> => ledger = Found(run.id).ledger
  BY <1>1, <1>2 DEF RestoredSoFar
<1>. HIDE DEF u
<1>12. RestoredSoFar'
  <2>1. run'.entry <= LastEntry + 1 /\ run'.phase # "restored"
    BY <1>1, <1>2, <1>6
  <2>. QED  BY <1>1, <1>6, <1>8, <1>9, <1>10, <1>11, <2>1 DEF RestoredSoFar
<1>. QED  BY <1>8, <1>12 DEF InstallIInv, RunInv, RestoreInv

LEMMA RestoreEndsKeeps ==
  ASSUME InstallIInv, RestoreEnds
  PROVE  InstallIInv'
<1>1. /\ run.phase = "restore" /\ run.entry > LastEntry /\ run' = [run EXCEPT !.phase = "restored"]
      /\ disk' = disk /\ ledger' = ledger
  BY DEF RestoreEnds, Files
<1>2. /\ run \in Run /\ disk \in [Targets -> Contents] /\ ledger \in Ledgers /\ RestoredSoFar
  BY <1>1, RestoreFacts
<1>3. run' \in Run
  BY <1>1, <1>2, RunWrites DEF Phases
<1>4. /\ run'.phase = "restored" /\ run'.id = run.id /\ run'.session = run.session
      /\ run'.entry = run.entry
  BY <1>1, <1>2 DEF Run
<1>5. /\ InstallTypeOK' /\ BackupInv' /\ RunOfBegun' /\ ApplyInv' /\ OpenInv'
      /\ Found(run.id)' = Found(run.id)
      /\ manifest'[run.id] = manifest[run.id] /\ ledgerCopy'[run.id] = ledgerCopy[run.id]
  BY <1>1, <1>2, <1>3, <1>4, RestoreGoesOn DEF RestoreEnds
<1>6. RestoredSoFar'
  BY <1>1, <1>2, <1>4, <1>5 DEF RestoredSoFar, LastEntry
<1>. QED  BY <1>5, <1>6 DEF InstallIInv, RunInv, RestoreInv

LEMMA ReportKeeps ==
  ASSUME InstallIInv, Report
  PROVE  InstallIInv'
<1>. USE DEF InstallIInv
<1>1. run.phase = "restored" /\ run' = Idle /\ before' = before /\ open' \subseteq open
  BY DEF Report
<1>2. InstallTypeOK' /\ BackupInv'
  BY <1>1, IdleIsRun, FilesKept DEF Report
<1>3. OpenInv'
  BY <1>1, OpenStays DEF Report
<1>. QED  BY <1>1, <1>2, <1>3, IdleKeeps DEF RunInv

-----------------------------------------------------------------------------
(* Failures of a restore, and the death of the process                     *)

LEMMA HalfwayWrites ==
  ASSUME InstallIInv, run.phase = "restore", Halfway
  PROVE  disk' \in [Targets -> Contents] /\ ledger' \in Ledgers
<1>1. /\ disk \in [Targets -> Contents] /\ ledger \in Ledgers
      /\ \A n \in 1 .. LastEntry : manifest[run.id][n].target \in Targets
  BY RestoreFacts
<1>2. NoRecords \in Ledgers
  BY ConstantsAreNumbers DEF NoRecords, Ledgers
<1>3. CASE run.entry = 0 /\ UNCHANGED disk /\ (UNCHANGED ledger \/ ledger' = NoRecords)
  BY <1>1, <1>2, <1>3
<1>4. CASE /\ run.entry \in 1 .. LastEntry /\ UNCHANGED ledger
           /\ \E c \in HalfRestored(manifest[run.id][run.entry].target) :
                disk' = [disk EXCEPT ![manifest[run.id][run.entry].target] = c]
  <2>. DEFINE u == manifest[run.id][run.entry].target
  <2>1. PICK c \in HalfRestored(u) : disk' = [disk EXCEPT ![u] = c]
    BY <1>4
  <2>2. u \in Targets
    BY <1>1, <1>4
  <2>3. c \in Contents
    BY <1>1, <2>2, ConstantsAreNumbers DEF HalfRestored
  <2>. HIDE DEF u
  <2>4. disk' \in [Targets -> Contents]
    BY <1>1, <2>1, <2>3
  <2>. QED  BY <1>1, <1>4, <2>4
<1>. QED  BY <1>3, <1>4 DEF Halfway

LEMMA RestoreFailsKeeps ==
  ASSUME InstallIInv, RestoreFails
  PROVE  InstallIInv'
<1>. USE DEF InstallIInv
<1>1. run.phase = "restore" /\ run' = Idle /\ before' = before /\ open' = open
  BY DEF RestoreFails, History
<1>2. disk' \in [Targets -> Contents] /\ ledger' \in Ledgers
  BY <1>1, HalfwayWrites DEF RestoreFails
<1>3. InstallTypeOK' /\ BackupInv'
  BY <1>1, <1>2, IdleIsRun, BackupsKept DEF RestoreFails
<1>4. OpenInv'
  BY <1>1, OpenStays DEF RestoreFails
<1>. QED  BY <1>1, <1>3, <1>4, IdleKeeps DEF RunInv

LEMMA DyingWrites ==
  ASSUME InstallIInv, DiesWithin
  PROVE  /\ disk' \in [Targets -> Contents] /\ ledger' \in Ledgers
         /\ UNCHANGED Files \/ run.phase \notin {"idle", "backup", "threw"}
<1>1. disk \in [Targets -> Contents] /\ ledger \in Ledgers
  BY DEF InstallIInv, InstallTypeOK
<1>2. CASE UNCHANGED Files
  BY <1>1, <1>2 DEF Files
<1>3. ASSUME run.phase = "replace", Pending # {}, UNCHANGED ledger,
             NEW c \in HalfRemoved(Min(Pending)), disk' = [disk EXCEPT ![Min(Pending)] = c]
      PROVE  disk' \in [Targets -> Contents]
  <2>1. Min(Pending) \in Targets
    BY <1>3, WritingFacts DEF Writing
  <2>2. c \in Contents
    BY <1>1, <1>3, <2>1, ConstantsAreNumbers DEF HalfRemoved
  <2>. QED  BY <1>1, <1>3, <2>2
<1>4. ASSUME run.phase = "undo", run.replaced # {}, UNCHANGED ledger,
             NEW c \in HalfRestored(Max(run.replaced)), disk' = [disk EXCEPT ![Max(run.replaced)] = c]
      PROVE  disk' \in [Targets -> Contents]
  <2>1. run.replaced \in SUBSET Targets
    BY <1>4, AppliedFacts DEF Applying
  <2>2. Max(run.replaced) \in Targets
    BY <1>4, <2>1, LastOfTargets
  <2>3. c \in Contents
    BY <1>1, <1>4, <2>2, ConstantsAreNumbers DEF HalfRestored
  <2>. QED  BY <1>1, <1>4, <2>3
<1>5. CASE run.phase = "restore" /\ Halfway
  BY <1>5, HalfwayWrites
<1>. QED  BY <1>1, <1>2, <1>3, <1>4, <1>5 DEF DiesWithin

LEMMA CrashKeeps ==
  ASSUME InstallIInv, Crash
  PROVE  InstallIInv'
<1>. USE DEF InstallIInv
<1>1. run' = Idle /\ before' = before /\ open' = open
  BY DEF Crash, History
<1>2. /\ disk' \in [Targets -> Contents] /\ ledger' \in Ledgers
      /\ UNCHANGED Files \/ run.phase \notin {"idle", "backup", "threw"}
  BY DyingWrites DEF Crash
<1>3. InstallTypeOK' /\ BackupInv'
  BY <1>1, <1>2, IdleIsRun, BackupsKept DEF Crash
<1>4. ASSUME UNCHANGED Files PROVE OpenInv'
  <2>1. \A id : Found(id)' = Found(id) /\ Named(id)' = Named(id)
    BY <1>1, BackupsStay DEF Crash
  <2>2. disk' = disk /\ run'.phase = "idle"
    BY <1>1, <1>4 DEF Files, Idle
  <2>3. ASSUME NEW id \in open PROVE Undoable(id)'
    <3>1. Undoable(id)
      BY DEF RunInv, OpenInv
    <3>2. /\ Found(id).scope' = Found(id).scope /\ Found(id).disk' = Found(id).disk
          /\ Named(id)' = Named(id)
      BY <2>1
    <3>. QED  BY <2>2, <3>1, <3>2 DEF Undoable
  <2>. QED  BY <1>1, <2>3 DEF OpenInv
<1>5. ASSUME run.phase \notin {"idle", "backup", "threw"} PROVE OpenInv'
  BY <1>1, <1>5, OpenStays DEF Crash
<1>6. OpenInv'
  BY <1>2, <1>4, <1>5
<1>. QED  BY <1>1, <1>3, <1>6, IdleKeeps DEF RunInv

-----------------------------------------------------------------------------
(* Transactions that begin, and the backup of a plan                       *)

\* A transaction that begins takes the next id, which none has had.
LEMMA NewTransaction ==
  ASSUME InstallTypeOK, BackupInv, NEW id \in FreshId, NEW scope \in SUBSET Targets,
         Begins(id, scope)
  PROVE  /\ id \in Ids /\ id \notin Begun /\ Begun' = Begun \cup {id}
         /\ manifest[id] = <<>> /\ ledgerCopy[id] = <<>>
         /\ BeforeOK' /\ IdsInOrder'
         /\ Found(id)' = [disk |-> disk, ledger |-> ledger, scope |-> scope]
         /\ \A j \in Begun : Found(j)' = Found(j)
<1>. DEFINE b == [disk |-> disk, ledger |-> ledger, scope |-> scope]
<1>. DEFINE k == Cardinality(Begun)
<1>1. id \in Ids /\ id = k + 1 /\ Begun = 1 .. k /\ before' = [before EXCEPT ![id] = <<b>>]
  BY DEF FreshId, NextId, BackupInv, IdsInOrder, Begins
<1>2. k \in Nat
  <2>1. IsFiniteSet(Ids)
    BY ConstantsAreNumbers, UpTo DEF Ids
  <2>2. Begun \subseteq Ids
    BY DEF Begun
  <2>3. IsFiniteSet(Begun)
    BY <2>1, <2>2, FS_Subset
  <2>. QED  BY <2>3, FS_CardinalityType
<1>3. b \in Snapshot
  BY DEF Snapshot, InstallTypeOK
<1>4. DOMAIN before = Ids
  BY DEF BackupInv, BeforeOK
<1>. HIDE DEF b, k
<1>5. id \notin Begun
  BY <1>1, <1>2
<1>6. manifest[id] = <<>> /\ ledgerCopy[id] = <<>>
  BY <1>1, <1>5 DEF BackupInv, BackupsFaithful, FaithfulBackup
<1>7. before'[id] = <<b>> /\ \A j \in Ids : j # id => before'[j] = before[j]
  BY <1>1, <1>4
<1>8. Found(id)' = b
  BY <1>7 DEF Found
<1>9. \A j \in Begun : Found(j)' = Found(j)
  BY <1>5, <1>7 DEF Found, Begun
<1>10. Begun' = Begun \cup {id}
  BY <1>1, <1>7 DEF Begun
<1>11. BeforeOK'
  <2>1. before \in [Ids -> {<<>>} \cup {<<x>> : x \in Snapshot}]
    BY DEF BackupInv, BeforeOK
  <2>2. <<b>> \in {<<>>} \cup {<<x>> : x \in Snapshot}
    BY <1>3
  <2>3. before' \in [Ids -> {<<>>} \cup {<<x>> : x \in Snapshot}]
    BY <1>1, <2>1, <2>2
  <2>. QED  BY <2>3 DEF BeforeOK
<1>12. IdsInOrder'
  <2>1. Begun' = 1 .. (k + 1)
    BY <1>1, <1>2, <1>10
  <2>2. Cardinality(1 .. (k + 1)) = k + 1
    BY <1>2, UpTo
  <2>. QED  BY <2>1, <2>2 DEF IdsInOrder
<1>. QED  BY <1>1, <1>5, <1>6, <1>8, <1>9, <1>10, <1>11, <1>12 DEF b

\* A backup that a step does not touch stays what it was.
LEMMA OtherBackup ==
  ASSUME BackupInv, NEW j \in Ids, j \in Begun' => j \in Begun, j \in Begun => Found(j)' = Found(j),
         j \in Begun => j \in Begun',
         manifest'[j] = manifest[j], copies'[j] = copies[j], ledgerCopy'[j] = ledgerCopy[j]
  PROVE  FaithfulBackup(j)' /\ Named(j)' = Named(j)
<1>1. FaithfulBackup(j)
  BY DEF BackupInv, BackupsFaithful
<1>2. Named(j)' = Named(j)
  BY DEF Named, EntriesOf
<1>3. \A n : Restored(j, n)' = Restored(j, n)
  BY DEF Restored
<1>4. CASE j \in Begun
  <2>1. Found(j).disk' = Found(j).disk /\ Found(j).ledger' = Found(j).ledger
    BY <1>4
  <2>. QED  BY <1>1, <1>2, <1>3, <1>4, <2>1 DEF FaithfulBackup
<1>5. CASE j \notin Begun
  <2>1. manifest'[j] = <<>> /\ ledgerCopy'[j] = <<>>
    BY <1>1, <1>5 DEF FaithfulBackup
  <2>2. DOMAIN manifest'[j] = {}
    BY <2>1
  <2>. QED  BY <1>1, <1>2, <1>5, <2>1, <2>2 DEF FaithfulBackup
<1>. QED  BY <1>4, <1>5

LEMMA BeginApplyKeeps ==
  ASSUME InstallIInv, NEW ops \in SUBSET Targets, BeginApply(ops)
  PROVE  InstallIInv'
<1>. USE DEF InstallIInv
<1>1. PICK id \in FreshId :
        /\ Begins(id, ops) /\ run' = [run EXCEPT !.phase = "backup", !.id = id, !.ops = ops]
  BY DEF BeginApply
<1>2. /\ run.phase \in {"idle", "steps"} /\ run \in Run /\ disk' = disk /\ ledger' = ledger
      /\ faults' = faults
      /\ copies' = copies /\ manifest' = manifest /\ ledgerCopy' = ledgerCopy
  BY DEF BeginApply, InstallTypeOK, Files, Backups, Quiet
<1>3. /\ id \in Ids /\ id \notin Begun /\ Begun' = Begun \cup {id}
      /\ manifest[id] = <<>> /\ ledgerCopy[id] = <<>>
      /\ BeforeOK' /\ IdsInOrder'
      /\ Found(id)' = [disk |-> disk, ledger |-> ledger, scope |-> ops]
      /\ \A j \in Begun : Found(j)' = Found(j)
  BY <1>1, NewTransaction
<1>4. run' \in Run
  BY <1>1, <1>2, <1>3, RunBegins
<1>5. /\ run'.phase = "backup" /\ run'.id = id /\ run'.ops = ops /\ run'.session = run.session
      /\ run'.replaced = run.replaced /\ run'.half = run.half /\ run'.dirty = run.dirty
  BY <1>1, <1>2 DEF Run
<1>6. run.replaced = {} /\ Untouched /\ run.session \in Begun \cup {NoId}
  BY <1>2 DEF RunInv, RunOfBegun
<1>7. open' \subseteq Begun' /\ open' = IF run.phase = "idle" THEN {id} ELSE open \cup {id}
  BY <1>1, <1>3 DEF Begins, InstallTypeOK
<1>8. InstallTypeOK'
  BY <1>2, <1>4, <1>7 DEF InstallTypeOK
<1>9. ASSUME NEW j \in Ids, j # id PROVE FaithfulBackup(j)' /\ Named(j)' = Named(j)
  BY <1>2, <1>3, <1>9, OtherBackup
<1>10. DOMAIN manifest[id] = {} /\ Len(manifest[id]) = 0
  BY <1>3
<1>11. Named(id)' = {}
  BY <1>2, <1>10 DEF Named, EntriesOf
<1>12. FaithfulBackup(id)'
  <2>1. Cardinality({}) = 0
    BY FS_EmptySet
  <2>. QED  BY <1>2, <1>3, <1>10, <1>11, <2>1 DEF FaithfulBackup
<1>13. BackupInv'
  BY <1>3, <1>9, <1>12 DEF BackupInv, BackupsFaithful
<1>14. RunOfBegun'
  BY <1>3, <1>5, <1>6, ConstantsAreNumbers DEF RunOfBegun
<1>15. Found(run.id)' = [disk |-> disk, ledger |-> ledger, scope |-> ops]
  BY <1>3, <1>5
<1>16. Applied'
  BY <1>2, <1>5, <1>6, <1>15 DEF Applied, Writing, Untouched
<1>17. RestoreInv'
  BY <1>5 DEF RestoreInv
<1>18. Undoable(id)'
  <2>1. Found(id).disk' = disk
    BY <1>3
  <2>. QED  BY <1>2, <1>5, <1>6, <2>1 DEF Undoable, Untouched
<1>19. ASSUME NEW j \in open', j # id PROVE Undoable(j)'
  <2>1. run.phase = "steps" /\ j \in open
    BY <1>2, <1>7, <1>19
  <2>2. Found(j).scope \subseteq Named(j)
    BY <2>1, OpenIsBackedUp
  <2>3. j \in Begun /\ j \in Ids
    BY <2>1 DEF InstallTypeOK, Begun
  <2>4. Found(j).scope' = Found(j).scope /\ Named(j)' = Named(j)
    BY <1>3, <1>9, <1>19, <2>3
  <2>. QED  BY <2>2, <2>4 DEF Undoable
<1>. QED  BY <1>8, <1>13, <1>14, <1>16, <1>17, <1>18, <1>19 DEF RunInv, ApplyInv, OpenInv

\* The backup a session opens: every covered target, and the ledger.
LEMMA SessionBackup ==
  ASSUME InstallIInv, NEW id \in Ids, id \in Begun',
         copies'[id] = [n \in Targets |-> IF n \in Covered /\ disk[n] # Absent THEN disk[n] ELSE copies[id][n]],
         manifest'[id] = [n \in Covered |-> EntryFor(n)], ledgerCopy'[id] = <<ledger>>,
         Found(id)' = [disk |-> disk, ledger |-> ledger, scope |-> Covered]
  PROVE  FaithfulBackup(id)' /\ Named(id)' = Covered
<1>1. /\ NCovered \in Nat /\ Covered = 1 .. NCovered /\ Covered \subseteq Targets
  BY ConstantsAreNumbers DEF Covered, Targets
<1>2. DOMAIN manifest'[id] = Covered
  OBVIOUS
<1>3. \A n \in Covered : manifest'[id][n] = [target |-> n, existed |-> disk[n] # Absent]
  BY DEF EntryFor
<1>4. Len(manifest'[id]) = NCovered
  <2>1. manifest'[id] \in Seq({EntryFor(n) : n \in Covered})
    BY <1>1, SeqDef
  <2>2. DOMAIN manifest'[id] = 1 .. Len(manifest'[id]) /\ Len(manifest'[id]) \in Nat
    BY <2>1, LenProperties
  <2>. QED  BY <1>1, <1>2, <2>2
<1>5. Named(id)' = Covered
  <2>1. \A n \in Covered : manifest'[id][n].target = n
    BY <1>3
  <2>2. \A t \in Targets : EntriesOf(id, t)' = {n \in Covered : n = t}
    BY <1>2, <2>1 DEF EntriesOf
  <2>3. \A t \in Targets : EntriesOf(id, t)' # {} <=> t \in Covered
    BY <2>2
  <2>. QED  BY <1>1, <2>3 DEF Named
<1>6. Cardinality(Covered) = NCovered
  BY <1>1, UpTo
<1>7. ASSUME NEW n \in Covered
      PROVE  Restored(id, n)' = disk[n] /\ manifest'[id][n].target = n
  <2>1. manifest'[id][n] = [target |-> n, existed |-> disk[n] # Absent]
    BY <1>3
  <2>2. disk[n] # Absent => copies'[id][n] = disk[n]
    BY <1>1
  <2>3. manifest'[id][n].target = n
    BY <2>1
  <2>4. manifest'[id][n].existed = (disk[n] # Absent)
    BY <2>1
  <2>5. Restored(id, n)' = IF manifest'[id][n].existed THEN copies'[id][n] ELSE Absent
    BY DEF Restored
  <2>. QED  BY <2>2, <2>3, <2>4, <2>5
<1>8. Found(id).disk' = disk /\ Found(id).ledger' = ledger
  OBVIOUS
<1>9. Head(ledgerCopy'[id]) = ledger
  OBVIOUS
<1>. QED  BY <1>2, <1>4, <1>5, <1>6, <1>7, <1>8, <1>9 DEF FaithfulBackup

LEMMA BeginSessionKeeps ==
  ASSUME InstallIInv, BeginSession
  PROVE  InstallIInv'
<1>. USE DEF InstallIInv
<1>1. PICK id \in FreshId :
         /\ Begins(id, Covered)
         /\ copies' = [copies EXCEPT ![id] = [n \in Targets |->
                IF n \in Covered /\ disk[n] # Absent THEN disk[n] ELSE copies[id][n]]]
         /\ manifest' = [manifest EXCEPT ![id] = [n \in Covered |-> EntryFor(n)]]
         /\ ledgerCopy' = [ledgerCopy EXCEPT ![id] = <<ledger>>]
         /\ run' = [Idle EXCEPT !.phase = "steps", !.session = id]
  BY DEF BeginSession
<1>2. /\ run.phase = "idle" /\ disk' = disk /\ ledger' = ledger /\ faults' = faults
  BY DEF BeginSession, Files, Quiet
<1>3. Covered \in SUBSET Targets /\ Covered = 1 .. NCovered /\ NCovered \in Nat
  BY ConstantsAreNumbers DEF Covered, Targets
<1>4. /\ id \in Ids /\ id \notin Begun /\ Begun' = Begun \cup {id}
      /\ BeforeOK' /\ IdsInOrder'
      /\ Found(id)' = [disk |-> disk, ledger |-> ledger, scope |-> Covered]
      /\ \A j \in Begun : Found(j)' = Found(j)
  BY <1>1, <1>3, NewTransaction
<1>5. /\ disk \in [Targets -> Contents] /\ ledger \in Ledgers
      /\ copies \in [Ids -> [Targets -> Contents]] /\ manifest \in [Ids -> Seq(Entry)]
      /\ ledgerCopy \in [Ids -> Seq(Ledgers)]
  BY DEF InstallTypeOK
<1>. DEFINE F == [n \in Targets |-> IF n \in Covered /\ disk[n] # Absent THEN disk[n] ELSE copies[id][n]]
<1>. DEFINE M == [n \in Covered |-> EntryFor(n)]
<1>6. F \in [Targets -> Contents]
  BY <1>4, <1>5
<1>7. M \in Seq(Entry)
  <2>1. M \in [1 .. NCovered -> Entry]
    BY <1>3, <1>5 DEF EntryFor, Entry
  <2>. QED  BY <1>3, <2>1, SeqDef
<1>8. <<ledger>> \in Seq(Ledgers)
  BY <1>5
<1>9. copies'[id] = F /\ manifest'[id] = M /\ ledgerCopy'[id] = <<ledger>>
  BY <1>1, <1>4, <1>5
<1>10. \A j \in Ids : j # id =>
         copies'[j] = copies[j] /\ manifest'[j] = manifest[j] /\ ledgerCopy'[j] = ledgerCopy[j]
  BY <1>1, <1>5
<1>11. FaithfulBackup(id)' /\ Named(id)' = Covered
  BY <1>4, <1>9, SessionBackup
<1>12. copies' \in [Ids -> [Targets -> Contents]]
  BY <1>1, <1>5, <1>6
<1>. HIDE DEF M, F
<1>13. manifest' = [manifest EXCEPT ![id] = M]
  BY <1>1 DEF M
<1>14. manifest' \in [Ids -> Seq(Entry)] /\ ledgerCopy' \in [Ids -> Seq(Ledgers)]
  BY <1>1, <1>5, <1>7, <1>8, <1>13
<1>15. run' \in Run
  BY <1>1, <1>4, IdleIsRun
<1>16. /\ run'.phase = "steps" /\ run'.id = NoId /\ run'.session = id
       /\ run'.replaced = {} /\ run'.half = NoTarget /\ run'.dirty = FALSE
  BY <1>1 DEF Idle
<1>17. open' = {id}
  BY <1>1, <1>2 DEF Begins
<1>18. InstallTypeOK'
  BY <1>2, <1>4, <1>12, <1>14, <1>15, <1>17 DEF InstallTypeOK
<1>19. ASSUME NEW j \in Ids, j # id PROVE FaithfulBackup(j)'
  BY <1>4, <1>10, <1>19, OtherBackup
<1>20. BackupInv'
  BY <1>4, <1>11, <1>19 DEF BackupInv, BackupsFaithful
<1>21. RunOfBegun'
  BY <1>4, <1>16, ConstantsAreNumbers DEF RunOfBegun, Untouched, Applying, Writing
<1>22. ApplyInv' /\ RestoreInv'
  BY <1>16 DEF ApplyInv, RestoreInv, Applying, Writing
<1>23. Found(id).scope' = Covered
  BY <1>4
<1>24. OpenInv'
  BY <1>11, <1>17, <1>23 DEF OpenInv, Undoable
<1>. QED  BY <1>18, <1>20, <1>21, <1>22, <1>24 DEF RunInv

\* The manifest grows by the entry of one more target.
LEMMA ManifestGrows ==
  ASSUME InstallTypeOK, NEW i \in Ids, NEW t \in Targets,
         EntryFor(t) \in Entry, EntryFor(t).target = t,
         manifest'[i] = Append(manifest[i], EntryFor(t)), NEW n \in Nat, n = Len(manifest[i]) + 1
  PROVE  /\ manifest'[i] \in Seq(Entry)
         /\ Len(manifest'[i]) = n /\ n \in Nat /\ DOMAIN manifest'[i] = 1 .. n
         /\ DOMAIN manifest[i] = 1 .. (n - 1)
         /\ \A k \in 1 .. (n - 1) : manifest'[i][k] = manifest[i][k]
         /\ manifest'[i][n] = EntryFor(t)
         /\ Named(i)' = Named(i) \cup {t}
<1>1. manifest[i] \in Seq(Entry)
  BY DEF InstallTypeOK
<1>2. Len(manifest[i]) \in Nat /\ DOMAIN manifest[i] = 1 .. (n - 1) /\ n \in Nat
  BY <1>1, LenProperties
<1>3. /\ manifest'[i] \in Seq(Entry) /\ Len(manifest'[i]) = n
      /\ \A k \in 1 .. (n - 1) : manifest'[i][k] = manifest[i][k]
      /\ manifest'[i][n] = EntryFor(t)
  BY <1>1, <1>2, AppendProperties
<1>4. DOMAIN manifest'[i] = 1 .. n
  BY <1>3, LenProperties
<1>5. 1 .. n = (1 .. (n - 1)) \cup {n}
  BY <1>2
<1>6. ASSUME NEW o \in Targets
      PROVE  EntriesOf(i, o)' # {} <=> EntriesOf(i, o) # {} \/ o = t
  <2>1. EntriesOf(i, o)' = {k \in 1 .. n : manifest'[i][k].target = o}
    BY <1>4 DEF EntriesOf
  <2>2. EntriesOf(i, o) = {k \in 1 .. (n - 1) : manifest[i][k].target = o}
    BY <1>2 DEF EntriesOf
  <2>. QED  BY <1>3, <1>5, <2>1, <2>2
<1>7. Named(i)' = Named(i) \cup {t}
  BY <1>6 DEF Named
<1>. QED  BY <1>2, <1>3, <1>4, <1>7

\* The next target of a plan is not yet in its backup, which has room for it.
LEMMA NextBackup ==
  ASSUME InstallIInv, run.phase = "backup", \E o \in run.ops : EntriesOf(run.id, o) = {}
  PROVE  LET t == Min({o \in run.ops : EntriesOf(run.id, o) = {}})
             n == Len(manifest[run.id]) + 1
         IN  /\ t \in run.ops /\ t \in Targets /\ t \notin Named(run.id)
             /\ Cardinality(Named(run.id) \cup {t}) = n /\ n \in Targets
<1>. DEFINE U == {o \in run.ops : EntriesOf(run.id, o) = {}}
<1>. DEFINE t == Min(U)
<1>1. run.id \in Ids /\ run.ops \in SUBSET Targets
  BY AppliedFacts DEF Applying
<1>2. t \in U /\ t \in Targets
  BY <1>1, FirstOfTargets
<1>3. t \notin Named(run.id)
  BY <1>2 DEF Named
<1>. HIDE DEF t
<1>4. IsFiniteSet(Targets) /\ Cardinality(Targets) = NTargets
  BY ConstantsAreNumbers, UpTo DEF Targets
<1>5. Named(run.id) \in SUBSET Targets
  BY DEF Named
<1>6. IsFiniteSet(Named(run.id))
  BY <1>4, <1>5, FS_Subset
<1>7. Cardinality(Named(run.id) \cup {t}) = Cardinality(Named(run.id)) + 1
  BY <1>3, <1>6, FS_AddElement
<1>8. Named(run.id) \cup {t} \in SUBSET Targets
  BY <1>2, <1>5
<1>9. Cardinality(Named(run.id) \cup {t}) <= NTargets
  BY <1>4, <1>8, FS_Subset
<1>10. Len(manifest[run.id]) = Cardinality(Named(run.id)) /\ Len(manifest[run.id]) \in Nat
  BY <1>1, EntryIsOfTarget DEF InstallIInv, BackupInv, BackupsFaithful, FaithfulBackup
<1>11. Len(manifest[run.id]) + 1 \in Targets
  BY <1>7, <1>9, <1>10, ConstantsAreNumbers DEF Targets
<1>. QED  BY <1>2, <1>3, <1>7, <1>10, <1>11 DEF t

LEMMA BackupKeeps ==
  ASSUME InstallIInv, Backup
  PROVE  InstallIInv'
<1>. USE DEF InstallIInv
<1>. SUFFICES ASSUME NEW i, i = run.id, NEW n, n = Len(manifest[i]) + 1,
                     NEW t, t = Min({o \in run.ops : EntriesOf(i, o) = {}})
              PROVE  InstallIInv'
  OBVIOUS
<1>1. /\ run.phase = "backup" /\ \E o \in run.ops : EntriesOf(i, o) = {}
      /\ copies' = [copies EXCEPT ![i] = CopiedTo(copies[i], t, n)]
      /\ manifest' = [manifest EXCEPT ![i] = Append(manifest[i], EntryFor(t))]
      /\ ledgerCopy' = ledgerCopy /\ run' = run /\ disk' = disk /\ ledger' = ledger
      /\ before' = before /\ open' = open /\ faults' = faults
  BY DEF Backup, Files, History, Quiet
<1>2. run.phase \in Applying
  BY <1>1 DEF Applying
<1>3. /\ run \in Run /\ i \in Begun /\ i \in Ids /\ run.ops \in SUBSET Targets
      /\ disk \in [Targets -> Contents] /\ Applied
  BY <1>2, AppliedFacts
<1>4. /\ t \in run.ops /\ t \in Targets /\ t \notin Named(i)
      /\ Cardinality(Named(i) \cup {t}) = n /\ n \in Targets
  BY <1>1, NextBackup
<1>5. /\ copies \in [Ids -> [Targets -> Contents]] /\ manifest \in [Ids -> Seq(Entry)]
  BY DEF InstallTypeOK
<1>6. CopiedTo(copies[i], t, n) \in [Targets -> Contents]
  BY <1>3, <1>4, <1>5 DEF CopiedTo
<1>7. EntryFor(t) \in Entry /\ EntryFor(t).target = t
  BY <1>4 DEF EntryFor, Entry
<1>8. /\ copies' \in [Ids -> [Targets -> Contents]]
      /\ copies'[i] = CopiedTo(copies[i], t, n)
      /\ \A j \in Ids : j # i => copies'[j] = copies[j]
  BY <1>1, <1>3, <1>5, <1>6
<1>9. /\ manifest'[i] = Append(manifest[i], EntryFor(t))
      /\ \A j \in Ids : j # i => manifest'[j] = manifest[j]
  BY <1>1, <1>3, <1>5
<1>10. /\ manifest'[i] \in Seq(Entry)
       /\ Len(manifest'[i]) = n /\ n \in Nat /\ DOMAIN manifest'[i] = 1 .. n
       /\ DOMAIN manifest[i] = 1 .. (n - 1)
       /\ \A k \in 1 .. (n - 1) : manifest'[i][k] = manifest[i][k]
       /\ manifest'[i][n] = EntryFor(t)
       /\ Named(i)' = Named(i) \cup {t}
  <2>1. i \in Ids /\ t \in Targets /\ InstallTypeOK
    BY <1>3, <1>4
  <2>2. n \in Nat /\ n = Len(manifest[i]) + 1
    BY <1>4, ConstantsAreNumbers DEF Targets
  <2>3. manifest'[i] \in Seq(Entry)
    BY <1>7, <1>9, <2>1, <2>2, ManifestGrows
  <2>4. Len(manifest'[i]) = n
    BY <1>7, <1>9, <2>1, <2>2, ManifestGrows
  <2>5. DOMAIN manifest'[i] = 1 .. n /\ DOMAIN manifest[i] = 1 .. (n - 1)
    BY <1>7, <1>9, <2>1, <2>2, ManifestGrows
  <2>6. \A k \in 1 .. (n - 1) : manifest'[i][k] = manifest[i][k]
    BY <1>7, <1>9, <2>1, <2>2, ManifestGrows
  <2>7. manifest'[i][n] = EntryFor(t)
    BY <1>7, <1>9, <2>1, <2>2, ManifestGrows
  <2>8. Named(i)' = Named(i) \cup {t}
    BY <1>7, <1>9, <2>1, <2>2, ManifestGrows
  <2>. QED  BY <2>2, <2>3, <2>4, <2>5, <2>6, <2>7, <2>8
<1>11. manifest' \in [Ids -> Seq(Entry)]
  BY <1>1, <1>3, <1>5, <1>9, <1>10
<1>12. Begun' = Begun /\ \A id : Found(id)' = Found(id)
  BY <1>1 DEF Begun, Found
<1>13. InstallTypeOK'
  BY <1>1, <1>8, <1>11, <1>12 DEF InstallTypeOK
<1>14. ASSUME NEW j \in Ids, j # i PROVE FaithfulBackup(j)' /\ Named(j)' = Named(j)
  BY <1>1, <1>8, <1>9, <1>12, <1>14, OtherBackup
<1>15. FaithfulBackup(i)'
  <2>1. FaithfulBackup(i)
    BY <1>3 DEF BackupInv, BackupsFaithful
  <2>2. disk = Found(i).disk
    BY <1>1, <1>3 DEF Applied
  <2>3. ASSUME NEW k \in 1 .. (n - 1)
        PROVE  Restored(i, k)' = Found(i).disk[manifest'[i][k].target]
    <3>1. k # n /\ k \in DOMAIN manifest[i] /\ manifest'[i][k] = manifest[i][k]
      BY <1>10
    <3>2. copies'[i][k] = copies[i][k]
      BY <1>3, <1>5, <1>8, <3>1 DEF CopiedTo
    <3>3. Restored(i, k)' = Restored(i, k)
      BY <3>1, <3>2 DEF Restored
    <3>. QED  BY <2>1, <3>1, <3>3 DEF FaithfulBackup
  <2>4. Restored(i, n)' = Found(i).disk[manifest'[i][n].target]
    <3>1. manifest'[i][n].target = t
      BY <1>7, <1>10
    <3>2. manifest'[i][n].existed = (disk[t] # Absent)
      BY <1>10 DEF EntryFor
    <3>3. disk[t] # Absent => copies'[i][n] = disk[t]
      BY <1>3, <1>4, <1>5, <1>8 DEF CopiedTo
    <3>4. Restored(i, n)' = IF manifest'[i][n].existed THEN copies'[i][n] ELSE Absent
      BY DEF Restored
    <3>5. Restored(i, n)' = disk[t]
      BY <3>2, <3>3, <3>4
    <3>. QED  BY <2>2, <3>1, <3>5
  <2>5. \A k \in DOMAIN manifest'[i] : Restored(i, k)' = Found(i).disk[manifest'[i][k].target]
    BY <1>10, <2>3, <2>4
  <2>6. Found(i)' = Found(i) /\ Found(i).disk' = Found(i).disk /\ Found(i).ledger' = Found(i).ledger
    BY <1>12
  <2>. QED  BY <1>1, <1>3, <1>4, <1>10, <1>12, <2>1, <2>5, <2>6 DEF FaithfulBackup
<1>16. BackupInv'
  <2>1. BeforeOK' /\ IdsInOrder'
    BY <1>1, <1>12 DEF BackupInv, BeforeOK, IdsInOrder
  <2>. QED  BY <1>14, <1>15, <2>1 DEF BackupInv, BackupsFaithful
<1>17. RunOfBegun' /\ RestoreInv'
  BY <1>1, <1>12 DEF RunInv, RunOfBegun, RestoreInv, Untouched
<1>18. Found(run.id)' = Found(run.id)
  BY <1>1, <1>12
<1>19. Applied'
  BY <1>1, <1>3, <1>18 DEF Applied, Writing, Untouched
<1>20. ASSUME NEW j \in open PROVE Undoable(j)'
  <2>1. Undoable(j)
    BY DEF RunInv, OpenInv
  <2>2. j \in Ids
    BY DEF InstallTypeOK, Begun
  <2>3. Named(j) \subseteq Named(j)'
    BY <1>10, <1>14, <2>2
  <2>4. Found(j).scope' = Found(j).scope /\ Found(j).disk' = Found(j).disk
    BY <1>12
  <2>. QED  BY <1>1, <2>1, <2>3, <2>4 DEF Undoable, Untouched
<1>. QED  BY <1>1, <1>13, <1>16, <1>17, <1>19, <1>20 DEF RunInv, ApplyInv, OpenInv

-----------------------------------------------------------------------------
(* The invariant                                                           *)

LEMMA InstallInit == Init => InstallIInv
<1>. SUFFICES ASSUME Init PROVE InstallIInv
  OBVIOUS
<1>1. Begun = {} /\ open = {} /\ run = Idle /\ faults = 0
  BY DEF Init, Begun
<1>2. BeforeOK
  BY DEF Init, BeforeOK
<1>3. IdsInOrder
  BY <1>1, FS_EmptySet DEF IdsInOrder
<1>4. /\ disk \in [Targets -> Contents] /\ ledger \in Ledgers
      /\ copies \in [Ids -> [Targets -> Contents]]
  BY ConstantsAreNumbers DEF Init, NoRecords, Ledgers, Contents
<1>5. manifest \in [Ids -> Seq(Entry)] /\ ledgerCopy \in [Ids -> Seq(Ledgers)]
  BY EmptySeq DEF Init
<1>6. run \in Run
  BY <1>1, IdleIsRun
<1>7. InstallTypeOK
  BY <1>1, <1>4, <1>5, <1>6, ConstantsAreNumbers DEF InstallTypeOK
<1>8. ASSUME NEW id \in Ids PROVE FaithfulBackup(id)
  <2>1. manifest[id] = <<>> /\ ledgerCopy[id] = <<>>
    BY DEF Init
  <2>2. Len(manifest[id]) = 0 /\ DOMAIN manifest[id] = {}
    BY <2>1
  <2>3. Named(id) = {}
    BY <2>2 DEF Named, EntriesOf
  <2>4. Cardinality({}) = 0
    BY FS_EmptySet
  <2>. QED  BY <2>1, <2>2, <2>3, <2>4 DEF FaithfulBackup
<1>9. RunOfBegun /\ ApplyInv /\ RestoreInv
  BY <1>1 DEF Idle, RunOfBegun, ApplyInv, RestoreInv, Applying, Writing, Untouched
<1>. QED  BY <1>1, <1>2, <1>3, <1>7, <1>8, <1>9
          DEF InstallIInv, BackupInv, BackupsFaithful, RunInv, OpenInv

LEMMA InstallStutters ==
  ASSUME InstallIInv, UNCHANGED vars
  PROVE  InstallIInv'
<1>. USE DEF InstallIInv
<1>1. /\ disk' = disk /\ ledger' = ledger /\ UNCHANGED Backups /\ run' = run /\ before' = before
      /\ open' = open /\ Quiet /\ UNCHANGED Files
      /\ manifest' = manifest /\ ledgerCopy' = ledgerCopy
  BY DEF vars, Backups, Quiet, Files
<1>2. run \in Run
  BY DEF InstallTypeOK
<1>3. InstallTypeOK' /\ BackupInv' /\ Begun' = Begun
  BY <1>1, <1>2, FilesKept, BackupsStay
<1>4. \A id : Found(id)' = Found(id) /\ Named(id)' = Named(id)
  BY <1>1, BackupsStay
<1>5. RunOfBegun'
  BY <1>1, <1>3 DEF RunInv, RunOfBegun, Untouched
<1>6. Found(run.id)' = Found(run.id) /\ Named(run.id)' = Named(run.id)
  BY <1>1, <1>4
<1>7. ApplyInv'
  BY <1>1, <1>6 DEF RunInv, ApplyInv, Applied, Untouched, Pending
<1>8. RestoreInv'
  BY <1>1, <1>6 DEF RunInv, RestoreInv, RestoredSoFar
<1>9. ASSUME NEW id \in open PROVE Undoable(id)'
  <2>1. Undoable(id)
    BY DEF RunInv, OpenInv
  <2>2. /\ Found(id).scope' = Found(id).scope /\ Found(id).disk' = Found(id).disk
        /\ Named(id)' = Named(id)
    BY <1>4
  <2>. QED  BY <1>1, <2>1, <2>2 DEF Undoable, Untouched
<1>. QED  BY <1>1, <1>3, <1>5, <1>7, <1>8, <1>9 DEF RunInv, OpenInv

LEMMA InstallNext == InstallIInv /\ [Next]_vars => InstallIInv'
<1>. SUFFICES ASSUME InstallIInv, [Next]_vars PROVE InstallIInv'
  OBVIOUS
<1>1. CASE BeginSession
  BY <1>1, BeginSessionKeeps
<1>2. CASE FailStep \/ CommitSession \/ RollBackSession
  BY <1>2, FailStepKeeps, CommitSessionKeeps, RollBackSessionKeeps
<1>3. ASSUME NEW t \in Targets, WriteConfig(t) PROVE InstallIInv'
  BY <1>3, WriteConfigKeeps
<1>4. ASSUME NEW ops \in SUBSET Targets \ {{}}, BeginApply(ops) PROVE InstallIInv'
  BY <1>4, BeginApplyKeeps
<1>5. CASE Backup \/ Stage \/ BackupFails
  BY <1>5, BackupKeeps, StageKeeps, BackupFailsKeeps
<1>6. CASE RemoveTarget \/ RemoveFails \/ RenameStaged \/ RenameFails
  BY <1>6, RemoveTargetKeeps, RemoveFailsKeeps, RenameStagedKeeps, RenameFailsKeeps
<1>7. CASE Verify \/ VerifyFails \/ LedgerFails
  BY <1>7, VerifyKeeps
<1>8. CASE WriteLedger \/ Undo \/ UndoEnds \/ ReturnFailure
  BY <1>8, WriteLedgerKeeps, UndoKeeps, UndoEndsKeeps, ReturnFailureKeeps
<1>9. ASSUME NEW id \in Ids, BeginRestore(id) PROVE InstallIInv'
  BY <1>9, BeginRestoreKeeps
<1>10. CASE RestoreLedger \/ RestoreEntry \/ RestoreFails \/ RestoreEnds \/ Report
  BY <1>10, RestoreLedgerKeeps, RestoreEntryKeeps, RestoreFailsKeeps, RestoreEndsKeeps, ReportKeeps
<1>11. CASE Crash
  BY <1>11, CrashKeeps
<1>12. CASE UNCHANGED vars
  BY <1>12, InstallStutters
<1>. QED  BY <1>1, <1>2, <1>3, <1>4, <1>5, <1>6, <1>7, <1>8, <1>9, <1>10, <1>11, <1>12 DEF Next

-----------------------------------------------------------------------------
(* Theorems                                                                *)

\* The inductive invariant of the install transaction, from which the others follow.
THEOREM InstallInductive == Spec => []InstallIInv
BY InstallInit, InstallNext, PTL DEF Spec

\* Every reachable state of the installer, its backups and its ledger is of its type.
THEOREM InstallTypeCorrect == Spec => []InstallTypeOK
<1>1. InstallIInv => InstallTypeOK
  BY DEF InstallIInv
<1>. QED  BY <1>1, InstallInductive, PTL

LEMMA InvIsRecoverable == InstallIInv => Recoverable
<1>. SUFFICES ASSUME InstallIInv, NEW id \in Begun
              PROVE  /\ \A n \in DOMAIN manifest[id] :
                          Restored(id, n) = before[id][1].disk[manifest[id][n].target]
                     /\ id \in open => \A t \in before[id][1].scope :
                          disk[t] = before[id][1].disk[t] \/ CanRestore(id, t)
  BY DEF Recoverable
<1>1. \A n \in DOMAIN manifest[id] : Restored(id, n) = Found(id).disk[manifest[id][n].target]
  BY RestoredIsFound DEF InstallIInv
<1>2. ASSUME id \in open, NEW t \in Found(id).scope
      PROVE  disk[t] = Found(id).disk[t] \/ CanRestore(id, t)
  <2>1. Undoable(id)
    BY <1>2 DEF InstallIInv, RunInv, OpenInv
  <2>2. CASE disk = Found(id).disk
    BY <2>2
  <2>3. CASE Found(id).scope \subseteq Named(id)
    <3>1. PICK n \in EntriesOf(id, t) : TRUE
      BY <1>2, <2>3 DEF Named
    <3>2. n \in DOMAIN manifest[id] /\ manifest[id][n].target = t
      BY <3>1 DEF EntriesOf
    <3>3. Restored(id, n) = Found(id).disk[t]
      BY <1>1, <3>2
    <3>. QED  BY <3>1, <3>3 DEF CanRestore, Found
  <2>. QED  BY <2>1, <2>2, <2>3 DEF Undoable
<1>. QED  BY <1>1, <1>2 DEF Found

\* applyInstallPlan, init and backup restore: at every instant, after every
\* death and every failed operation, what a transaction that is not finished may
\* have overwritten is in its place or in its own backup; and no backup is ever
\* overwritten by a later transaction.
THEOREM RecoverableAlways == Spec => []Recoverable
BY InstallInductive, InvIsRecoverable, PTL

LEMMA InvUndoes == InstallIInv => FailureIsUndone
<1>. SUFFICES ASSUME InstallIInv PROVE FailureIsUndone
  OBVIOUS
<1>1. ASSUME run.phase = "threw", ~run.dirty
      PROVE  /\ \A t \in Targets \ {run.half} : disk[t] = Found(run.id).disk[t]
             /\ ledger = Found(run.id).ledger
  <2>1. Applied
    BY <1>1, AppliedFacts DEF Applying
  <2>. QED  BY <1>1, <2>1 DEF Applied
<1>2. ASSUME run.phase = "restored"
      PROVE  /\ \A n \in DOMAIN manifest[run.id] :
                  disk[manifest[run.id][n].target] = Found(run.id).disk[manifest[run.id][n].target]
             /\ ledgerCopy[run.id] # <<>> => ledger = Found(run.id).ledger
  <2>1. /\ RestoredSoFar /\ run.entry \in Nat /\ LastEntry \in Nat
        /\ DOMAIN manifest[run.id] = 1 .. LastEntry
    BY <1>2, RestoreFacts
  <2>2. run.entry > LastEntry
    BY <1>2, <2>1 DEF RestoredSoFar, LastEntry
  <2>3. \A n \in DOMAIN manifest[run.id] : n < run.entry
    BY <2>1, <2>2
  <2>4. run.entry > 0
    BY <2>1, <2>2
  <2>. QED  BY <2>1, <2>3, <2>4 DEF RestoredSoFar
<1>. QED  BY <1>1, <1>2 DEF FailureIsUndone, Found

\* The rollback of applyInstallPlan and restoreBackup: a plan that throws leaves
\* every target but the one half replaced, and the ledger, as it found them, and
\* a restore that reports success brings back all that its backup names.
THEOREM FailuresAreUndone == Spec => []FailureIsUndone
BY InstallInductive, InvUndoes, PTL

\* Outside a restore the ledger is written by one step only.
LEMMA LedgerIsWritten ==
  ASSUME [Next]_vars, run.phase # "restore", ~WriteLedger
  PROVE  ledger' = ledger
<1>1. CASE BeginSession \/ FailStep \/ CommitSession \/ RollBackSession
  BY <1>1 DEF BeginSession, FailStep, CommitSession, RollBackSession, Files
<1>2. CASE \E t \in Targets : WriteConfig(t)
  BY <1>2 DEF WriteConfig
<1>3. CASE \E ops \in SUBSET Targets \ {{}} : BeginApply(ops)
  BY <1>3 DEF BeginApply, Files
<1>4. CASE Backup \/ Stage \/ BackupFails
  BY <1>4 DEF Backup, Stage, BackupFails, Files
<1>5. CASE RemoveTarget \/ RemoveFails \/ RenameStaged \/ RenameFails
  BY <1>5 DEF RemoveTarget, RemoveFails, RenameStaged, RenameFails, Files
<1>6. CASE Verify \/ VerifyFails \/ LedgerFails
  BY <1>6 DEF Verify, VerifyFails, LedgerFails, Files
<1>7. CASE Undo \/ UndoEnds \/ ReturnFailure
  BY <1>7 DEF Undo, UndoEnds, ReturnFailure, Files
<1>8. CASE \E id \in Ids : BeginRestore(id)
  BY <1>8 DEF BeginRestore, Files
<1>9. CASE RestoreLedger \/ RestoreEntry \/ RestoreFails \/ RestoreEnds \/ Report
  BY <1>9 DEF RestoreLedger, RestoreEntry, RestoreFails, RestoreEnds, Report, Files
<1>10. CASE Crash
  BY <1>10 DEF Crash, DiesWithin, Files
<1>11. CASE UNCHANGED vars
  BY <1>11 DEF vars
<1>. QED  BY <1>1, <1>2, <1>3, <1>4, <1>5, <1>6, <1>7, <1>8, <1>9, <1>10, <1>11 DEF Next

LEMMA LedgerStep ==
  ASSUME InstallIInv, [Next]_vars, run.phase # "restore",
         NEW t \in Targets, ledger'[t] # ledger[t]
  PROVE  t \in run.ops /\ disk[t] = ledger'[t]
<1>1. WriteLedger
  BY LedgerIsWritten
<1>2. run.phase = "ledger" /\ ledger' = Merged
  BY <1>1 DEF WriteLedger
<1>3. t \in run.ops /\ ledger'[t] = run.id
  BY <1>2 DEF Merged
<1>4. Applied
  BY <1>2, AppliedFacts DEF Applying, Writing
<1>5. t \in run.replaced
  BY <1>2, <1>3, <1>4 DEF Applied, Pending
<1>. QED  BY <1>2, <1>3, <1>4, <1>5 DEF Applied, Writing

\* mergeArtifactRecords: outside a restore the ledger comes to name a version only
\* of a target of the plan, which holds that version; the others keep their records.
THEOREM LedgerUpserts == Spec => LedgerIsUpsert
<1>1. InstallIInv /\ [Next]_vars =>
        [run.phase # "restore" =>
           \A t \in Targets : ledger'[t] # ledger[t] => t \in run.ops /\ disk[t] = ledger'[t]]_vars
  BY LedgerStep
<1>. QED  BY <1>1, InstallInductive, PTL DEF Spec, LedgerIsUpsert
=============================================================================
