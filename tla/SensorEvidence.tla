--------------------------- MODULE SensorEvidence ---------------------------
(***************************************************************************)
(* What a green verdict rests on. `awm sensors run` measures the working   *)
(* tree, reuses results of an earlier tree through a cache, and leaves a   *)
(* receipt for the commit; `awm change new` cites the receipt in a Change  *)
(* Record; `awm change validate --strict` concludes from record and        *)
(* receipt that HEAD passes, though HEAD has moved since. Runs, commands   *)
(* and a developer who edits, commits and checks out are independent       *)
(* processes: every read of the tree, of HEAD or of a file is a step.      *)
(*                                                                         *)
(* A finding is named by its file. Git is a list of commits with their     *)
(* trees; staging is part of a commit. A receipt's digest is the number of *)
(* its writing, which its `ranAt` makes unique.                            *)
(*                                                                         *)
(* Nothing restrains the developer: what defeats a recheck happens too.    *)
(* History (`touched`, `missed`, `moved`, `doubt` and `told`, which no     *)
(* step of the code reads) keeps where it did, and the properties say what *)
(* holds all the same.                                                     *)
(***************************************************************************)
EXTENDS Naturals, FiniteSets, Sequences

CONSTANTS
    Files,        \* the files of the repository, those to be created included
    Baseline,     \* the one that lists the findings the project accepts
    Sensors,      \* the enabled sensors of the root manifest
    Globs,        \* [Sensors -> SUBSET Files]: files that match authored inputs
    Always,       \* [Sensors -> SUBSET Files]: manifest, configuration, lockfiles
    Module,       \* [Files -> modules]: the directory a record names for a file
    Contents,     \* [Files -> sets]: what a file that exists may hold
    Bad,          \* the contents a sensor reports
    Opaque,       \* the contents no digest hashes: of files above the size cap,
                  \* behind a symbolic link, or not regular
    Accepts,      \* [Contents[Baseline] -> [Sensors -> SUBSET Messages]]
    Start,        \* the trees the main branch may have
    Runners,      \* processes of `awm sensors run`
    Selections,   \* of "full", "part" and "changed", those a run may be started with
    Caching,      \* whether a run may use the cache: TRUE, and FALSE for --no-cache
    MaxEdits, MaxCommits,
    MaxProcesses, \* bound on the processes of `awm`, of which the first MaxRuns
    MaxRuns       \* may be sensor runs

VARIABLES
    authored,   \* the sensors that declare their inputs
    tree,       \* the working tree but for docs/changes
    record,     \* the Change Record in the working tree
    commit,     \* the commits, each with its tree, its record and its ancestors
    head,       \* HEAD
    cache,      \* .awm/sensors/runs/cache-*.json
    receipt,    \* .awm/sensors/runs/<commit>.json
    run,        \* the processes of `awm sensors run`
    cmd,        \* the process of `awm change`
    report,     \* the last verdict of `awm change validate`
    used        \* the bounds

vars == <<authored, tree, record, commit, head, cache, receipt, run, cmd, report, used>>
git == <<tree, record, commit, head>>

Absent == "absent"
Marker == "marker"
Tool == "tool"
Nobody == 0

\* What a result may report: findings, or the one message of a tool that failed.
Messages == Files \cup {Tool}

Content(f) == Contents[f] \cup {Absent}
Values == UNION {Content(f) : f \in Files}
Trees == {t \in [Files -> Values] : \A f \in Files : t[f] \in Content(f)}

ASSUME FilesAssumption ==
    /\ Baseline \in Files
    /\ Globs \in [Sensors -> SUBSET Files]
    /\ Always \in [Sensors -> SUBSET Files]
    /\ \A f \in Files : {Absent, Marker} \cap Contents[f] = {}
    /\ Absent \notin Bad \cup Opaque
    /\ Tool \notin Files
    /\ Accepts \in [Contents[Baseline] -> [Sensors -> SUBSET Messages]]
    /\ Start \subseteq Trees
ASSUME BoundsAssumption ==
    /\ {MaxEdits, MaxProcesses, MaxRuns} \subseteq Nat /\ MaxCommits \in Nat \ {0}
    /\ Selections \subseteq {"full", "part", "changed"}
    /\ Caching \subseteq BOOLEAN

Commits == 1 .. Len(commit)

(* Sensors. A sensor that declares inputs reads nothing else. *)
Inputs(s) == (Globs[s] \cup Always[s]) \ {Baseline}
Reads(s) == IF s \in authored THEN Inputs(s) ELSE Files \ {Baseline}
Findings(s, t) == {f \in Reads(s) : t[f] \in Bad}
Accepted(s, b) == IF b = Absent THEN {} ELSE Accepts[b][s]
Passes(s, t) == Findings(s, t) \subseteq Accepted(s, t[Baseline])

\* What the digest of a sensor's inputs identifies: a mere mark for an opaque content.
Digest(s, t) == [f \in Inputs(s) |-> IF t[f] \in Opaque THEN Marker ELSE t[f]]

(***************************************************************************)
(* A result before the baseline. "ran" is a tool that finished, "partial"  *)
(* one killed at its deadline or at the limit of its output, of which the  *)
(* findings read so far are kept, "broken" one that could not be started   *)
(* or failed with no finding, "inconclusive" one that said nothing usable. *)
(* History: `doubt`, the files a result taken from the cache may misjudge. *)
(***************************************************************************)
Raw == [kind : {"none", "ran", "partial", "broken", "inconclusive"},
        findings : SUBSET Messages, doubt : SUBSET Files]
Result(kind, fs) == [kind |-> kind, findings |-> fs, doubt |-> {}]
NoRaw == Result("none", {})

CanCache(raw) == raw.kind = "ran"

\* applyBaseline: whatever failed passes once each of its messages is accepted.
Status(s, raw, b) ==
    CASE raw.kind \in {"none", "inconclusive"} -> "inconclusive"
      [] raw.findings \subseteq Accepted(s, b) -> "pass"
      [] OTHER -> "fail"

\* reduceVerdict, over sensors none of which is skipped.
Overall(statuses) ==
    CASE "fail" \in statuses -> "fail"
      [] "fail" \notin statuses /\ "inconclusive" \in statuses -> "not_certified"
      [] OTHER -> "pass"

(* Git. *)
NoRecord == [commit |-> Nobody, overall |-> "pass", digest |-> 0, derived |-> {}, pending |-> TRUE]

\* gitState: whether the tree differs from HEAD; untracked files count only if asked for.
DirtyFile(f, untracked) ==
    tree[f] # commit[head].tree[f] /\ (untracked \/ commit[head].tree[f] # Absent)
Dirty(untracked) ==
    \/ \E f \in Files : DirtyFile(f, untracked)
    \/ record # commit[head].record /\ (untracked \/ commit[head].record # NoRecord)

\* isDirtyOutside docs/changes.
DirtyOutside == \E f \in Files : DirtyFile(f, TRUE)

Parent(c) == CHOOSE p \in commit[c].anc \ {c} : \A q \in commit[c].anc \ {c} : q <= p

\* deriveFields for HEAD = h; commit 1 is the merge base with the main branch.
HasWork(h) == \E c \in commit[h].anc \ {1} : commit[c].tree # commit[Parent(c)].tree
Derived(h) == {Module[f] : f \in {g \in Files : commit[h].tree[g] # commit[1].tree[g]}}

(* Runs. *)
IdleRun ==
    [pc |-> "idle", flag |-> "part", cached |-> FALSE, pre |-> Nobody, base |-> Absent,
     sel |-> {}, planned |-> {}, plan |-> [s \in Sensors |-> [f \in {} |-> Absent]],
     raw |-> [s \in Sensors |-> NoRaw], settled |-> {}, seen |-> Nobody,
     touched |-> {}, missed |-> {}, moved |-> FALSE]

Active(r) == run[r].pc # "idle"
Statuses(r) == [s \in run[r].sel |-> Status(s, run[r].raw[s], run[r].base)]
Verdict(r) == Overall({Statuses(r)[s] : s \in run[r].sel})

NoReceipt == [id |-> 0, overall |-> "pass", status |-> [s \in Sensors |-> "pass"], paths |-> {},
              planned |-> {}, told |-> [s \in Sensors |-> {}]]

(***************************************************************************)
(* History of a run: the files changed while it is active; those changed   *)
(* twice, which may be again what they were (`missed`); and whether HEAD   *)
(* moved where the recheck does not look (`moved`), back to the commit the *)
(* run began at or between the two reads of the recheck itself.            *)
(***************************************************************************)
Witness(fs, h) ==
    run' = [r \in Runners |->
        IF ~Active(r) THEN run[r]
        ELSE [run[r] EXCEPT !.touched = @ \cup fs,
                            !.missed = @ \cup (fs \cap run[r].touched),
                            !.moved = @ \/ (h # head /\ (run[r].pc = "rechecking" \/ run[r].pre = h))]]

Use(bound, limit) ==
    /\ used[bound] < limit
    /\ used' = [used EXCEPT ![bound] = @ + 1]

\* The developer changes, creates or removes a file.
Edit(f, c) ==
    /\ Use("edits", MaxEdits)
    /\ c # tree[f]
    /\ tree' = [tree EXCEPT ![f] = c]
    /\ Witness({f}, head)
    /\ UNCHANGED <<authored, record, commit, head, cache, receipt, cmd, report>>

\* The developer writes the narrative of the record.
Narrate ==
    /\ record # NoRecord /\ record.pending
    /\ record' = [record EXCEPT !.pending = FALSE]
    /\ UNCHANGED <<authored, tree, commit, head, cache, receipt, run, cmd, report, used>>

CommitAll ==
    /\ Len(commit) < MaxCommits
    /\ <<tree, record>> # <<commit[head].tree, commit[head].record>>
    /\ commit' = Append(commit, [tree |-> tree, record |-> record,
                                 anc |-> commit[head].anc \cup {Len(commit) + 1}])
    /\ head' = Len(commit) + 1
    /\ Witness({}, Len(commit) + 1)
    /\ UNCHANGED <<authored, tree, record, cache, receipt, cmd, report, used>>

\* git checkout of a clean tree.
Checkout(c) ==
    LET moved == {f \in Files : tree[f] # commit[c].tree[f]} IN
    /\ Use("edits", MaxEdits)
    /\ c # head
    /\ ~Dirty(TRUE)
    /\ head' = c
    /\ tree' = commit[c].tree
    /\ record' = commit[c].record
    /\ Witness(moved, c)
    /\ UNCHANGED <<authored, commit, cache, receipt, cmd, report>>

Developer ==
    \/ \E f \in Files : \E c \in Content(f) : Edit(f, c)
    \/ Narrate
    \/ CommitAll
    \/ \E c \in Commits : Checkout(c)

(***************************************************************************)
(* `awm sensors run`. A run of the full selection first measures whether   *)
(* the tree is the commit (captureReceiptPrecondition: rev-parse, then     *)
(* status), and rechecks it before it writes the receipt.                  *)
(***************************************************************************)
Begin(r, flag, sel, cached) ==
    /\ run[r].pc = "idle"
    /\ Use("processes", MaxRuns)
    /\ flag = "full" => sel = Sensors
    /\ run' = [run EXCEPT ![r] = [IdleRun EXCEPT !.pc = IF flag = "full" THEN "begun" ELSE "started",
                                                 !.flag = flag, !.sel = sel, !.cached = cached,
                                                 !.pre = IF flag = "full" THEN head ELSE Nobody]]
    /\ UNCHANGED <<authored, git, cache, receipt, cmd, report>>

Precondition(r) ==
    /\ run[r].pc = "begun"
    /\ run' = [run EXCEPT ![r].pc = "started", ![r].pre = IF Dirty(TRUE) THEN Nobody ELSE @]
    /\ UNCHANGED <<authored, git, cache, receipt, cmd, report, used>>

ReadBaseline(r) ==
    /\ run[r].pc = "started"
    /\ run' = [run EXCEPT ![r].pc = "based", ![r].base = tree[Baseline]]
    /\ UNCHANGED <<authored, git, cache, receipt, cmd, report, used>>

\* The digests of the sensors that declare inputs; git may fail to list the files of one.
Prepare(r, planned) ==
    /\ run[r].pc = "based"
    /\ planned \subseteq run[r].sel \cap authored
    /\ run' = [run EXCEPT ![r].pc = "running", ![r].planned = planned,
                          ![r].plan = [s \in Sensors |-> IF s \in planned THEN Digest(s, tree) ELSE @[s]]]
    /\ UNCHANGED <<authored, git, cache, receipt, cmd, report, used>>

Waiting(r, s) == run[r].pc = "running" /\ s \in run[r].sel /\ run[r].raw[s] = NoRaw

\* The cache answers, when it may be asked and knows the digest of the plan.
Entries(r, s) ==
    {e \in cache : run[r].cached /\ s \in run[r].planned /\ e.sensor = s /\ e.digest = run[r].plan[s]}

\* History: what the writer of an entry missed, and what its digest does not hash.
Doubt(e) == e.missed \cup {f \in DOMAIN e.digest : e.digest[f] = Marker}

Reuse(r, s) ==
    /\ Waiting(r, s)
    /\ \E e \in Entries(r, s) :
          run' = [run EXCEPT ![r].raw[s] = [kind |-> "ran", findings |-> e.findings, doubt |-> Doubt(e)],
                             ![r].settled = @ \cup {s}]
    /\ UNCHANGED <<authored, git, cache, receipt, cmd, report, used>>

\* What may come of a tool over the tree as it is now: under --changed, over a part of it.
Outcomes(s, scoped) ==
    LET found == IF scoped THEN SUBSET Findings(s, tree) ELSE {Findings(s, tree)} IN
    {Result("ran", fs) : fs \in found}
    \cup {Result("partial", fs) : fs \in UNION {SUBSET whole : whole \in found} \ {{}}}
    \cup {Result("broken", {Tool}), Result("inconclusive", {})}

Execute(r, s) ==
    /\ Waiting(r, s)
    /\ Entries(r, s) = {}
    /\ \E raw \in Outcomes(s, run[r].flag = "changed") : run' = [run EXCEPT ![r].raw[s] = raw]
    /\ UNCHANGED <<authored, git, cache, receipt, cmd, report, used>>

\* Mutant: the digest is not computed again after the sensor ran.
WrittenUnseen(r, s) ==
    IF run[r].cached /\ s \in run[r].planned /\ run[r].flag # "changed" /\ CanCache(run[r].raw[s])
    THEN {[sensor |-> s, digest |-> run[r].plan[s], findings |-> run[r].raw[s].findings,
           missed |-> run[r].missed]}
    ELSE {}

\* What a settled result leaves in the cache: only if its inputs are still those of the plan.
Written(r, s) ==
    IF /\ run[r].cached /\ s \in run[r].planned
       /\ run[r].flag # "changed"
       /\ CanCache(run[r].raw[s])
       /\ Digest(s, tree) = run[r].plan[s]
    THEN {[sensor |-> s, digest |-> run[r].plan[s], findings |-> run[r].raw[s].findings,
           missed |-> run[r].missed]}
    ELSE {}

Settle(r, s) ==
    /\ run[r].pc = "running"
    /\ s \in run[r].sel \ run[r].settled
    /\ run[r].raw[s] # NoRaw
    /\ cache' = {e \in cache : \A w \in Written(r, s) : <<e.sensor, e.digest>> # <<w.sensor, w.digest>>}
                \cup Written(r, s)
    /\ run' = [run EXCEPT ![r].settled = @ \cup {s}]
    /\ UNCHANGED <<authored, git, receipt, cmd, report, used>>

\* The verdict is printed; finalizeRunReceipt withholds the receipt of what is not certified.
Finish(r) ==
    /\ run[r].pc = "running"
    /\ run[r].settled = run[r].sel
    /\ run' = [run EXCEPT ![r] = IF @.pre # Nobody /\ Verdict(r) # "not_certified"
                                 THEN [@ EXCEPT !.pc = "measured"] ELSE IdleRun]
    /\ UNCHANGED <<authored, git, cache, receipt, cmd, report, used>>

RecheckHead(r) ==
    /\ run[r].pc = "measured"
    /\ run' = [run EXCEPT ![r].pc = "rechecking", ![r].seen = head]
    /\ UNCHANGED <<authored, git, cache, receipt, cmd, report, used>>

\* Mutant: the recheck forgets HEAD.
UnchangedFiles(r) == ~Dirty(FALSE)

Unchanged(r) == run[r].seen = run[r].pre /\ ~Dirty(FALSE)

\* Mutant: the paths of the digests alone.
DigestedPaths(r) ==
    UNION {Always[s] \cup {f \in DOMAIN run[r].plan[s] : run[r].plan[s][f] # Absent} : s \in run[r].planned}

\* Paths that participated in the digests, and those measured whatever the inputs.
MeasuredPaths(r) ==
    {Baseline} \cup UNION {Always[s] \cup {f \in DOMAIN run[r].plan[s] : run[r].plan[s][f] # Absent}
                           : s \in run[r].planned}

\* History: the files of which the result of a sensor tells how they are on the commit.
Told(r) ==
    LET missed == run[r].missed \cup {f \in run[r].touched : commit[run[r].pre].tree[f] = Absent} IN
    [s \in Sensors |->
        IF run[r].raw[s].kind = "ran" /\ ~run[r].moved /\ Baseline \notin missed
        THEN Files \ (missed \cup run[r].raw[s].doubt) ELSE {}]

FinalizeReceipt(r) ==
    /\ run[r].pc = "rechecking"
    /\ run' = [run EXCEPT ![r] = IdleRun]
    /\ IF Unchanged(r)
       THEN /\ receipt' = [receipt EXCEPT ![run[r].pre] =
                              [id |-> used.receipts + 1, overall |-> Verdict(r), status |-> Statuses(r),
                               paths |-> MeasuredPaths(r), planned |-> run[r].planned,
                               told |-> Told(r)]]
            /\ used' = [used EXCEPT !.receipts = @ + 1]
       ELSE UNCHANGED <<receipt, used>>
    /\ UNCHANGED <<authored, git, cache, cmd, report>>

\* The process is interrupted, at any point.
Interrupt(r) ==
    /\ Active(r)
    /\ run' = [run EXCEPT ![r] = IdleRun]
    /\ UNCHANGED <<authored, git, cache, receipt, cmd, report, used>>

Sensing(r) ==
    \/ \E flag \in Selections, cached \in Caching :
          \E sel \in SUBSET Sensors \ {{}} : Begin(r, flag, sel, cached)
    \/ Precondition(r) \/ ReadBaseline(r)
    \/ \E planned \in SUBSET Sensors : Prepare(r, planned)
    \/ \E s \in Sensors : Reuse(r, s) \/ Execute(r, s) \/ Settle(r, s)
    \/ Finish(r) \/ RecheckHead(r) \/ FinalizeReceipt(r) \/ Interrupt(r)

(***************************************************************************)
(* `awm change new`, `new --refresh` and `validate`. Each pins HEAD first  *)
(* and gives up when it finds HEAD moved.                                  *)
(***************************************************************************)
IdleCmd ==
    [op |-> "none", pc |-> "idle", head |-> Nobody, strict |-> FALSE,
     ver |-> [commit |-> Nobody, overall |-> "pass", digest |-> 0], rec |-> NoRecord,
     told |-> NoReceipt.told]

\* The verdict, and of what it was given: HEAD, the commit cited, what its receipt told.
Invalid == [head |-> Nobody, strict |-> FALSE, cited |-> Nobody, told |-> NoReceipt.told]

At(op, pc) == cmd.op = op /\ cmd.pc = pc
Refused == cmd' = IdleCmd
HeadMoved == head # cmd.head

Pin(op, strict) ==
    /\ cmd.op = "none"
    /\ Use("processes", MaxProcesses)
    /\ op # "validate" => HasWork(head)
    /\ cmd' = [cmd EXCEPT !.op = op, !.pc = "pinned", !.head = head, !.strict = strict]
    /\ UNCHANGED <<authored, git, cache, receipt, run, report>>

\* headMovedFailure, at each of the places where a command that writes looks at HEAD.
CheckHead(op, from, to) ==
    /\ At(op, from)
    /\ IF HeadMoved THEN Refused ELSE cmd' = [cmd EXCEPT !.pc = to]
    /\ UNCHANGED <<authored, git, cache, receipt, run, report, used>>

\* The tree must equal HEAD,
CheckClean ==
    /\ cmd.op \in {"new", "refresh"} /\ cmd.pc = "derived"
    /\ IF DirtyOutside THEN Refused ELSE cmd' = [cmd EXCEPT !.pc = "clean"]
    /\ UNCHANGED <<authored, git, cache, receipt, run, report, used>>

\* and a receipt, of whatever verdict, vouch for it.
Vouch ==
    /\ cmd.op \in {"new", "refresh"} /\ cmd.pc = "clean"
    /\ IF receipt[cmd.head] = NoReceipt
       THEN Refused
       ELSE cmd' = [cmd EXCEPT !.pc = "vouched",
                               !.ver = [commit |-> cmd.head, overall |-> receipt[cmd.head].overall,
                                        digest |-> receipt[cmd.head].id]]
    /\ UNCHANGED <<authored, git, cache, receipt, run, report, used>>

\* createExclusive.
CreateRecord ==
    /\ At("new", "sure")
    /\ record' = IF record # NoRecord THEN record
                 ELSE [commit |-> cmd.ver.commit, overall |-> cmd.ver.overall, digest |-> cmd.ver.digest,
                       derived |-> Derived(cmd.head), pending |-> TRUE]
    /\ cmd' = IdleCmd
    /\ UNCHANGED <<authored, tree, commit, head, cache, receipt, run, report, used>>

ReadToRefresh ==
    /\ At("refresh", "vouched")
    /\ IF record = NoRecord THEN Refused ELSE cmd' = [cmd EXCEPT !.pc = "read", !.rec = record]
    /\ UNCHANGED <<authored, git, cache, receipt, run, report, used>>

\* unchangedSince.
CheckUnchanged ==
    /\ At("refresh", "sure")
    /\ IF record # cmd.rec THEN Refused ELSE cmd' = [cmd EXCEPT !.pc = "checked"]
    /\ UNCHANGED <<authored, git, cache, receipt, run, report, used>>

\* replaceRecord, with the narrative of the record that was read.
ReplaceRecord ==
    /\ At("refresh", "checked")
    /\ record' = [cmd.rec EXCEPT !.commit = cmd.ver.commit, !.overall = cmd.ver.overall,
                                 !.digest = cmd.ver.digest, !.derived = Derived(cmd.head)]
    /\ cmd' = IdleCmd
    /\ UNCHANGED <<authored, tree, commit, head, cache, receipt, run, report, used>>

Verdicts(valid) ==
    /\ report' = IF valid THEN [head |-> cmd.head, strict |-> cmd.strict, cited |-> cmd.rec.commit,
                                told |-> cmd.told]
                 ELSE Invalid
    /\ cmd' = IdleCmd

\* The record as committed, its shape, its derived fields and the ancestry of its commit.
CheckRecord ==
    /\ At("validate", "pinned")
    /\ IF /\ commit[cmd.head].record # NoRecord /\ record # NoRecord
          /\ record = commit[head].record
          /\ ~record.pending
          /\ HasWork(cmd.head) /\ record.derived = Derived(cmd.head)
          /\ record.commit \in commit[cmd.head].anc
       THEN cmd' = [cmd EXCEPT !.pc = "read", !.rec = record] /\ UNCHANGED report
       ELSE Verdicts(FALSE)
    /\ UNCHANGED <<authored, git, cache, receipt, run, used>>

\* allowsUnmeasuredRelaxation: every sensor of the receipt declared its inputs.
Relaxed(c) == receipt[c] # NoReceipt /\ receipt[c].planned = Sensors

\* latePathIsMeasured: a path of the digests, or one that matches the inputs though it is new.
IsMeasured(c, f) ==
    f \in receipt[c].paths \/ \E s \in receipt[c].planned : f \in Globs[s]

\* What changed since the verified commit and counts.
LateFiles(c, h) ==
    {f \in Files : commit[c].tree[f] # commit[h].tree[f] /\ (Relaxed(c) => IsMeasured(c, f))}

CheckLate ==
    /\ At("validate", "read")
    /\ IF LateFiles(cmd.rec.commit, cmd.head) = {}
       THEN cmd' = [cmd EXCEPT !.pc = IF cmd.strict THEN "late" ELSE "checked"] /\ UNCHANGED report
       ELSE Verdicts(FALSE)
    /\ UNCHANGED <<authored, git, cache, receipt, run, used>>

\* --strict: the receipt is there, is the one the record cites, and says pass.
CheckReceipt ==
    /\ At("validate", "late")
    /\ LET r == receipt[cmd.rec.commit] IN
       IF r # NoReceipt /\ r.id = cmd.rec.digest /\ r.overall = cmd.rec.overall /\ r.overall = "pass"
       THEN cmd' = [cmd EXCEPT !.pc = "checked", !.told = r.told] /\ UNCHANGED report
       ELSE Verdicts(FALSE)
    /\ UNCHANGED <<authored, git, cache, receipt, run, used>>

Conclude ==
    /\ At("validate", "checked")
    /\ Verdicts(~HeadMoved)
    /\ UNCHANGED <<authored, git, cache, receipt, run, used>>

Changing ==
    \/ \E op \in {"new", "refresh"} : Pin(op, FALSE)
    \/ \E strict \in BOOLEAN : Pin("validate", strict)
    \/ \E op \in {"new", "refresh"} : CheckHead(op, "pinned", "derived")
    \/ CheckHead("new", "vouched", "sure") \/ CheckHead("refresh", "read", "sure")
    \/ CheckClean \/ Vouch \/ CreateRecord \/ ReadToRefresh \/ CheckUnchanged \/ ReplaceRecord
    \/ CheckRecord \/ CheckLate \/ CheckReceipt \/ Conclude

Init ==
    /\ authored \in SUBSET Sensors
    /\ tree \in Start
    /\ record = NoRecord
    /\ commit = <<[tree |-> tree, record |-> NoRecord, anc |-> {1}]>>
    /\ head = 1
    /\ cache = {}
    /\ receipt = [c \in 1 .. MaxCommits |-> NoReceipt]
    /\ run = [r \in Runners |-> IdleRun]
    /\ cmd = IdleCmd
    /\ report = Invalid
    /\ used = [edits |-> 0, processes |-> 0, receipts |-> 0]

Next == Developer \/ (\E r \in Runners : Sensing(r)) \/ Changing

Spec == Init /\ [][Next]_vars

(* Properties. *)

Results == {"pass", "fail", "inconclusive"}
Overalls == {"pass", "fail", "not_certified"}
Digests == UNION {[fs -> Values \cup {Marker}] : fs \in SUBSET Files}
Records ==
    [commit : Nat, overall : Overalls, digest : Nat, derived : SUBSET {Module[f] : f \in Files},
     pending : BOOLEAN]
Runs ==
    [pc : {"idle", "begun", "started", "based", "running", "measured", "rechecking"},
     flag : {"full", "part", "changed"}, cached : BOOLEAN, pre : Nat, base : Values,
     sel : SUBSET Sensors, planned : SUBSET Sensors, plan : [Sensors -> Digests],
     raw : [Sensors -> Raw], settled : SUBSET Sensors, seen : Nat,
     touched : SUBSET Files, missed : SUBSET Files, moved : BOOLEAN]
Receipts ==
    [id : Nat, overall : Overalls, status : [Sensors -> Results], paths : SUBSET Files,
     planned : SUBSET Sensors, told : [Sensors -> SUBSET Files]]
Cmds ==
    [op : {"none", "new", "refresh", "validate"},
     pc : {"idle", "pinned", "derived", "clean", "vouched", "read", "sure", "checked", "late"},
     head : Nat, strict : BOOLEAN,
     ver : [commit : Nat, overall : Overalls, digest : Nat], rec : Records,
     told : [Sensors -> SUBSET Files]]

\* Types. A receipt has the status of every sensor, a commit's ancestors exist.
EvidenceTypeOK ==
    /\ authored \subseteq Sensors
    /\ tree \in Trees /\ record \in Records
    /\ commit \in Seq([tree : Trees, record : Records, anc : SUBSET Nat])
    /\ Len(commit) <= MaxCommits
    /\ \A c \in Commits : commit[c].anc \subseteq 1 .. c
    /\ head \in Commits
    /\ cache \subseteq [sensor : Sensors, digest : Digests, findings : SUBSET Files, missed : SUBSET Files]
    /\ receipt \in [1 .. MaxCommits -> Receipts]
    /\ run \in [Runners -> Runs]
    /\ cmd \in Cmds
    /\ report \in [head : Nat, strict : BOOLEAN, cited : Nat, told : [Sensors -> SUBSET Files]]
    /\ used \in [edits : Nat, processes : Nat, receipts : Nat]

\* A cached result is what its sensor finds in the inputs its key identifies,
\* whatever was edited between the digest, the run of the sensor and the write:
\* but for a file the digest does not hash, or changed and put back meanwhile.
CacheIsTrue ==
    \A e \in cache : \A f \in DOMAIN e.digest \ Doubt(e) : f \in e.findings <=> e.digest[f] \in Bad

\* A sensor passes in a receipt only if it passes on the commit, under the
\* baseline of the commit, whatever was edited and committed during the run:
\* as far as the result tells, which it does of no file when the tool did not
\* finish or HEAD slipped through the recheck.
ReceiptIsTrue ==
    \A c \in Commits : receipt[c] # NoReceipt =>
        \A s \in Sensors : receipt[c].status[s] = "pass" =>
            Findings(s, commit[c].tree) \cap receipt[c].told[s] \subseteq Accepted(s, commit[c].tree[Baseline])

\* A strict valid report is of a HEAD that passes each sensor the commit it cites
\* passes, though files have changed since, and in which a sensor has no finding
\* in the files the receipt told of but those the baseline of HEAD accepts.
StrictIsTrue ==
    report.strict => \A s \in Sensors :
        /\ Passes(s, commit[report.cited].tree) => Passes(s, commit[report.head].tree)
        /\ Findings(s, commit[report.head].tree) \cap report.told[s]
               \subseteq Accepted(s, commit[report.head].tree[Baseline])

(***************************************************************************)
(* What the repository says and the code does not do.                      *)
(***************************************************************************)

\* A result is reused only for the contents it was measured on: an oversized
\* input, which the tests of the digest say fails closed, is no exception.
ReuseIsFresh ==
    [][\A r \in Runners, s \in Sensors : Reuse(r, s) /\ run[r].touched = {} =>
          (\E e \in Entries(r, s) : e.missed # {}) \/ run'[r].raw[s].findings = Findings(s, tree)]_vars

\* The baseline "never certifies an incomplete execution": a pass that goes into
\* a receipt is of a tool that finished.
PassIsComplete ==
    \A r \in Runners : run[r].pc = "measured" =>
        \A s \in run[r].sel : Statuses(r)[s] = "pass" => run[r].raw[s].kind = "ran"

\* "A receipt certifies a commit only when the tree equals it": a receipt is
\* written only while the tracked files are those of the commit it is for.
CertifiesTheTree ==
    [][\A r \in Runners : FinalizeReceipt(r) /\ receipt' # receipt =>
          \A f \in Files : LET there == commit[run[r].pre].tree[f] IN there # Absent => tree[f] = there]_vars

\* A refresh never writes over a record that was edited since it was read. The
\* code looks before it renames, and what is edited in between is lost.
EditsWin == [][ReplaceRecord => record = cmd.rec]_vars
=============================================================================
