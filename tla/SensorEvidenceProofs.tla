------------------------ MODULE SensorEvidenceProofs ------------------------
(***************************************************************************)
(* Proofs about SensorEvidence, for every repository, set of sensors and   *)
(* number of runs, whatever the developer does meanwhile.                  *)
(***************************************************************************)
EXTENDS SensorEvidence, TLAPS

(***************************************************************************)
(* Types.                                                                  *)
(***************************************************************************)
CommitType == [tree : Trees, record : Records, anc : SUBSET Nat]
EntryType == [sensor : Sensors, digest : Digests, findings : SUBSET Files, missed : SUBSET Files]
ReportType == [head : Nat, strict : BOOLEAN, cited : Nat, told : [Sensors -> SUBSET Files]]
UsedType == [edits : Nat, processes : Nat, receipts : Nat]
USE DEF EntryType, ReportType, UsedType

LEMMA InitTypes == Init => EvidenceTypeOK
  <1> SUFFICES ASSUME Init PROVE EvidenceTypeOK OBVIOUS
  <1> USE FilesAssumption, BoundsAssumption DEF Init
  <1>1. tree \in Trees OBVIOUS
  <1>2. NoRecord \in Records BY DEF NoRecord, Records, Overalls, Nobody
  <1>3. [tree |-> tree, record |-> NoRecord, anc |-> {1}] \in CommitType BY <1>1, <1>2 DEF CommitType
  <1>4. commit \in Seq(CommitType) /\ Len(commit) = 1 /\ commit[1].anc = {1} BY <1>3
  <1>5. Absent \in Values BY FilesAssumption DEF Values, Content
  <1>6. [f \in {} |-> Absent] \in Digests
    <2>1. [f \in {} |-> Absent] \in [{} -> Values \cup {Marker}] OBVIOUS
    <2> QED BY <2>1 DEF Digests
  <1>7. IdleRun \in Runs BY <1>5, <1>6 DEF IdleRun, Runs, NoRaw, Result, Raw, Nobody
  <1>8. NoReceipt \in Receipts BY DEF NoReceipt, Receipts, Results, Overalls
  <1>9. IdleCmd \in Cmds BY <1>2, <1>8 DEF IdleCmd, Cmds, Overalls, Nobody, Receipts
  <1>10. authored \subseteq Sensors OBVIOUS
  <1>11. Invalid \in ReportType BY <1>8 DEF Invalid, Nobody, Receipts, ReportType
  <1>12. Commits = {1} /\ head = 1 /\ Len(commit) <= MaxCommits BY <1>4 DEF Commits
  <1>13. \A c \in Commits : commit[c].anc \subseteq 1 .. c BY <1>4, <1>12
  <1>14. run \in [Runners -> Runs] BY <1>7
  <1>15. receipt \in [1 .. MaxCommits -> Receipts] BY <1>8
  <1>16. used \in UsedType BY DEF UsedType
  <1>17. cmd \in Cmds /\ report \in ReportType BY <1>9, <1>11
  <1>18. cache = {} /\ record \in Records BY <1>2
  <1> HIDE DEF Init
  <1> QED
    BY <1>1, <1>4, <1>10, <1>12, <1>13, <1>14, <1>15, <1>16, <1>17, <1>18 DEF EvidenceTypeOK, CommitType, ReportType, UsedType

\* What stands for a content in a digest.
Hash(c) == IF c \in Opaque THEN Marker ELSE c

\* A file of a digest is an input.
LEMMA DigestType ==
  ASSUME NEW s \in Sensors, NEW t \in Trees
  PROVE  /\ Digest(s, t) \in Digests /\ DOMAIN Digest(s, t) = Inputs(s)
         /\ \A f \in Inputs(s) : Digest(s, t)[f] = Hash(t[f])
  <1>1. Inputs(s) \subseteq Files BY FilesAssumption DEF Inputs
  <1>2. Digest(s, t) \in [Inputs(s) -> Values \cup {Marker}] BY <1>1 DEF Digest, Trees
  <1> QED BY <1>1, <1>2 DEF Digests, Digest, Hash

LEMMA ReadsType ==
  ASSUME NEW s \in Sensors PROVE Reads(s) \subseteq Files \ {Baseline}
  BY FilesAssumption DEF Reads, Inputs

\* What a new commit is.
LEMMA Committed ==
  ASSUME EvidenceTypeOK, CommitAll
  PROVE  /\ commit' \in Seq(CommitType) /\ Len(commit') = Len(commit) + 1
         /\ head' = Len(commit) + 1 /\ Len(commit) \in Nat
         /\ \A c \in Commits : commit'[c] = commit[c]
         /\ commit'[head'].anc = commit[head].anc \cup {head'}
  <1>1. [tree |-> tree, record |-> record, anc |-> commit[head].anc \cup {Len(commit) + 1}] \in CommitType
    <2>1. commit[head].anc \subseteq Nat BY DEF EvidenceTypeOK, Commits
    <2> QED BY <2>1 DEF EvidenceTypeOK, CommitType, Commits
  <1> DEFINE new == [tree |-> tree, record |-> record, anc |-> commit[head].anc \cup {Len(commit) + 1}]
  <1>2. commit' = Append(commit, new) /\ head' = Len(commit) + 1 BY DEF CommitAll
  <1>3. commit \in Seq(CommitType) BY DEF EvidenceTypeOK, CommitType
  <1>4. new \in CommitType BY <1>1
  <1> HIDE DEF new
  <1>5. commit' \in Seq(CommitType) /\ Len(commit') = Len(commit) + 1 /\ Len(commit) \in Nat
        /\ \A c \in 1 .. Len(commit) : commit'[c] = commit[c]
    BY <1>2, <1>3, <1>4
  <1>6. commit'[head'] = new BY <1>2, <1>3, <1>4
  <1> QED BY <1>2, <1>5, <1>6 DEF Commits, new

(***************************************************************************)
(* What is true of a run whatever happens outside it.                      *)
(***************************************************************************)
ShapeOf(r) ==
  /\ run[r].pre # Nobody => run[r].flag = "full" /\ run[r].pre \in Commits
  /\ run[r].flag = "full" => run[r].sel = Sensors
  /\ run[r].pc \in {"begun", "measured", "rechecking"} => run[r].pre # Nobody
  /\ run[r].planned \subseteq authored
  /\ run[r].pc = "idle" => run[r] = IdleRun
  /\ run[r].pc \in {"begun", "started", "based"} => \A s \in Sensors : run[r].raw[s] = NoRaw
  /\ \A s \in Sensors : run[r].raw[s].kind = "ran" => run[r].raw[s].findings \subseteq Files
  /\ \A s \in Sensors : s \notin run[r].settled => run[r].raw[s].doubt = {}
RunShape == \A r \in Runners : ShapeOf(r)

CmdShape ==
  /\ cmd.op # "none" => cmd.head \in Commits
  /\ cmd.op = "validate" /\ cmd.pc \in {"read", "late", "checked"} => cmd.rec.commit \in Commits

Types == EvidenceTypeOK /\ RunShape /\ CmdShape

LEMMA IdleShape == IdleRun \in Runs
  <1>1. Absent \in Values BY FilesAssumption DEF Values, Content
  <1>2. [f \in {} |-> Absent] \in Digests
    <2>1. [f \in {} |-> Absent] \in [{} -> Values \cup {Marker}] OBVIOUS
    <2> QED BY <2>1 DEF Digests
  <1> QED BY <1>1, <1>2 DEF IdleRun, Runs, NoRaw, Result, Raw, Nobody

LEMMA IdleFacts ==
  /\ \A s \in Sensors : IdleRun.raw[s] = NoRaw
  /\ NoRaw.kind = "none" /\ NoRaw.doubt = {}
  /\ IdleRun.pre = Nobody /\ IdleRun.flag = "part" /\ IdleRun.pc = "idle" /\ IdleRun.planned = {}
  BY DEF IdleRun, NoRaw, Result

\* A step of one run: the others and git are as they were.
LEMMA OneRun ==
  ASSUME Types, NEW r \in Runners, UNCHANGED <<authored, git, cmd, report>>,
         run' \in [Runners -> Runs], \A q \in Runners \ {r} : run'[q] = run[q],
         cache' \subseteq EntryType,
         receipt' \in [1 .. MaxCommits -> Receipts],
         used' \in UsedType,
         ShapeOf(r)'
  PROVE  Types'
  <1>1. Commits' = Commits /\ authored' = authored BY DEF Commits, git
  <1>2. EvidenceTypeOK' BY <1>1 DEF Types, EvidenceTypeOK, git
  <1>3. ASSUME NEW q \in Runners \ {r} PROVE ShapeOf(q)'
    BY <1>1, <1>3 DEF ShapeOf, Types, RunShape
  <1>4. CmdShape' BY <1>1 DEF CmdShape, Types
  <1> QED BY <1>2, <1>3, <1>4 DEF Types, RunShape

LEMMA StatusType == \A s, raw, b : Status(s, raw, b) \in Results
  BY DEF Status, Results

\* A verdict says pass only of sensors that all pass.
LEMMA OverallType ==
  ASSUME NEW ss \in SUBSET Results
  PROVE  Overall(ss) \in Overalls /\ (Overall(ss) = "pass" => ss \subseteq {"pass"})
  BY DEF Overall, Overalls, Results

LEMMA StatusesType ==
  ASSUME Types, NEW r \in Runners, run[r].pre # Nobody
  PROVE  /\ Statuses(r) \in [Sensors -> Results]
         /\ \A s \in Sensors : Statuses(r)[s] = Status(s, run[r].raw[s], run[r].base)
         /\ Verdict(r) \in Overalls
         /\ Verdict(r) = "pass" => \A s \in Sensors : Statuses(r)[s] = "pass"
  <1>1. run[r].sel = Sensors BY DEF Types, RunShape, ShapeOf
  <1>2. Statuses(r) = [s \in Sensors |-> Status(s, run[r].raw[s], run[r].base)] BY <1>1 DEF Statuses
  <1>3. Statuses(r) \in [Sensors -> Results] BY <1>2, StatusType
  <1> DEFINE ss == {Statuses(r)[s] : s \in Sensors}
  <1>4. Verdict(r) = Overall(ss) BY <1>1 DEF Verdict
  <1>5. ss \in SUBSET Results BY <1>3
  <1>6. Overall(ss) \in Overalls /\ (Overall(ss) = "pass" => ss \subseteq {"pass"}) BY <1>5, OverallType
  <1>7. ASSUME NEW s \in Sensors, Verdict(r) = "pass" PROVE Statuses(r)[s] = "pass"
    BY <1>4, <1>6, <1>7
  <1> QED BY <1>2, <1>3, <1>4, <1>6, <1>7

LEMMA PathsType ==
  ASSUME Types, NEW r \in Runners PROVE MeasuredPaths(r) \subseteq Files
  <1>1. \A s \in Sensors : DOMAIN run[r].plan[s] \subseteq Files
    BY DEF Types, EvidenceTypeOK, Runs, Digests
  <1>2. run[r].planned \subseteq Sensors BY DEF Types, EvidenceTypeOK, Runs
  <1> QED BY <1>1, <1>2, FilesAssumption DEF MeasuredPaths

LEMMA ToldType ==
  ASSUME NEW r \in Runners PROVE Told(r) \in [Sensors -> SUBSET Files]
  BY DEF Told

\* A tool that finished reports files, found in the files it reads.
LEMMA OutcomesType ==
  ASSUME NEW s \in Sensors, NEW scoped \in BOOLEAN, NEW raw \in Outcomes(s, scoped)
  PROVE  /\ raw \in Raw /\ raw.doubt = {} /\ (raw.kind = "ran" => raw.findings \subseteq Files)
         /\ raw.kind = "ran" /\ ~scoped => raw.findings = Findings(s, tree)
  <1> DEFINE found == IF scoped THEN SUBSET Findings(s, tree) ELSE {Findings(s, tree)}
  <1>1. Findings(s, tree) \subseteq Files BY ReadsType DEF Findings
  <1>2. \A fs \in found : fs \subseteq Files /\ (~scoped => fs = Findings(s, tree)) BY <1>1
  <1> HIDE DEF found
  <1>3. CASE \E fs \in found : raw = Result("ran", fs) BY <1>2, <1>3 DEF Result, Raw, Messages
  <1>4. CASE \E fs \in UNION {SUBSET whole : whole \in found} : raw = Result("partial", fs)
    <2>1. PICK fs \in UNION {SUBSET whole : whole \in found} : raw = Result("partial", fs) BY <1>4
    <2>2. fs \subseteq Files BY <1>2
    <2> QED BY <2>1, <2>2 DEF Result, Raw, Messages
  <1>5. CASE raw = Result("broken", {Tool}) \/ raw = Result("inconclusive", {})
    BY <1>5 DEF Result, Raw, Messages
  <1> QED BY <1>3, <1>4, <1>5 DEF Outcomes, found

LEMMA SensingTypes ==
  ASSUME Types, NEW r \in Runners, Sensing(r)
  PROVE  Types'
  <1> USE DEF Types
  <1>r. run[r] \in Runs /\ ShapeOf(r) BY DEF EvidenceTypeOK, RunShape
  <1>1. ASSUME NEW flag \in Selections, NEW cached \in Caching, NEW sel \in SUBSET Sensors,
               Begin(r, flag, sel, cached)
        PROVE  Types'
    <2>1. flag \in {"full", "part", "changed"} /\ cached \in BOOLEAN BY BoundsAssumption
    <2>2. head \in Nat \ {0} /\ head \in Commits BY DEF EvidenceTypeOK, Commits
    <2> DEFINE next == [IdleRun EXCEPT !.pc = IF flag = "full" THEN "begun" ELSE "started",
                                       !.flag = flag, !.sel = sel, !.cached = cached,
                                       !.pre = IF flag = "full" THEN head ELSE Nobody]
    <2>6. next \in Runs BY IdleShape, <2>1, <2>2 DEF Runs, Nobody
    <2>7. run' = [run EXCEPT ![r] = next] BY <1>1 DEF Begin
    <2>8. /\ next.pc # "idle" /\ next.planned = {}
          /\ \A s \in Sensors : next.raw[s] = NoRaw /\ next.raw[s].kind # "ran" /\ next.raw[s].doubt = {}
          /\ next.flag = flag /\ next.sel = sel /\ next.pre = IF flag = "full" THEN head ELSE Nobody
          /\ next.pc \in {"begun", "measured", "rechecking"} => flag = "full"
      BY <2>2 DEF IdleRun, Nobody, NoRaw, Result
    <2> HIDE DEF next
    <2>3. run' \in [Runners -> Runs] /\ run'[r] = next BY <2>6, <2>7 DEF EvidenceTypeOK
    <2>4. used' \in UsedType
      <3>1. used \in UsedType BY DEF EvidenceTypeOK
      <3>2. used' = [used EXCEPT !["processes"] = @ + 1] BY <1>1 DEF Begin, Use
      <3> QED BY <3>1, <3>2
    <2>5. Commits' = Commits /\ authored' = authored BY <1>1 DEF Begin, Commits, git
    <2>9. flag = "full" => sel = Sensors BY <1>1 DEF Begin
    <2>10. ShapeOf(r)' BY <2>2, <2>3, <2>5, <2>8, <2>9 DEF ShapeOf, Nobody
    <2> QED BY <1>1, <2>3, <2>4, <2>7, <2>10, OneRun DEF Begin, EvidenceTypeOK
  <1>2. CASE Precondition(r)
    <2>1. run' \in [Runners -> Runs] BY <1>2, <1>r DEF Precondition, Runs, EvidenceTypeOK, Nobody
    <2>2. Commits' = Commits /\ authored' = authored BY <1>2 DEF Precondition, Commits, git
    <2>3. ShapeOf(r)' BY <1>2, <1>r, <2>2 DEF Precondition, ShapeOf, EvidenceTypeOK, Nobody, Runs
    <2> QED BY <1>2, <2>1, <2>3, OneRun DEF Precondition, EvidenceTypeOK
  <1>3. CASE ReadBaseline(r)
    <2>1. tree[Baseline] \in Values BY FilesAssumption DEF EvidenceTypeOK, Trees
    <2>2. run' \in [Runners -> Runs] BY <1>3, <1>r, <2>1 DEF ReadBaseline, Runs, EvidenceTypeOK
    <2>3. Commits' = Commits /\ authored' = authored BY <1>3 DEF ReadBaseline, Commits, git
    <2>4. ShapeOf(r)' BY <1>3, <1>r, <2>3 DEF ReadBaseline, ShapeOf, EvidenceTypeOK, Runs
    <2> QED BY <1>3, <2>2, <2>4, OneRun DEF ReadBaseline, EvidenceTypeOK
  <1>4. ASSUME NEW planned \in SUBSET Sensors, Prepare(r, planned) PROVE Types'
    <2>1. [s \in Sensors |-> IF s \in planned THEN Digest(s, tree) ELSE run[r].plan[s]] \in [Sensors -> Digests]
      BY <1>r, DigestType DEF Runs, EvidenceTypeOK
    <2>2. run' \in [Runners -> Runs]
      BY <1>4, <1>r, <2>1 DEF Prepare, Runs, EvidenceTypeOK
    <2>3. Commits' = Commits /\ authored' = authored BY <1>4 DEF Prepare, Commits, git
    <2>4. ShapeOf(r)' BY <1>4, <1>r, <2>3 DEF Prepare, ShapeOf, EvidenceTypeOK, Runs
    <2> QED BY <1>4, <2>2, <2>4, OneRun DEF Prepare, EvidenceTypeOK
  <1>5. ASSUME NEW s \in Sensors, Reuse(r, s) PROVE Types'
    <2>1. PICK e \in Entries(r, s) :
             run' = [run EXCEPT ![r].raw[s] = [kind |-> "ran", findings |-> e.findings, doubt |-> Doubt(e)],
                                ![r].settled = @ \cup {s}]
      BY <1>5 DEF Reuse
    <2> DEFINE raw == [kind |-> "ran", findings |-> e.findings, doubt |-> Doubt(e)]
    <2>2. e \in EntryType BY DEF Entries, EvidenceTypeOK
    <2>3. Doubt(e) \subseteq Files
      <3>1. DOMAIN e.digest \subseteq Files BY <2>2 DEF Digests
      <3> QED BY <2>2, <3>1 DEF Doubt
    <2>4. raw \in Raw /\ raw.findings \subseteq Files BY <2>2, <2>3 DEF Raw, Messages
    <2> HIDE DEF raw
    <2>5. run' \in [Runners -> Runs] BY <1>r, <2>1, <2>4 DEF Runs, EvidenceTypeOK, raw
    <2>6. Commits' = Commits /\ authored' = authored BY <1>5 DEF Reuse, Commits, git
    <2>7. run'[r] = [run[r] EXCEPT !.raw = [run[r].raw EXCEPT ![s] = raw], !.settled = @ \cup {s}]
      BY <1>r, <2>1 DEF EvidenceTypeOK, raw
    <2>8. /\ run'[r].pc = "running" /\ run[r].pc = "running" /\ run'[r].pre = run[r].pre
          /\ run'[r].flag = run[r].flag /\ run'[r].sel = run[r].sel /\ run'[r].planned = run[r].planned
          /\ run'[r].raw = [run[r].raw EXCEPT ![s] = raw] /\ run'[r].settled = run[r].settled \cup {s}
      BY <1>5, <1>r, <2>7 DEF Reuse, Waiting, Runs
    <2>9. \A q \in Sensors : run'[r].raw[q] = IF q = s THEN raw ELSE run[r].raw[q] BY <1>r, <2>8 DEF Runs
    <2>10. ShapeOf(r)' BY <1>r, <2>4, <2>6, <2>8, <2>9 DEF ShapeOf
    <2> QED BY <1>5, <2>5, <2>10, OneRun, <2>1 DEF Reuse, EvidenceTypeOK
  <1>6. ASSUME NEW s \in Sensors, Execute(r, s) PROVE Types'
    <2>1. PICK raw \in Outcomes(s, run[r].flag = "changed") : run' = [run EXCEPT ![r].raw[s] = raw]
      BY <1>6 DEF Execute
    <2>2. raw \in Raw /\ raw.doubt = {} /\ (raw.kind = "ran" => raw.findings \subseteq Files)
      BY OutcomesType
    <2>3. run' \in [Runners -> Runs] BY <1>r, <2>1, <2>2 DEF Runs, EvidenceTypeOK
    <2>4. Commits' = Commits /\ authored' = authored BY <1>6 DEF Execute, Commits, git
    <2>5. run'[r] = [run[r] EXCEPT !.raw = [run[r].raw EXCEPT ![s] = raw]]
      BY <1>r, <2>1 DEF EvidenceTypeOK
    <2>6. ShapeOf(r)' BY <1>6, <1>r, <2>2, <2>4, <2>5 DEF Execute, Waiting, ShapeOf, Runs
    <2> QED BY <1>6, <2>1, <2>3, <2>6, OneRun DEF Execute, EvidenceTypeOK
  <1>7. ASSUME NEW s \in Sensors, Settle(r, s) PROVE Types'
    <2>1. run[r].plan[s] \in Digests /\ run[r].missed \subseteq Files
          /\ (CanCache(run[r].raw[s]) => run[r].raw[s].findings \subseteq Files)
      BY <1>r DEF Runs, ShapeOf, CanCache
    <2>2. Written(r, s) \subseteq EntryType BY <2>1 DEF Written
    <2>3. cache' \subseteq EntryType
      BY <1>7, <2>2 DEF Settle, EvidenceTypeOK
    <2>4. run' \in [Runners -> Runs] BY <1>7, <1>r DEF Settle, Runs, EvidenceTypeOK
    <2>5. Commits' = Commits /\ authored' = authored BY <1>7 DEF Settle, Commits, git
    <2>6. ShapeOf(r)' BY <1>7, <1>r, <2>5 DEF Settle, ShapeOf, EvidenceTypeOK, Runs
    <2> QED BY <1>7, <2>3, <2>4, <2>6, OneRun DEF Settle, EvidenceTypeOK
  <1>8. CASE Finish(r)
    <2>1. run' \in [Runners -> Runs] BY <1>8, <1>r, IdleShape DEF Finish, Runs, EvidenceTypeOK
    <2>2. Commits' = Commits /\ authored' = authored BY <1>8 DEF Finish, Commits, git
    <2>3. (run'[r] = [run[r] EXCEPT !.pc = "measured"] /\ run[r].pre # Nobody) \/ run'[r] = IdleRun
      BY <1>8 DEF Finish, EvidenceTypeOK
    <2>4. ShapeOf(r)'
      <3>1. CASE run'[r] = IdleRun BY <3>1, IdleFacts DEF ShapeOf
      <3>2. CASE run'[r] = [run[r] EXCEPT !.pc = "measured"] /\ run[r].pre # Nobody
        BY <1>r, <2>2, <3>2 DEF ShapeOf, Runs
      <3> QED BY <2>3, <3>1, <3>2
    <2> QED BY <1>8, <2>1, <2>4, OneRun DEF Finish, EvidenceTypeOK
  <1>9. CASE RecheckHead(r)
    <2>1. head \in Nat BY DEF EvidenceTypeOK, Commits
    <2>2. run' \in [Runners -> Runs] BY <1>9, <1>r, <2>1 DEF RecheckHead, Runs, EvidenceTypeOK
    <2>3. Commits' = Commits /\ authored' = authored BY <1>9 DEF RecheckHead, Commits, git
    <2>4. ShapeOf(r)' BY <1>9, <1>r, <2>3 DEF RecheckHead, ShapeOf, EvidenceTypeOK, Runs
    <2> QED BY <1>9, <2>2, <2>4, OneRun DEF RecheckHead, EvidenceTypeOK
  <1>10. CASE FinalizeReceipt(r)
    <2>1. run'[r] = IdleRun /\ run' \in [Runners -> Runs]
      BY <1>10, IdleShape DEF FinalizeReceipt, EvidenceTypeOK
    <2>2. Commits' = Commits /\ authored' = authored BY <1>10 DEF FinalizeReceipt, Commits, git
    <2>3. ShapeOf(r)' BY <2>1, IdleFacts DEF ShapeOf
    <2>4. run[r].pre # Nobody BY <1>10, <1>r DEF FinalizeReceipt, ShapeOf
    <2>5. [id |-> used.receipts + 1, overall |-> Verdict(r), status |-> Statuses(r),
           paths |-> MeasuredPaths(r), planned |-> run[r].planned, told |-> Told(r)] \in Receipts
      BY <1>r, <2>4, StatusesType, PathsType, ToldType DEF Receipts, EvidenceTypeOK, Runs
    <2>6. receipt' \in [1 .. MaxCommits -> Receipts] BY <1>10, <2>5 DEF FinalizeReceipt, EvidenceTypeOK
    <2>7. used' \in UsedType
      <3>1. used \in UsedType BY DEF EvidenceTypeOK
      <3>2. used' = used \/ used' = [used EXCEPT !.receipts = @ + 1] BY <1>10 DEF FinalizeReceipt
      <3> QED BY <3>1, <3>2
    <2> QED BY <1>10, <2>1, <2>3, <2>6, <2>7, OneRun DEF FinalizeReceipt, EvidenceTypeOK
  <1>11. CASE Interrupt(r)
    <2>1. run'[r] = IdleRun /\ run' \in [Runners -> Runs]
      BY <1>11, IdleShape DEF Interrupt, EvidenceTypeOK
    <2>2. Commits' = Commits /\ authored' = authored BY <1>11 DEF Interrupt, Commits, git
    <2>3. ShapeOf(r)' BY <2>1, IdleFacts DEF ShapeOf
    <2> QED BY <1>11, <2>1, <2>3, OneRun DEF Interrupt, EvidenceTypeOK
  <1> QED
    BY <1>1, <1>2, <1>3, <1>4, <1>5, <1>6, <1>7, <1>8, <1>9, <1>10, <1>11 DEF Sensing

\* What the developer does changes nothing of a run but its history.
Seen(r, fs, h) ==
  IF Active(r) THEN [run[r] EXCEPT !.touched = @ \cup fs, !.missed = @ \cup (fs \cap run[r].touched),
                                   !.moved = @ \/ (h # head /\ (run[r].pc = "rechecking" \/ run[r].pre = h))]
  ELSE run[r]

LEMMA Witnessed ==
  ASSUME Types, NEW fs \in SUBSET Files, NEW h \in Nat, Witness(fs, h)
  PROVE  run' \in [Runners -> Runs] /\ \A r \in Runners : run'[r] = Seen(r, fs, h)
  <1>1. ASSUME NEW r \in Runners PROVE Seen(r, fs, h) \in Runs
    <2>1. run[r] \in Runs BY DEF Types, EvidenceTypeOK
    <2>2. run[r].moved \in BOOLEAN BY <2>1 DEF Runs
    <2>3. (run[r].moved \/ (h # head /\ (run[r].pc = "rechecking" \/ run[r].pre = h))) \in BOOLEAN
      OBVIOUS
    <2> QED BY <2>1, <2>3 DEF Seen, Runs
  <1>2. run' = [r \in Runners |-> Seen(r, fs, h)] BY DEF Witness, Seen
  <1> QED BY <1>1, <1>2

LEMMA WitnessedShape ==
  ASSUME Types, NEW fs \in SUBSET Files, NEW h \in Nat, Witness(fs, h), Commits \subseteq Commits',
         authored' = authored
  PROVE  RunShape'
  <1> SUFFICES ASSUME NEW r \in Runners PROVE ShapeOf(r)' BY DEF RunShape
  <1>1. run'[r] = Seen(r, fs, h) BY Witnessed
  <1>2. run[r] \in Runs /\ ShapeOf(r) BY DEF Types, RunShape, EvidenceTypeOK
  <1>3. CASE Active(r)
    <2>1. /\ run'[r].pc = run[r].pc /\ run'[r].flag = run[r].flag /\ run'[r].pre = run[r].pre
          /\ run'[r].sel = run[r].sel /\ run'[r].planned = run[r].planned /\ run'[r].raw = run[r].raw
          /\ run'[r].settled = run[r].settled
      BY <1>1, <1>2, <1>3 DEF Seen, Runs
    <2> QED BY <1>2, <1>3, <2>1 DEF ShapeOf, Active
  <1>4. CASE ~Active(r) BY <1>1, <1>2, <1>4 DEF Seen, ShapeOf
  <1> QED BY <1>3, <1>4

LEMMA DeveloperTypes ==
  ASSUME Types, Developer
  PROVE  Types'
  <1> USE DEF Types
  <1>1. ASSUME NEW f \in Files, NEW c \in Content(f), Edit(f, c) PROVE Types'
    <2>1. c \in Values BY DEF Values
    <2>2. tree' \in Trees BY <1>1, <2>1 DEF Edit, EvidenceTypeOK, Trees
    <2>3. Commits' = Commits /\ authored' = authored BY <1>1 DEF Edit, Commits
    <2>0. head \in Nat BY DEF EvidenceTypeOK, Commits
    <2>4. run' \in [Runners -> Runs] /\ RunShape' BY <1>1, <2>0, <2>3, Witnessed, WitnessedShape DEF Edit
    <2>5. used' \in UsedType BY <1>1 DEF Edit, Use, EvidenceTypeOK
    <2>6. CmdShape' BY <1>1, <2>3 DEF Edit, CmdShape
    <2> QED BY <1>1, <2>2, <2>3, <2>4, <2>5, <2>6 DEF Edit, EvidenceTypeOK
  <1>2. CASE Narrate
    <2>1. record' \in Records BY <1>2 DEF Narrate, EvidenceTypeOK, Records
    <2>2. Commits' = Commits /\ authored' = authored BY <1>2 DEF Narrate, Commits
    <2>3. used' \in UsedType BY <1>2 DEF Narrate, EvidenceTypeOK
    <2>4. RunShape' /\ CmdShape' BY <1>2, <2>2 DEF Narrate, RunShape, ShapeOf, CmdShape
    <2> QED BY <1>2, <2>1, <2>2, <2>3, <2>4 DEF Narrate, EvidenceTypeOK
  <1>3. CASE CommitAll
    <2>1. /\ commit' \in Seq(CommitType) /\ Len(commit') = Len(commit) + 1
          /\ head' = Len(commit) + 1 /\ Len(commit) \in Nat
          /\ \A c \in Commits : commit'[c] = commit[c]
          /\ commit'[head'].anc = commit[head].anc \cup {head'}
      BY <1>3, Committed
    <2>2. Commits \subseteq Commits' /\ head' \in Commits' /\ Commits' = Commits \cup {head'}
          /\ Len(commit') <= MaxCommits
      BY <1>3, <2>1, BoundsAssumption DEF Commits, CommitAll
    <2>3. ASSUME NEW c \in Commits' PROVE commit'[c].anc \subseteq 1 .. c
      <3>1. CASE c \in Commits BY <3>1, <2>1 DEF EvidenceTypeOK
      <3>2. CASE c = head'
        <4>1. commit[head].anc \subseteq 1 .. head /\ head \in 1 .. Len(commit)
          BY DEF EvidenceTypeOK, Commits
        <4> QED BY <3>2, <4>1, <2>1
      <3> QED BY <3>1, <3>2, <2>2
    <2>4. Witness({}, head') /\ head' \in Nat /\ authored' = authored BY <1>3, <2>1 DEF CommitAll
    <2>5. run' \in [Runners -> Runs] /\ RunShape' BY <2>2, <2>4, Witnessed, WitnessedShape
    <2>6. CmdShape' BY <1>3, <2>2 DEF CommitAll, CmdShape
    <2> QED BY <1>3, <2>1, <2>2, <2>3, <2>5, <2>6 DEF CommitAll, EvidenceTypeOK, CommitType
  <1>4. ASSUME NEW c \in Commits, Checkout(c) PROVE Types'
    <2>1. commit[c] \in CommitType
      <3>1. commit \in Seq(CommitType) BY DEF EvidenceTypeOK, CommitType
      <3> QED BY <3>1 DEF Commits
    <2>2. tree' \in Trees /\ record' \in Records BY <1>4, <2>1 DEF Checkout, CommitType
    <2>3. Commits' = Commits /\ authored' = authored /\ head' \in Commits BY <1>4 DEF Checkout, Commits
    <2> DEFINE moved == {f \in Files : tree[f] # commit[c].tree[f]}
    <2>4. moved \in SUBSET Files /\ Witness(moved, c) /\ c \in Nat BY <1>4 DEF Checkout, Commits
    <2>5. run' \in [Runners -> Runs] /\ RunShape' BY <2>3, <2>4, Witnessed, WitnessedShape
    <2>6. used' \in UsedType BY <1>4 DEF Checkout, Use, EvidenceTypeOK
    <2>7. CmdShape' BY <1>4, <2>3 DEF Checkout, CmdShape
    <2> QED BY <1>4, <2>2, <2>3, <2>5, <2>6, <2>7 DEF Checkout, EvidenceTypeOK
  <1> QED BY <1>1, <1>2, <1>3, <1>4 DEF Developer

\* A step of `awm change`: the runs, the tree and the commits are as they were.
LEMMA OneCmd ==
  ASSUME Types, UNCHANGED <<authored, tree, commit, head, cache, receipt, run>>,
         record' \in Records, cmd' \in Cmds, report' \in ReportType,
         used' \in UsedType, CmdShape'
  PROVE  Types'
  <1>1. Commits' = Commits BY DEF Commits
  <1>2. EvidenceTypeOK' BY <1>1 DEF Types, EvidenceTypeOK
  <1>3. RunShape' BY <1>1 DEF Types, RunShape, ShapeOf
  <1> QED BY <1>2, <1>3 DEF Types

LEMMA IdleCmdShape == IdleCmd \in Cmds /\ IdleCmd.op = "none" /\ Invalid \in ReportType
  <1>1. NoReceipt.told \in [Sensors -> SUBSET Files] BY DEF NoReceipt
  <1> QED BY <1>1 DEF IdleCmd, Cmds, NoRecord, Records, Overalls, Nobody, Invalid

LEMMA VerdictsTypes ==
  ASSUME Types, NEW valid \in BOOLEAN, Verdicts(valid)
  PROVE  cmd' \in Cmds /\ report' \in ReportType /\ CmdShape'
  <1>1. cmd \in Cmds BY DEF Types, EvidenceTypeOK
  <1>2. cmd.head \in Nat /\ cmd.strict \in BOOLEAN /\ cmd.rec.commit \in Nat
        /\ cmd.told \in [Sensors -> SUBSET Files]
    BY <1>1 DEF Cmds, Records
  <1>3. report' \in ReportType BY <1>2, IdleCmdShape DEF Verdicts
  <1>4. cmd' = IdleCmd BY DEF Verdicts
  <1> QED BY <1>3, <1>4, IdleCmdShape DEF CmdShape

LEMMA ChangingTypes ==
  ASSUME Types, Changing
  PROVE  Types'
  <1> USE DEF Types
  <1>c. cmd \in Cmds /\ CmdShape /\ record \in Records /\ report \in ReportType
        /\ used \in UsedType
    BY DEF EvidenceTypeOK
  <1>i. Refused => cmd' \in Cmds /\ CmdShape' BY IdleCmdShape DEF Refused, CmdShape
  <1>1. ASSUME NEW op \in {"new", "refresh", "validate"}, NEW strict \in BOOLEAN, Pin(op, strict)
        PROVE  Types'
    <2>1. head \in Nat /\ head \in Commits BY DEF EvidenceTypeOK, Commits
    <2>2. cmd' \in Cmds BY <1>1, <1>c, <2>1 DEF Pin, Cmds
    <2>3. used' \in UsedType BY <1>1, <1>c DEF Pin, Use
    <2>4. Commits' = Commits BY <1>1 DEF Pin, git, Commits
    <2>5. CmdShape' BY <1>1, <1>c, <2>1, <2>4 DEF Pin, CmdShape, Cmds
    <2> QED BY <1>1, <1>c, <2>2, <2>3, <2>5, OneCmd DEF Pin, git
  <1>k. ASSUME NEW op \in {"new", "refresh"}, NEW from, NEW to \in {"derived", "sure"},
               CheckHead(op, from, to)
        PROVE  Types'
    <2>1. Commits' = Commits BY <1>k DEF CheckHead, git, Commits
    <2>2. cmd' \in Cmds /\ CmdShape' BY <1>k, <1>c, <1>i, <2>1 DEF CheckHead, At, CmdShape, Cmds
    <2> QED BY <1>k, <1>c, <2>2, OneCmd DEF CheckHead, git
  <1>l. CASE CheckClean
    <2>1. Commits' = Commits BY <1>l DEF CheckClean, git, Commits
    <2>2. cmd' \in Cmds /\ CmdShape' BY <1>l, <1>c, <1>i, <2>1 DEF CheckClean, CmdShape, Cmds
    <2> QED BY <1>l, <1>c, <2>2, OneCmd DEF CheckClean, git
  <1>2. CASE Vouch
    <2>1. cmd.head \in 1 .. MaxCommits BY <1>2, <1>c, BoundsAssumption DEF Vouch, CmdShape, Commits, EvidenceTypeOK
    <2>2. receipt[cmd.head] \in Receipts BY <2>1 DEF EvidenceTypeOK
    <2>3. Commits' = Commits BY <1>2 DEF Vouch, git, Commits
    <2>4. cmd' \in Cmds /\ CmdShape'
      <3>1. CASE Refused BY <3>1, <1>i
      <3>2. CASE cmd' = [cmd EXCEPT !.pc = "vouched",
                               !.ver = [commit |-> cmd.head, overall |-> receipt[cmd.head].overall,
                                        digest |-> receipt[cmd.head].id]]
        <4>1. [commit |-> cmd.head, overall |-> receipt[cmd.head].overall,
               digest |-> receipt[cmd.head].id] \in [commit : Nat, overall : Overalls, digest : Nat]
          BY <2>1, <2>2 DEF Receipts
        <4>2. cmd' \in Cmds BY <3>2, <4>1, <1>c DEF Cmds
        <4>3. CmdShape' BY <3>2, <1>2, <1>c, <2>3 DEF CmdShape, Vouch, Cmds
        <4> QED BY <4>2, <4>3
      <3> QED BY <1>2, <3>1, <3>2 DEF Vouch
    <2> QED BY <1>2, <1>c, <2>4, OneCmd DEF Vouch, git
  <1>3. CASE CreateRecord
    <2>1. Derived(cmd.head) \subseteq {Module[f] : f \in Files} BY DEF Derived
    <2>2. record' \in Records BY <1>3, <1>c, <2>1 DEF CreateRecord, Records, Cmds
    <2>3. cmd' \in Cmds /\ CmdShape' BY <1>3, IdleCmdShape DEF CreateRecord, CmdShape
    <2> QED BY <1>3, <1>c, <2>2, <2>3, OneCmd DEF CreateRecord
  <1>4. CASE ReadToRefresh
    <2>1. Commits' = Commits BY <1>4 DEF ReadToRefresh, git, Commits
    <2>2. cmd' \in Cmds /\ CmdShape'
      BY <1>4, <1>c, <1>i, <2>1 DEF ReadToRefresh, At, CmdShape, Cmds
    <2> QED BY <1>4, <1>c, <2>2, OneCmd DEF ReadToRefresh, git
  <1>5. CASE CheckUnchanged
    <2>1. Commits' = Commits BY <1>5 DEF CheckUnchanged, git, Commits
    <2>2. cmd' \in Cmds /\ CmdShape'
      BY <1>5, <1>c, <1>i, <2>1 DEF CheckUnchanged, At, CmdShape, Cmds
    <2> QED BY <1>5, <1>c, <2>2, OneCmd DEF CheckUnchanged, git
  <1>6. CASE ReplaceRecord
    <2>1. Derived(cmd.head) \subseteq {Module[f] : f \in Files} BY DEF Derived
    <2>2. record' \in Records BY <1>6, <1>c, <2>1 DEF ReplaceRecord, Records, Cmds
    <2>3. cmd' \in Cmds /\ CmdShape' BY <1>6, IdleCmdShape DEF ReplaceRecord, CmdShape
    <2> QED BY <1>6, <1>c, <2>2, <2>3, OneCmd DEF ReplaceRecord
  <1>7. CASE CheckRecord
    <2>1. Commits' = Commits BY <1>7 DEF CheckRecord, git, Commits
    <2>2. CASE Verdicts(FALSE) BY <1>7, <1>c, <2>2, VerdictsTypes, OneCmd DEF CheckRecord, git
    <2>3. CASE ~Verdicts(FALSE)
      <3>1. /\ cmd' = [cmd EXCEPT !.pc = "read", !.rec = record] /\ UNCHANGED report
            /\ record.commit \in commit[cmd.head].anc /\ cmd.head \in Commits
        BY <1>7, <2>3, <1>c DEF CheckRecord, At, CmdShape
      <3>2. record.commit \in Commits
        <4>1. commit[cmd.head].anc \subseteq 1 .. cmd.head BY <3>1 DEF EvidenceTypeOK
        <4>2. Len(commit) \in Nat BY DEF EvidenceTypeOK
        <4> QED BY <3>1, <4>1, <4>2 DEF Commits
      <3>3. cmd' \in Cmds /\ CmdShape' BY <1>7, <1>c, <2>1, <3>1, <3>2 DEF CmdShape, Cmds
      <3> QED BY <1>7, <1>c, <3>1, <3>3, OneCmd DEF CheckRecord, git
    <2> QED BY <2>2, <2>3
  <1>8. CASE CheckLate
    <2>1. Commits' = Commits BY <1>8 DEF CheckLate, git, Commits
    <2>2. CASE Verdicts(FALSE) BY <1>8, <1>c, <2>2, VerdictsTypes, OneCmd DEF CheckLate, git
    <2>3. CASE ~Verdicts(FALSE)
      <3>0. /\ UNCHANGED report /\ cmd.op = "validate" /\ cmd.pc = "read"
            /\ cmd' = [cmd EXCEPT !.pc = IF cmd.strict THEN "late" ELSE "checked"]
        BY <1>8, <2>3 DEF CheckLate, At
      <3>1. cmd' \in Cmds /\ CmdShape' /\ UNCHANGED report
        BY <1>c, <2>1, <3>0 DEF CmdShape, Cmds
      <3> QED BY <1>8, <1>c, <3>1, OneCmd DEF CheckLate, git
    <2> QED BY <2>2, <2>3
  <1>9. CASE CheckReceipt
    <2>1. Commits' = Commits BY <1>9 DEF CheckReceipt, git, Commits
    <2>2. CASE Verdicts(FALSE) BY <1>9, <1>c, <2>2, VerdictsTypes, OneCmd DEF CheckReceipt, git
    <2>3. CASE ~Verdicts(FALSE)
      <3>0. /\ UNCHANGED report /\ cmd.op = "validate" /\ cmd.pc = "late"
            /\ cmd' = [cmd EXCEPT !.pc = "checked", !.told = receipt[cmd.rec.commit].told]
        BY <1>9, <2>3 DEF CheckReceipt, At
      <3>1. cmd.rec.commit \in 1 .. MaxCommits
        BY <1>c, <3>0, BoundsAssumption DEF CmdShape, Commits, EvidenceTypeOK
      <3>2. receipt[cmd.rec.commit].told \in [Sensors -> SUBSET Files]
        BY <3>1 DEF EvidenceTypeOK, Receipts
      <3>3. cmd' \in Cmds /\ CmdShape' /\ UNCHANGED report
        BY <1>c, <2>1, <3>0, <3>2 DEF CmdShape, Cmds
      <3> QED BY <1>9, <1>c, <3>3, OneCmd DEF CheckReceipt, git
    <2> QED BY <2>2, <2>3
  <1>10. CASE Conclude
    <2>1. (~HeadMoved) \in BOOLEAN BY DEF HeadMoved
    <2>2. cmd' \in Cmds /\ report' \in ReportType /\ CmdShape'
      BY <1>10, <2>1, VerdictsTypes DEF Conclude
    <2> QED BY <1>10, <1>c, <2>2, OneCmd DEF Conclude, git
  <1> QED
    BY <1>1, <1>k, <1>l, <1>2, <1>3, <1>4, <1>5, <1>6, <1>7, <1>8, <1>9, <1>10 DEF Changing

LEMMA NextTypes == Types /\ [Next]_vars => Types'
  <1>1. ASSUME Types, Next PROVE Types'
    BY <1>1, DeveloperTypes, SensingTypes, ChangingTypes DEF Next
  <1>2. ASSUME Types, UNCHANGED vars PROVE Types'
    <2>1. Commits' = Commits BY <1>2 DEF vars, Commits
    <2> QED
      BY <1>2, <2>1 DEF vars, Types, EvidenceTypeOK, RunShape, ShapeOf, CmdShape
  <1> QED BY <1>1, <1>2

LEMMA InitShape == Init => Types
  <1> SUFFICES ASSUME Init PROVE Types OBVIOUS
  <1>1. EvidenceTypeOK BY InitTypes
  <1>2. RunShape BY IdleFacts DEF Init, RunShape, ShapeOf
  <1>3. CmdShape BY DEF Init, CmdShape, IdleCmd
  <1> QED BY <1>1, <1>2, <1>3 DEF Types

\* The types hold, whatever happens.
THEOREM TypesHold == Spec => []EvidenceTypeOK
  <1>1. Types => EvidenceTypeOK BY DEF Types
  <1> QED BY InitShape, NextTypes, <1>1, PTL DEF Spec

(***************************************************************************)
(* The inductive invariant. What a run knows of a file stays true of it    *)
(* while the file is as it was, and becomes void, not false, when the file *)
(* is changed once; of a file changed twice (`missed`), and of one a       *)
(* cached result may misjudge (`doubt`), nothing is claimed.               *)
(***************************************************************************)
Planned(r) == run[r].pc \in {"running", "measured", "rechecking"}

\* The files a result of a run tells of.
Tells(r, s, f) == f \notin run[r].missed \cup run[r].raw[s].doubt

\* The digests of a run, and what its results say of the files of a digest.
PlanOf(r) ==
  /\ Planned(r) => \A s \in run[r].planned :
        /\ DOMAIN run[r].plan[s] = Inputs(s)
        /\ \A f \in Inputs(s) : run[r].plan[s][f] # Hash(tree[f]) => f \in run[r].touched
  /\ run[r].flag # "changed" => \A s \in run[r].planned : run[r].raw[s].kind = "ran" =>
        \A f \in Inputs(s) :
           Tells(r, s, f) /\ run[r].plan[s][f] = Hash(tree[f]) /\ run[r].plan[s][f] # Marker
              => (f \in run[r].raw[s].findings <=> tree[f] \in Bad)

\* The files of a full run that may leave a receipt, while HEAD is its commit
\* and has been all along.
OnCommit(r) ==
  run[r].pre # Nobody /\ run[r].pc \notin {"idle", "begun"} /\ head = run[r].pre /\ ~run[r].moved
AsCommitted(r, f) == tree[f] = commit[run[r].pre].tree[f]
HeadOf(r) ==
  /\ run[r].pc = "rechecking" /\ ~run[r].moved => run[r].seen = head
  /\ OnCommit(r) =>
       /\ \A f \in Files : AsCommitted(r, f) \/ f \in run[r].touched
       /\ run[r].pc # "started" /\ Baseline \notin run[r].missed /\ AsCommitted(r, Baseline)
             => run[r].base = tree[Baseline]
       /\ Planned(r) => \A s \in run[r].planned : \A f \in Inputs(s) :
             f \notin run[r].missed /\ AsCommitted(r, f) => run[r].plan[s][f] = Hash(tree[f])
       /\ \A s \in Sensors : run[r].raw[s].kind = "ran" => \A f \in Reads(s) :
             Tells(r, s, f) /\ AsCommitted(r, f) => (f \in run[r].raw[s].findings <=> tree[f] \in Bad)

\* The findings of a sensor on a commit, as far as it was told of them, are accepted there.
Truthful(s, c, told) == Findings(s, commit[c].tree) \cap told \subseteq Accepted(s, commit[c].tree[Baseline])

\* A receipt tells the truth about its commit and knows what it has measured.
ReceiptOf(c) ==
  receipt[c] # NoReceipt =>
    /\ c \in Commits
    /\ \A s \in Sensors : receipt[c].status[s] = "pass" => Truthful(s, c, receipt[c].told[s])
    /\ receipt[c].overall = "pass" => \A s \in Sensors : receipt[c].status[s] = "pass"
    /\ receipt[c].planned \subseteq authored
    /\ Baseline \in receipt[c].paths
    /\ \A s \in receipt[c].planned : Always[s] \subseteq receipt[c].paths

\* Two commits agree on all that the sensors read and on the baseline.
Agree(c, h) == \A s \in Sensors : \A f \in Reads(s) \cup {Baseline} : commit[c].tree[f] = commit[h].tree[f]

\* What a strict validation has established at each of its steps.
CmdOf ==
  cmd.op = "validate" /\ cmd.strict =>
    /\ cmd.pc \in {"late", "checked"} => Agree(cmd.rec.commit, cmd.head)
    /\ cmd.pc = "checked" => \A s \in Sensors : Truthful(s, cmd.head, cmd.told[s])
ReportOf ==
  report.strict =>
    /\ report.head \in Commits /\ report.cited \in Commits /\ Agree(report.cited, report.head)
    /\ \A s \in Sensors : Truthful(s, report.head, report.told[s])

RunsAreTrue == \A r \in Runners : PlanOf(r) /\ HeadOf(r)
ReceiptsAreTrue == \A c \in 1 .. MaxCommits : ReceiptOf(c)
Evidence == CacheIsTrue /\ RunsAreTrue /\ ReceiptsAreTrue /\ CmdOf /\ ReportOf

(***************************************************************************)
(* What the developer may do to a run that is active.                      *)
(***************************************************************************)
Same(r) ==
  /\ run[r].pc' = run[r].pc /\ run[r].flag' = run[r].flag /\ run[r].pre' = run[r].pre
  /\ run[r].base' = run[r].base /\ run[r].planned' = run[r].planned /\ run[r].plan' = run[r].plan
  /\ run[r].raw' = run[r].raw /\ run[r].seen' = run[r].seen
  /\ run[r].touched \subseteq run[r].touched' /\ run[r].missed \subseteq run[r].missed'
  /\ run[r].moved => run[r].moved'

LEMMA WitnessedSame ==
  ASSUME Types, NEW fs \in SUBSET Files, NEW h \in Nat, Witness(fs, h), NEW r \in Runners
  PROVE  /\ Same(r)
         /\ Active(r) => /\ \A f \in fs : f \in run[r].touched' /\ (f \in run[r].touched => f \in run[r].missed')
                         /\ h # head /\ ~run[r].moved' => h # run[r].pre /\ run[r].pc # "rechecking"
  <1>1. run'[r] = Seen(r, fs, h) BY Witnessed
  <1>2. run[r] \in Runs BY DEF Types, EvidenceTypeOK
  <1>3. CASE Active(r)
    <2>1. /\ run'[r].pc = run[r].pc /\ run'[r].flag = run[r].flag /\ run'[r].pre = run[r].pre
          /\ run'[r].base = run[r].base /\ run'[r].planned = run[r].planned
          /\ run'[r].plan = run[r].plan /\ run'[r].raw = run[r].raw /\ run'[r].seen = run[r].seen
      BY <1>1, <1>2, <1>3 DEF Seen, Runs
    <2>2. /\ run'[r].touched = run[r].touched \cup fs
          /\ run'[r].missed = run[r].missed \cup (fs \cap run[r].touched)
      BY <1>1, <1>2, <1>3 DEF Seen, Runs
    <2>3. run'[r].moved = (run[r].moved \/ (h # head /\ (run[r].pc = "rechecking" \/ run[r].pre = h)))
      BY <1>1, <1>2, <1>3 DEF Seen, Runs
    <2>4. run[r].moved \in BOOLEAN BY <1>2 DEF Runs
    <2>5. run[r].moved => run'[r].moved BY <2>3
    <2>6. h # head /\ ~run'[r].moved => h # run[r].pre /\ run[r].pc # "rechecking" BY <2>3
    <2> QED BY <2>1, <2>2, <2>5, <2>6 DEF Same
  <1>4. CASE ~Active(r) BY <1>1, <1>2, <1>4 DEF Same, Seen
  <1> QED BY <1>3, <1>4

\* A file that changes is touched, and missed when it was touched before; HEAD does
\* not move unseen under a recheck nor return to the commit of a run.
Moved(r) ==
  Active(r) =>
    /\ \A f \in Files : tree'[f] # tree[f] =>
          f \in run[r].touched' /\ (f \in run[r].touched => f \in run[r].missed')
    /\ head' # head /\ ~run[r].moved' => head' # run[r].pre /\ run[r].pc # "rechecking"

LEMMA Moves ==
  ASSUME Types, Developer, NEW r \in Runners
  PROVE  /\ UNCHANGED <<authored, cache, receipt, cmd, report>>
         /\ Same(r) /\ Moved(r)
         /\ Commits \subseteq Commits' /\ \A c \in Commits : commit'[c] = commit[c]
  <1> USE DEF Types
  <1>t. tree \in [Files -> Values] /\ run[r] \in Runs /\ head \in Nat
    BY DEF EvidenceTypeOK, Trees, Commits
  <1>1. ASSUME NEW f \in Files, NEW c \in Content(f), Edit(f, c)
        PROVE  UNCHANGED <<authored, commit, head, cache, receipt, cmd, report>> /\ Same(r) /\ Moved(r)
    <2>1. Witness({f}, head) /\ {f} \in SUBSET Files BY <1>1 DEF Edit
    <2>2. \A g \in Files : tree'[g] # tree[g] => g = f BY <1>1, <1>t DEF Edit
    <2>3. head' = head BY <1>1 DEF Edit
    <2> QED BY <1>1, <1>t, <2>1, <2>2, <2>3, WitnessedSame DEF Edit, Moved
  <1>2. CASE Narrate BY <1>2, <1>t DEF Narrate, Same, Moved, Commits
  <1>3. CASE CommitAll
    <2>1. /\ Len(commit') = Len(commit) + 1 /\ head' = Len(commit) + 1 /\ Len(commit) \in Nat
          /\ \A c \in Commits : commit'[c] = commit[c]
      BY <1>3, Committed
    <2>2. Commits \subseteq Commits' BY <2>1 DEF Commits
    <2>3. Witness({}, head') /\ head' \in Nat /\ tree' = tree BY <1>3, <2>1 DEF CommitAll
    <2>4. Same(r) /\ (Active(r) => (head' # head /\ ~run[r].moved' => head' # run[r].pre /\ run[r].pc # "rechecking"))
      <3> DEFINE h == Len(commit) + 1
      <3>1. h \in Nat /\ Witness({}, h) /\ head' = h BY <2>1, <2>3
      <3> HIDE DEF h
      <3> QED BY <3>1, WitnessedSame
    <2> QED BY <1>3, <2>1, <2>2, <2>3, <2>4 DEF CommitAll, Moved
  <1>4. ASSUME NEW c \in Commits, Checkout(c)
        PROVE  UNCHANGED <<authored, commit, cache, receipt, cmd, report>> /\ Same(r) /\ Moved(r)
    <2> DEFINE moved == {f \in Files : tree[f] # commit[c].tree[f]}
    <2>1. moved \in SUBSET Files /\ Witness(moved, c) /\ c \in Nat /\ head' = c BY <1>4 DEF Checkout, Commits
    <2>2. \A f \in Files : tree'[f] # tree[f] => f \in moved BY <1>4 DEF Checkout
    <2> HIDE DEF moved
    <2> QED BY <1>4, <2>1, <2>2, WitnessedSame DEF Checkout, Moved
  <1> QED BY <1>1, <1>2, <1>3, <1>4 DEF Developer, Commits

LEMMA TruthStays ==
  ASSUME authored' = authored, NEW s, NEW c, commit'[c] = commit[c], NEW told
  PROVE  Truthful(s, c, told)' <=> Truthful(s, c, told)
  BY DEF Truthful, Findings, Reads

\* Conclusions and receipts outlive a change of the tree and new commits.
LEMMA VerdictsStay ==
  ASSUME Types, CmdOf, ReportOf, UNCHANGED <<authored, cmd, report>>,
         Commits \subseteq Commits', \A c \in Commits : commit'[c] = commit[c]
  PROVE  CmdOf' /\ ReportOf'
  <1>1. CmdOf'
    <2> SUFFICES ASSUME cmd.op = "validate", cmd.strict
                 PROVE  /\ cmd.pc \in {"late", "checked"} => Agree(cmd.rec.commit, cmd.head)'
                        /\ cmd.pc = "checked" => \A s \in Sensors : Truthful(s, cmd.head, cmd.told[s])'
      BY DEF CmdOf
    <2>1. cmd.head \in Commits BY DEF Types, CmdShape
    <2>2. cmd.pc \in {"late", "checked"} => cmd.rec.commit \in Commits BY DEF Types, CmdShape
    <2>3. cmd.pc \in {"late", "checked"} => Agree(cmd.rec.commit, cmd.head)'
      BY <2>1, <2>2 DEF CmdOf, Agree, Reads
    <2>4. cmd.pc = "checked" => \A s \in Sensors : Truthful(s, cmd.head, cmd.told[s])'
      BY <2>1 DEF CmdOf, Truthful, Findings, Reads
    <2> QED BY <2>3, <2>4
  <1>2. ReportOf' BY DEF ReportOf, Agree, Truthful, Findings, Reads
  <1> QED BY <1>1, <1>2

LEMMA ConclusionsStay ==
  ASSUME Types, ReceiptsAreTrue, CmdOf, ReportOf, UNCHANGED <<authored, receipt, cmd, report>>,
         Commits \subseteq Commits', \A c \in Commits : commit'[c] = commit[c]
  PROVE  ReceiptsAreTrue' /\ CmdOf' /\ ReportOf'
  <1>1. ASSUME NEW c \in 1 .. MaxCommits PROVE ReceiptOf(c)'
    <2>1. CASE receipt[c] = NoReceipt BY <2>1 DEF ReceiptOf, NoReceipt
    <2>2. CASE receipt[c] # NoReceipt
      <3>1. ReceiptOf(c) /\ c \in Commits BY <2>2 DEF ReceiptOf, ReceiptsAreTrue
      <3>2. commit'[c] = commit[c] /\ c \in Commits' BY <3>1
      <3>3. \A s, told : Truthful(s, c, told)' <=> Truthful(s, c, told) BY <3>2, TruthStays
      <3>4. \A s \in Sensors : receipt[c].status[s] = "pass" => Truthful(s, c, receipt[c].told[s])'
        BY <2>2, <3>1, <3>2 DEF ReceiptOf, Truthful, Findings, Reads
      <3> QED BY <2>2, <3>1, <3>2, <3>4 DEF ReceiptOf
    <2> QED BY <2>1, <2>2
  <1>2. ReceiptsAreTrue' BY <1>1 DEF ReceiptsAreTrue
  <1> QED BY <1>2, VerdictsStay

\* Results are there only after the digests.
LEMMA RanPlanned ==
  ASSUME Types, NEW r \in Runners, NEW s \in Sensors, run[r].raw[s].kind = "ran"
  PROVE  Planned(r) /\ Active(r)
  <1>1. run[r] \in Runs /\ ShapeOf(r) BY DEF Types, EvidenceTypeOK, RunShape
  <1> QED BY <1>1, IdleFacts DEF ShapeOf, Planned, Active, Runs

LEMMA DeveloperEvidence ==
  ASSUME Types, Evidence, Developer
  PROVE  Evidence'
  <1>i. \A s \in Sensors : Inputs(s) \subseteq Files /\ Reads(s) \subseteq Files /\ Reads(s)' = Reads(s)
    <2>1. \A s \in Sensors : Inputs(s) \subseteq Files BY FilesAssumption DEF Inputs
    <2>2. authored' = authored BY DEF Developer, Edit, Narrate, CommitAll, Checkout
    <2>3. \A s : Reads(s)' = Reads(s) BY <2>2 DEF Reads
    <2> QED BY <2>1, <2>3, ReadsType
  <1>1. ASSUME NEW r \in Runners, Active(r) PROVE PlanOf(r)' /\ HeadOf(r)'
    <2>0. run[r] \in Runs /\ ShapeOf(r) BY DEF Types, EvidenceTypeOK, RunShape
    <2>1. Same(r) /\ \A c \in Commits : commit'[c] = commit[c] BY Moves
    <2>2. \A f \in Files : tree'[f] # tree[f] =>
             f \in run'[r].touched /\ (f \in run[r].touched => f \in run'[r].missed)
      BY <1>1, Moves DEF Moved
    <2>3. head' # head /\ ~run'[r].moved => head' # run[r].pre /\ run[r].pc # "rechecking"
      BY <1>1, Moves DEF Moved
    <2>5. PlanOf(r) /\ HeadOf(r) BY DEF Evidence, RunsAreTrue
    <2>6. ASSUME Planned(r)', NEW s \in run[r].planned'
          PROVE  /\ (DOMAIN run[r].plan[s] = Inputs(s))'
                 /\ \A f \in Inputs(s) : run'[r].plan[s][f] # Hash(tree'[f]) => f \in run'[r].touched
      <3>1. Planned(r) /\ s \in run[r].planned /\ s \in Sensors BY <2>0, <2>1, <2>6 DEF Planned, Same, Runs
      <3>2. DOMAIN run[r].plan[s] = Inputs(s)
            /\ \A f \in Inputs(s) : run[r].plan[s][f] # Hash(tree[f]) => f \in run[r].touched
        BY <2>5, <3>1 DEF PlanOf
      <3> QED BY <1>i, <2>1, <2>2, <3>1, <3>2 DEF Same
    <2>7. ASSUME run'[r].flag # "changed", NEW s \in run'[r].planned, run'[r].raw[s].kind = "ran",
                 NEW f \in Inputs(s), Tells(r, s, f)', run'[r].plan[s][f] = Hash(tree'[f]),
                 run'[r].plan[s][f] # Marker
          PROVE  f \in run'[r].raw[s].findings <=> tree'[f] \in Bad
      <3>1. /\ run[r].flag # "changed" /\ run[r].raw[s].kind = "ran" /\ s \in run[r].planned
            /\ s \in Sensors /\ f \in Files /\ f \notin run[r].missed /\ Tells(r, s, f)
            /\ run'[r].plan[s] = run[r].plan[s] /\ run'[r].raw = run[r].raw
        BY <1>i, <2>0, <2>1, <2>7 DEF Same, Tells, Runs
      <3>2. Planned(r) BY <3>1, RanPlanned
      <3>3. f \notin run[r].touched \/ tree'[f] = tree[f] BY <2>2, <2>7, <3>1 DEF Tells
      <3>4. f \notin run[r].touched => run[r].plan[s][f] = Hash(tree[f]) BY <2>5, <3>1, <3>2 DEF PlanOf
      <3>5. Hash(tree[f]) = Hash(tree'[f]) /\ Hash(tree'[f]) # Marker BY <2>7, <3>1, <3>3, <3>4
      <3>6. tree'[f] = tree[f] BY <3>5 DEF Hash
      <3> QED BY <2>5, <2>7, <3>1, <3>5, <3>6 DEF PlanOf
    <2>8. PlanOf(r)' BY <2>6, <2>7 DEF PlanOf
    <2>9. (run[r].pc = "rechecking" /\ ~run[r].moved => run[r].seen = head)' BY <2>1, <2>3, <2>5 DEF HeadOf, Same
    <2>10. ASSUME OnCommit(r)'
           PROVE  /\ head' = head /\ OnCommit(r) /\ commit'[run'[r].pre] = commit[run[r].pre]
                  /\ \A f \in Files : AsCommitted(r, f) \/ f \in run[r].touched
                  /\ \A f \in Files : f \notin run'[r].missed /\ AsCommitted(r, f)' =>
                        AsCommitted(r, f) /\ tree'[f] = tree[f] /\ f \notin run[r].missed
      <3>1. head' = head /\ OnCommit(r) BY <2>1, <2>3, <2>10 DEF OnCommit, Same
      <3>2. commit'[run'[r].pre] = commit[run[r].pre] BY <2>0, <2>1, <3>1 DEF OnCommit, ShapeOf, Same
      <3>3. \A f \in Files : AsCommitted(r, f) \/ f \in run[r].touched BY <2>5, <3>1 DEF HeadOf
      <3>4. \A f \in Files : f \notin run'[r].missed => f \notin run[r].missed BY <2>1 DEF Same
      <3> QED BY <2>2, <3>1, <3>2, <3>3, <3>4 DEF AsCommitted
    <2>11. ASSUME OnCommit(r)' PROVE \A f \in Files : AsCommitted(r, f)' \/ f \in run'[r].touched
      <3>1. \A f \in Files : tree'[f] = tree[f] \/ f \in run'[r].touched BY <2>2
      <3>2. run[r].touched \subseteq run'[r].touched BY <2>1 DEF Same
      <3> QED BY <2>10, <2>11, <3>1, <3>2 DEF AsCommitted
    <2>12. ASSUME OnCommit(r)', run'[r].pc # "started", Baseline \notin run'[r].missed, AsCommitted(r, Baseline)'
           PROVE  run'[r].base = tree'[Baseline]
      <3>1. OnCommit(r) /\ AsCommitted(r, Baseline) /\ tree'[Baseline] = tree[Baseline]
            /\ Baseline \notin run[r].missed
        BY <2>10, <2>12, FilesAssumption
      <3> QED BY <2>1, <2>5, <2>12, <3>1 DEF HeadOf, Same
    <2>13. ASSUME OnCommit(r)', Planned(r)', NEW s \in run'[r].planned, NEW f \in Inputs(s),
                  f \notin run'[r].missed, AsCommitted(r, f)'
           PROVE  run'[r].plan[s][f] = Hash(tree'[f])
      <3>1. s \in run[r].planned /\ Planned(r) /\ s \in Sensors BY <2>0, <2>1, <2>13 DEF Same, Planned, Runs
      <3>2. f \in Files BY <1>i, <3>1
      <3>3. OnCommit(r) /\ AsCommitted(r, f) /\ tree'[f] = tree[f] /\ f \notin run[r].missed
        BY <2>10, <2>13, <3>2
      <3>4. run[r].plan[s][f] = Hash(tree[f]) BY <2>5, <3>1, <3>3 DEF HeadOf
      <3> QED BY <2>1, <3>3, <3>4 DEF Same
    <2>14. ASSUME OnCommit(r)', NEW s \in Sensors, run'[r].raw[s].kind = "ran", NEW f \in Reads(s)',
                  Tells(r, s, f)', AsCommitted(r, f)'
           PROVE  f \in run'[r].raw[s].findings <=> tree'[f] \in Bad
      <3>1. f \in Reads(s) /\ f \in Files /\ run'[r].raw = run[r].raw BY <1>i, <2>1, <2>14 DEF Same
      <3>2. OnCommit(r) /\ AsCommitted(r, f) /\ tree'[f] = tree[f] /\ Tells(r, s, f)
        BY <2>10, <2>14, <3>1 DEF Tells
      <3>3. f \in run[r].raw[s].findings <=> tree[f] \in Bad BY <2>5, <2>14, <3>1, <3>2 DEF HeadOf
      <3> QED BY <3>1, <3>2, <3>3
    <2>15. HeadOf(r)' BY <2>9, <2>11, <2>12, <2>13, <2>14 DEF HeadOf
    <2> QED BY <2>8, <2>15
  <1>2. ASSUME NEW r \in Runners, ~Active(r) PROVE PlanOf(r)' /\ HeadOf(r)'
    <2>1. run[r] = IdleRun BY <1>2 DEF Types, RunShape, ShapeOf, Active
    <2>2. run'[r].pc = "idle" /\ run'[r].planned = {} /\ run'[r].raw = IdleRun.raw
      BY <2>1, IdleFacts, Moves DEF Same
    <2>3. \A s \in Sensors : run'[r].raw[s].kind # "ran" BY <2>2, IdleFacts
    <2> QED BY <2>2, <2>3 DEF PlanOf, HeadOf, Planned, OnCommit
  <1>3. RunsAreTrue' BY <1>1, <1>2 DEF RunsAreTrue
  <1>4. UNCHANGED <<authored, cache, receipt, cmd, report>>
    BY DEF Developer, Edit, Narrate, CommitAll, Checkout
  <1>5. Commits \subseteq Commits' /\ \A c \in Commits : commit'[c] = commit[c]
    <2>1. CASE CommitAll BY <2>1, Committed DEF Commits, Types
    <2>2. CASE ~CommitAll BY <2>2 DEF Developer, Edit, Narrate, Checkout, Commits
    <2> QED BY <2>1, <2>2
  <1>6. CacheIsTrue' BY <1>4 DEF Evidence, CacheIsTrue
  <1> QED BY <1>3, <1>4, <1>5, <1>6, ConclusionsStay DEF Evidence

(***************************************************************************)
(* The steps of a run.                                                     *)
(***************************************************************************)
LEMMA OtherRuns ==
  ASSUME Types, RunsAreTrue, UNCHANGED <<authored, git>>, NEW q \in Runners, run'[q] = run[q]
  PROVE  PlanOf(q)' /\ HeadOf(q)'
  <1>1. \A s : Reads(s)' = Reads(s) BY DEF Reads
  <1> QED
    BY <1>1 DEF RunsAreTrue, PlanOf, HeadOf, Planned, OnCommit, AsCommitted, Tells, git

\* What is left to show when a run has made a step that writes neither cache nor receipt.
LEMMA RunStep ==
  ASSUME Types, Evidence, NEW r \in Runners,
         UNCHANGED <<authored, git, cache, receipt, cmd, report>>,
         \A q \in Runners \ {r} : run'[q] = run[q], PlanOf(r)', HeadOf(r)'
  PROVE  Evidence'
  <1>1. RunsAreTrue' BY OtherRuns DEF Evidence, RunsAreTrue
  <1>2. Commits' = Commits /\ commit' = commit BY DEF git, Commits
  <1>3. CacheIsTrue' BY DEF Evidence, CacheIsTrue
  <1> QED BY <1>1, <1>2, <1>3, ConclusionsStay DEF Evidence

LEMMA IdleIsTrue ==
  ASSUME NEW r \in Runners, run[r] = IdleRun PROVE PlanOf(r) /\ HeadOf(r)
  <1>1. run[r].pc = "idle" /\ run[r].planned = {} BY IdleFacts
  <1>2. \A s \in Sensors : run[r].raw[s].kind # "ran" BY IdleFacts
  <1> QED BY <1>1, <1>2 DEF PlanOf, HeadOf, Planned, OnCommit

\* A run that has no results and no digests yet knows nothing that could be false.
LEMMA EarlyPlan ==
  ASSUME Types, NEW r \in Runners, run[r].pc \in {"begun", "started", "based"}
  PROVE  PlanOf(r) /\ (\A s \in Sensors : run[r].raw[s].kind # "ran") /\ ~Planned(r)
  <1>1. \A s \in Sensors : run[r].raw[s] = NoRaw BY DEF Types, RunShape, ShapeOf
  <1>2. \A s \in Sensors : run[r].raw[s].kind # "ran" BY <1>1, IdleFacts
  <1>3. run[r].planned \subseteq Sensors BY DEF Types, EvidenceTypeOK, Runs
  <1> QED BY <1>2, <1>3 DEF PlanOf, Planned, Tells

LEMMA BeginKeeps ==
  ASSUME Types, Types', Evidence, NEW r \in Runners, NEW flag \in Selections, NEW cached \in Caching,
         NEW sel \in SUBSET Sensors, Begin(r, flag, sel, cached)
  PROVE  Evidence'
  <1> DEFINE next == [IdleRun EXCEPT !.pc = IF flag = "full" THEN "begun" ELSE "started",
                                     !.flag = flag, !.sel = sel, !.cached = cached,
                                     !.pre = IF flag = "full" THEN head ELSE Nobody]
  <1>1. run' = [run EXCEPT ![r] = next] /\ run \in [Runners -> Runs] BY DEF Begin, Types, EvidenceTypeOK
  <1>2. next.pc = (IF flag = "full" THEN "begun" ELSE "started")
        /\ next.pre = (IF flag = "full" THEN head ELSE Nobody)
    BY DEF IdleRun
  <1> HIDE DEF next
  <1>3. run'[r] = next /\ \A q \in Runners \ {r} : run'[q] = run[q] BY <1>1
  <1>4. (run[r].pc \in {"begun", "started", "based"})' BY <1>2, <1>3
  <1>5. PlanOf(r)' BY <1>4, EarlyPlan, PTL
  <1>6. HeadOf(r)' BY <1>2, <1>3 DEF HeadOf, OnCommit
  <1> QED BY <1>3, <1>5, <1>6, RunStep DEF Begin

LEMMA PreconditionKeeps ==
  ASSUME Types, Types', Evidence, NEW r \in Runners, Precondition(r)
  PROVE  Evidence'
  <1>1. run[r] \in Runs /\ run \in [Runners -> Runs] BY DEF Types, EvidenceTypeOK
  <1>2. /\ run'[r] = [run[r] EXCEPT !.pc = "started", !.pre = IF Dirty(TRUE) THEN Nobody ELSE @]
        /\ \A q \in Runners \ {r} : run'[q] = run[q] /\ UNCHANGED git
    BY <1>1 DEF Precondition
  <1>3. run'[r].pc = "started" /\ run'[r].pre = (IF Dirty(TRUE) THEN Nobody ELSE run[r].pre)
    BY <1>1, <1>2 DEF Runs
  <1>4. PlanOf(r)' /\ ~Planned(r)' /\ \A s \in Sensors : run'[r].raw[s].kind # "ran"
    <2>1. \A s \in Sensors : run'[r].raw[s] = NoRaw BY <1>3 DEF Types, RunShape, ShapeOf
    <2>2. \A s \in Sensors : run'[r].raw[s].kind # "ran" BY <2>1, IdleFacts
    <2>3. run'[r].planned \subseteq Sensors BY DEF Types, EvidenceTypeOK, Runs
    <2> QED BY <1>3, <2>2, <2>3 DEF PlanOf, Planned, Tells
  <1>5. ASSUME OnCommit(r)', NEW f \in Files
        PROVE  AsCommitted(r, f)'
    <2>1. ~Dirty(TRUE) /\ run'[r].pre = head' BY <1>3, <1>5 DEF OnCommit
    <2>2. tree[f] = commit[head].tree[f] BY <2>1 DEF Dirty, DirtyFile
    <2>3. tree' = tree /\ commit' = commit /\ head' = head BY DEF Precondition, git
    <2> QED BY <2>1, <2>2, <2>3 DEF AsCommitted
  <1>6. HeadOf(r)' BY <1>3, <1>4, <1>5 DEF HeadOf
  <1> QED BY <1>2, <1>4, <1>6, RunStep DEF Precondition

LEMMA ReadBaselineKeeps ==
  ASSUME Types, Types', Evidence, NEW r \in Runners, ReadBaseline(r)
  PROVE  Evidence'
  <1>1. run[r] \in Runs /\ run \in [Runners -> Runs] BY DEF Types, EvidenceTypeOK
  <1>2. /\ run'[r] = [run[r] EXCEPT !.pc = "based", !.base = tree[Baseline]]
        /\ \A q \in Runners \ {r} : run'[q] = run[q]
    BY <1>1 DEF ReadBaseline
  <1>3. /\ run[r].pc = "started" /\ run'[r].pc = "based" /\ run'[r].base = tree[Baseline]
        /\ run'[r].pre = run[r].pre /\ run'[r].touched = run[r].touched
        /\ run'[r].missed = run[r].missed /\ run'[r].moved = run[r].moved
    BY <1>1, <1>2 DEF Runs, ReadBaseline
  <1>4. PlanOf(r)' /\ ~Planned(r)' /\ \A s \in Sensors : run'[r].raw[s].kind # "ran"
    <2>1. \A s \in Sensors : run'[r].raw[s] = NoRaw BY <1>3 DEF Types, RunShape, ShapeOf
    <2>2. \A s \in Sensors : run'[r].raw[s].kind # "ran" BY <2>1, IdleFacts
    <2>3. run'[r].planned \subseteq Sensors BY DEF Types, EvidenceTypeOK, Runs
    <2> QED BY <1>3, <2>2, <2>3 DEF PlanOf, Planned, Tells
  <1>5. tree' = tree /\ commit' = commit /\ head' = head BY DEF ReadBaseline, git
  <1>6. HeadOf(r)'
    <2>1. OnCommit(r)' => OnCommit(r) BY <1>3, <1>5 DEF OnCommit
    <2>2. HeadOf(r) BY DEF Evidence, RunsAreTrue
    <2> QED BY <1>3, <1>4, <1>5, <2>1, <2>2 DEF HeadOf, AsCommitted
  <1> QED BY <1>2, <1>4, <1>6, RunStep DEF ReadBaseline

LEMMA PrepareKeeps ==
  ASSUME Types, Types', Evidence, NEW r \in Runners, NEW planned \in SUBSET Sensors, Prepare(r, planned)
  PROVE  Evidence'
  <1>1. run[r] \in Runs /\ run \in [Runners -> Runs] /\ tree \in Trees BY DEF Types, EvidenceTypeOK
  <1> DEFINE plan == [s \in Sensors |-> IF s \in planned THEN Digest(s, tree) ELSE run[r].plan[s]]
  <1>2. /\ run'[r] = [run[r] EXCEPT !.pc = "running", !.planned = planned, !.plan = plan]
        /\ \A q \in Runners \ {r} : run'[q] = run[q]
    BY <1>1 DEF Prepare
  <1>3. /\ run[r].pc = "based" /\ run'[r].pc = "running" /\ run'[r].planned = planned /\ run'[r].plan = plan
        /\ run'[r].pre = run[r].pre /\ run'[r].touched = run[r].touched /\ run'[r].base = run[r].base
        /\ run'[r].raw = run[r].raw /\ run'[r].missed = run[r].missed /\ run'[r].moved = run[r].moved
    BY <1>1, <1>2 DEF Runs, Prepare
  <1>4. tree' = tree /\ commit' = commit /\ head' = head /\ authored' = authored BY DEF Prepare, git
  <1>5. \A s \in planned : DOMAIN plan[s] = Inputs(s) /\ \A f \in Inputs(s) : plan[s][f] = Hash(tree[f])
    BY <1>1, DigestType
  <1> HIDE DEF plan
  <1>6. \A s \in Sensors : run'[r].raw[s].kind # "ran" BY <1>3, EarlyPlan
  <1>7. PlanOf(r)' BY <1>3, <1>4, <1>5, <1>6 DEF PlanOf
  <1>8. HeadOf(r)'
    <2>1. OnCommit(r)' => OnCommit(r) BY <1>3, <1>4 DEF OnCommit
    <2>2. HeadOf(r) BY DEF Evidence, RunsAreTrue
    <2> QED BY <1>3, <1>4, <1>5, <1>6, <2>1, <2>2 DEF HeadOf, AsCommitted
  <1> QED BY <1>2, <1>7, <1>8, RunStep DEF Prepare

\* A sensor of a run gets a result: it must be true of the inputs and of the commit.
OnlyResult(r, s, raw) ==
  /\ \A q \in Runners \ {r} : run[q]' = run[q]
  /\ run[r].pc' = run[r].pc /\ run[r].flag' = run[r].flag /\ run[r].pre' = run[r].pre
  /\ run[r].base' = run[r].base /\ run[r].planned' = run[r].planned /\ run[r].plan' = run[r].plan
  /\ run[r].seen' = run[r].seen /\ run[r].touched' = run[r].touched
  /\ run[r].missed' = run[r].missed /\ run[r].moved' = run[r].moved
  /\ run[r].raw' = [run[r].raw EXCEPT ![s] = raw]

FitsPlan(r, s, raw) ==
  raw.kind = "ran" /\ run[r].flag # "changed" /\ s \in run[r].planned =>
     \A f \in Inputs(s) \ (run[r].missed \cup raw.doubt) :
        run[r].plan[s][f] = Hash(tree[f]) /\ run[r].plan[s][f] # Marker
           => (f \in raw.findings <=> tree[f] \in Bad)
FitsCommit(r, s, raw) ==
  raw.kind = "ran" /\ OnCommit(r) => \A f \in Reads(s) :
     f \notin run[r].missed \cup raw.doubt /\ AsCommitted(r, f) => (f \in raw.findings <=> tree[f] \in Bad)

LEMMA ResultKeeps ==
  ASSUME Types, Types', Evidence, NEW r \in Runners, NEW s \in Sensors, NEW raw \in Raw,
         run[r].pc = "running", UNCHANGED <<authored, git, cache, receipt, cmd, report>>,
         OnlyResult(r, s, raw),
         FitsPlan(r, s, raw), FitsCommit(r, s, raw)
  PROVE  Evidence'
  <1>1. run[r] \in Runs /\ run \in [Runners -> Runs] BY DEF Types, EvidenceTypeOK
  <1>2. run[r].raw \in [Sensors -> Raw] /\ run[r].planned \subseteq Sensors BY <1>1 DEF Runs
  <1>3. /\ \A q \in Runners \ {r} : run'[q] = run[q]
        /\ run'[r].pc = run[r].pc /\ run'[r].flag = run[r].flag /\ run'[r].pre = run[r].pre
        /\ run'[r].base = run[r].base /\ run'[r].planned = run[r].planned /\ run'[r].plan = run[r].plan
        /\ run'[r].seen = run[r].seen /\ run'[r].touched = run[r].touched
        /\ run'[r].missed = run[r].missed /\ run'[r].moved = run[r].moved
        /\ run'[r].raw = [run[r].raw EXCEPT ![s] = raw]
    BY DEF OnlyResult
  <1>4. run'[r].raw[s] = raw /\ \A q \in Sensors \ {s} : run'[r].raw[q] = run[r].raw[q] BY <1>2, <1>3
  <1>5. tree' = tree /\ commit' = commit /\ head' = head /\ \A q : Reads(q)' = Reads(q) BY DEF git, Reads
  <1>6. PlanOf(r) /\ HeadOf(r) BY DEF Evidence, RunsAreTrue
  <1>7. PlanOf(r)'
    <2>1. ASSUME Planned(r)', NEW q \in run'[r].planned
          PROVE  /\ DOMAIN run'[r].plan[q] = Inputs(q)
                 /\ \A f \in Inputs(q) : run'[r].plan[q][f] # Hash(tree'[f]) => f \in run'[r].touched
      BY <1>3, <1>5, <1>6, <2>1 DEF PlanOf, Planned, Tells
    <2>2. ASSUME run'[r].flag # "changed", NEW q \in run'[r].planned, run'[r].raw[q].kind = "ran",
                 NEW f \in Inputs(q), Tells(r, q, f)', run'[r].plan[q][f] = Hash(tree'[f]),
                 run'[r].plan[q][f] # Marker
          PROVE  f \in run'[r].raw[q].findings <=> tree'[f] \in Bad
      <3>1. CASE q = s BY <1>3, <1>4, <1>5, <2>2, <3>1 DEF Tells, FitsPlan
      <3>2. CASE q # s
        <4>1. run'[r].raw[q] = run[r].raw[q] /\ q \in run[r].planned BY <1>2, <1>3, <1>4, <2>2, <3>2
        <4> QED BY <1>3, <1>5, <1>6, <2>2, <4>1 DEF PlanOf, Tells
      <3> QED BY <3>1, <3>2
    <2> QED BY <1>5, <2>1, <2>2 DEF PlanOf
  <1>8. HeadOf(r)'
    <2>1. OnCommit(r)' <=> OnCommit(r) BY <1>3, <1>5 DEF OnCommit
    <2>2. \A f : AsCommitted(r, f)' <=> AsCommitted(r, f) BY <1>3, <1>5 DEF AsCommitted
    <2>3. ASSUME OnCommit(r), NEW q \in Sensors, run'[r].raw[q].kind = "ran", NEW f \in Reads(q),
                 Tells(r, q, f)', AsCommitted(r, f)
          PROVE  f \in run'[r].raw[q].findings <=> tree'[f] \in Bad
      <3>1. CASE q = s BY <1>3, <1>4, <1>5, <2>3, <3>1 DEF Tells, FitsCommit
      <3>2. CASE q # s BY <1>3, <1>4, <1>5, <1>6, <2>3, <3>2 DEF HeadOf, Tells
      <3> QED BY <3>1, <3>2
    <2>4. ASSUME OnCommit(r)
          PROVE  /\ \A f \in Files : AsCommitted(r, f)' \/ f \in run'[r].touched
                 /\ run'[r].pc # "started" /\ Baseline \notin run'[r].missed /\ AsCommitted(r, Baseline)'
                       => run'[r].base = tree'[Baseline]
                 /\ Planned(r)' => \A q \in run'[r].planned : \A f \in Inputs(q) :
                       f \notin run'[r].missed /\ AsCommitted(r, f)' => run'[r].plan[q][f] = Hash(tree'[f])
      BY <1>3, <1>5, <1>6, <2>2, <2>4 DEF HeadOf, Planned
    <2>5. run'[r].pc # "rechecking" BY <1>3
    <2> QED BY <1>5, <2>1, <2>2, <2>3, <2>4, <2>5 DEF HeadOf
  <1> QED BY <1>3, <1>7, <1>8, RunStep

LEMMA ReuseKeeps ==
  ASSUME Types, Types', Evidence, NEW r \in Runners, NEW s \in Sensors, Reuse(r, s)
  PROVE  Evidence'
  <1>1. run[r] \in Runs /\ run \in [Runners -> Runs] /\ ShapeOf(r)
    BY DEF Types, EvidenceTypeOK, RunShape
  <1> DEFINE result(e) == [kind |-> "ran", findings |-> e.findings, doubt |-> Doubt(e)]
  <1>2. PICK e \in Entries(r, s) : run' = [run EXCEPT ![r].raw[s] = result(e), ![r].settled = @ \cup {s}]
    BY DEF Reuse
  <1> DEFINE raw == result(e)
  <1>3. OnlyResult(r, s, raw) BY <1>1, <1>2 DEF OnlyResult, Runs
  <1>4. e \in cache /\ s \in run[r].planned /\ e.digest = run[r].plan[s] /\ run[r].pc = "running"
    BY <1>2 DEF Entries, Reuse, Waiting
  <1>5. PlanOf(r) /\ HeadOf(r) /\ CacheIsTrue BY DEF Evidence, RunsAreTrue
  <1>6. DOMAIN run[r].plan[s] = Inputs(s) BY <1>4, <1>5 DEF PlanOf, Planned, Tells
  <1>7. Reads(s) = Inputs(s) BY <1>1, <1>4 DEF ShapeOf, Reads
  <1>8. \A f \in Inputs(s) : f \notin Doubt(e) =>
           (f \in e.findings <=> run[r].plan[s][f] \in Bad) /\ run[r].plan[s][f] # Marker
    BY <1>4, <1>5, <1>6 DEF CacheIsTrue, Doubt
  <1>9. raw \in Raw
    <2>1. e \in EntryType BY <1>4 DEF Types, EvidenceTypeOK
    <2>2. DOMAIN e.digest \subseteq Files BY <2>1 DEF Digests
    <2> QED BY <2>1, <2>2 DEF Raw, Messages, Doubt
  <1>10. raw.findings = e.findings /\ raw.doubt = Doubt(e) OBVIOUS
  <1> HIDE DEF raw
  <1>11. \A f \in Inputs(s) :
            f \notin raw.doubt /\ run[r].plan[s][f] = Hash(tree[f]) => (f \in raw.findings <=> tree[f] \in Bad)
    BY <1>8, <1>10 DEF Hash
  <1>12. OnCommit(r) => \A f \in Reads(s) :
            f \notin run[r].missed \cup raw.doubt /\ AsCommitted(r, f) => (f \in raw.findings <=> tree[f] \in Bad)
    <2>1. OnCommit(r) => \A f \in Inputs(s) :
             f \notin run[r].missed /\ AsCommitted(r, f) => run[r].plan[s][f] = Hash(tree[f])
      BY <1>4, <1>5 DEF HeadOf, Planned
    <2> QED BY <1>7, <1>11, <2>1
  <1>13. UNCHANGED <<authored, git, cache, receipt, cmd, report>> BY DEF Reuse
  <1>14. FitsPlan(r, s, raw) /\ FitsCommit(r, s, raw) BY <1>11, <1>12 DEF FitsPlan, FitsCommit
  <1> QED BY <1>3, <1>4, <1>9, <1>13, <1>14, ResultKeeps

LEMMA ExecuteKeeps ==
  ASSUME Types, Types', Evidence, NEW r \in Runners, NEW s \in Sensors, Execute(r, s)
  PROVE  Evidence'
  <1>1. run[r] \in Runs /\ run \in [Runners -> Runs] /\ ShapeOf(r)
    BY DEF Types, EvidenceTypeOK, RunShape
  <1>2. PICK raw \in Outcomes(s, run[r].flag = "changed") : run' = [run EXCEPT ![r].raw[s] = raw]
    BY DEF Execute
  <1>3. OnlyResult(r, s, raw) BY <1>1, <1>2 DEF OnlyResult, Runs
  <1>4. raw \in Raw /\ (raw.kind = "ran" /\ run[r].flag # "changed" => raw.findings = Findings(s, tree))
    BY OutcomesType
  <1>5. s \in run[r].planned => Inputs(s) = Reads(s) BY <1>1 DEF ShapeOf, Reads
  <1>6. OnCommit(r) => run[r].flag # "changed" BY <1>1 DEF OnCommit, ShapeOf
  <1>7. \A f \in Reads(s) : f \in Findings(s, tree) <=> tree[f] \in Bad BY DEF Findings
  <1>8. UNCHANGED <<authored, git, cache, receipt, cmd, report>> /\ run[r].pc = "running"
    BY DEF Execute, Waiting
  <1>9. raw.kind = "ran" /\ run[r].flag # "changed" /\ s \in run[r].planned =>
           \A f \in Inputs(s) : f \in raw.findings <=> tree[f] \in Bad
    BY <1>4, <1>5, <1>7
  <1>10. raw.kind = "ran" /\ OnCommit(r) => \A f \in Reads(s) : f \in raw.findings <=> tree[f] \in Bad
    BY <1>4, <1>6, <1>7
  <1>11. FitsPlan(r, s, raw) /\ FitsCommit(r, s, raw) BY <1>9, <1>10 DEF FitsPlan, FitsCommit
  <1> QED BY <1>3, <1>4, <1>8, <1>11, ResultKeeps

\* What is written to the cache was measured over the inputs of the plan: their
\* digest is now what it was then, so that one it hashes was changed twice or not at all.
LEMMA SettleKeeps ==
  ASSUME Types, Types', Evidence, NEW r \in Runners, NEW s \in Sensors, Settle(r, s)
  PROVE  Evidence'
  <1>1. run[r] \in Runs /\ run \in [Runners -> Runs] /\ ShapeOf(r) /\ tree \in Trees
    BY DEF Types, EvidenceTypeOK, RunShape
  <1>2. /\ \A q \in Runners \ {r} : run'[q] = run[q]
        /\ run'[r] = [run[r] EXCEPT !.settled = @ \cup {s}]
        /\ UNCHANGED <<authored, git, receipt, cmd, report>> /\ run[r].pc = "running"
    BY <1>1 DEF Settle
  <1>3. PlanOf(r) /\ HeadOf(r) /\ CacheIsTrue BY DEF Evidence, RunsAreTrue
  <1>4. PlanOf(r)' /\ HeadOf(r)'
    <2>1. /\ run'[r].pc = run[r].pc /\ run'[r].flag = run[r].flag /\ run'[r].pre = run[r].pre
          /\ run'[r].base = run[r].base /\ run'[r].planned = run[r].planned /\ run'[r].plan = run[r].plan
          /\ run'[r].seen = run[r].seen /\ run'[r].touched = run[r].touched /\ run'[r].raw = run[r].raw
          /\ run'[r].missed = run[r].missed /\ run'[r].moved = run[r].moved
      BY <1>1, <1>2 DEF Runs
    <2>2. tree' = tree /\ commit' = commit /\ head' = head /\ \A q : Reads(q)' = Reads(q)
      BY <1>2 DEF git, Reads
    <2>3. PlanOf(r)' BY <1>3, <2>1, <2>2 DEF PlanOf, Planned, Tells
    <2>4. HeadOf(r)' BY <1>3, <2>1, <2>2 DEF HeadOf, OnCommit, AsCommitted, Planned, Tells
    <2> QED BY <2>3, <2>4
  <1>5. RunsAreTrue' BY <1>2, <1>4, OtherRuns DEF Evidence, RunsAreTrue
  <1>6. ASSUME NEW e \in Written(r, s), NEW f \in DOMAIN e.digest \ Doubt(e)
        PROVE  f \in e.findings <=> e.digest[f] \in Bad
    <2>1. /\ s \in run[r].planned /\ run[r].flag # "changed" /\ run[r].raw[s].kind = "ran"
          /\ Digest(s, tree) = run[r].plan[s]
          /\ e.digest = run[r].plan[s] /\ e.findings = run[r].raw[s].findings /\ e.missed = run[r].missed
      BY <1>6 DEF Written, CanCache
    <2>2. DOMAIN e.digest = Inputs(s) /\ \A g \in Inputs(s) : e.digest[g] = Hash(tree[g])
      BY <1>1, <2>1, DigestType
    <2>3. f \in Inputs(s) /\ f \notin run[r].missed /\ e.digest[f] # Marker BY <2>1, <2>2 DEF Doubt
    <2>4. run[r].raw[s].doubt = {} BY <1>1 DEF Settle, ShapeOf
    <2>5. f \in run[r].raw[s].findings <=> tree[f] \in Bad
      BY <1>3, <2>1, <2>2, <2>3, <2>4 DEF PlanOf, Tells
    <2> QED BY <2>1, <2>2, <2>3, <2>5 DEF Hash
  <1>7. CacheIsTrue'
    <2>1. \A e \in cache' : e \in cache \/ e \in Written(r, s) BY DEF Settle
    <2> QED BY <1>3, <1>6, <2>1 DEF CacheIsTrue
  <1>8. Commits' = Commits /\ commit' = commit BY <1>2 DEF git, Commits
  <1> QED BY <1>2, <1>5, <1>7, <1>8, ConclusionsStay DEF Evidence

LEMMA FinishKeeps ==
  ASSUME Types, Types', Evidence, NEW r \in Runners, Finish(r)
  PROVE  Evidence'
  <1>1. run[r] \in Runs /\ run \in [Runners -> Runs] BY DEF Types, EvidenceTypeOK
  <1>2. \A q \in Runners \ {r} : run'[q] = run[q] BY <1>1 DEF Finish
  <1>3. CASE run'[r] = IdleRun
    <2>1. PlanOf(r)' /\ HeadOf(r)'
      <3>1. (run[r] = IdleRun)' BY <1>3
      <3> QED BY <3>1, IdleIsTrue, PTL
    <2> QED BY <1>2, <2>1, RunStep DEF Finish
  <1>4. CASE run'[r] = [run[r] EXCEPT !.pc = "measured"]
    <2>1. /\ run'[r].pc = "measured" /\ run'[r].flag = run[r].flag /\ run'[r].pre = run[r].pre
          /\ run'[r].base = run[r].base /\ run'[r].planned = run[r].planned /\ run'[r].plan = run[r].plan
          /\ run'[r].touched = run[r].touched /\ run'[r].raw = run[r].raw
          /\ run'[r].missed = run[r].missed /\ run'[r].moved = run[r].moved
      BY <1>1, <1>4 DEF Runs
    <2>2. run[r].pc = "running" /\ PlanOf(r) /\ HeadOf(r) BY DEF Finish, Evidence, RunsAreTrue
    <2>3. tree' = tree /\ commit' = commit /\ head' = head /\ \A q : Reads(q)' = Reads(q)
      BY DEF Finish, git, Reads
    <2>4. PlanOf(r)' BY <2>1, <2>2, <2>3 DEF PlanOf, Planned, Tells
    <2>5. HeadOf(r)' BY <2>1, <2>2, <2>3 DEF HeadOf, OnCommit, AsCommitted, Planned, Tells
    <2> QED BY <1>2, <2>4, <2>5, RunStep DEF Finish
  <1> QED BY <1>1, <1>3, <1>4 DEF Finish

LEMMA RecheckHeadKeeps ==
  ASSUME Types, Types', Evidence, NEW r \in Runners, RecheckHead(r)
  PROVE  Evidence'
  <1>1. run[r] \in Runs /\ run \in [Runners -> Runs] BY DEF Types, EvidenceTypeOK
  <1>2. /\ \A q \in Runners \ {r} : run'[q] = run[q]
        /\ run'[r] = [run[r] EXCEPT !.pc = "rechecking", !.seen = head]
    BY <1>1 DEF RecheckHead
  <1>3. /\ run'[r].pc = "rechecking" /\ run'[r].flag = run[r].flag /\ run'[r].pre = run[r].pre
        /\ run'[r].base = run[r].base /\ run'[r].planned = run[r].planned /\ run'[r].plan = run[r].plan
        /\ run'[r].touched = run[r].touched /\ run'[r].raw = run[r].raw /\ run'[r].seen = head
        /\ run'[r].missed = run[r].missed /\ run'[r].moved = run[r].moved
    BY <1>1, <1>2 DEF Runs
  <1>4. run[r].pc = "measured" /\ PlanOf(r) /\ HeadOf(r) BY DEF RecheckHead, Evidence, RunsAreTrue
  <1>5. tree' = tree /\ commit' = commit /\ head' = head /\ \A q : Reads(q)' = Reads(q)
    BY DEF RecheckHead, git, Reads
  <1>6. PlanOf(r)' BY <1>3, <1>4, <1>5 DEF PlanOf, Planned, Tells
  <1>7. HeadOf(r)' BY <1>3, <1>4, <1>5 DEF HeadOf, OnCommit, AsCommitted, Planned, Tells
  <1> QED BY <1>2, <1>6, <1>7, RunStep DEF RecheckHead

\* A run that may write its receipt has measured the commit, in the files it tells of.
LEMMA MeasuredTheCommit ==
  ASSUME Types, Evidence, NEW r \in Runners, run[r].pc = "rechecking", Unchanged(r)
  PROVE  /\ run[r].pre \in Commits
         /\ \A s \in Sensors :
              Status(s, run[r].raw[s], run[r].base) = "pass" => Truthful(s, run[r].pre, Told(r)[s])
  <1>1. run[r] \in Runs /\ ShapeOf(r) /\ HeadOf(r) BY DEF Types, EvidenceTypeOK, RunShape, Evidence, RunsAreTrue
  <1>2. run[r].pre # Nobody /\ run[r].pre \in Commits BY <1>1 DEF ShapeOf
  <1> DEFINE c == run[r].pre
             void == run[r].missed \cup {f \in run[r].touched : commit[c].tree[f] = Absent}
  <1>3. ASSUME NEW s \in Sensors, Status(s, run[r].raw[s], run[r].base) = "pass"
        PROVE  Truthful(s, c, Told(r)[s])
    <2>1. Told(r)[s] = IF run[r].raw[s].kind = "ran" /\ ~run[r].moved /\ Baseline \notin void
                       THEN Files \ (void \cup run[r].raw[s].doubt) ELSE {}
      BY DEF Told
    <2>2. CASE ~(run[r].raw[s].kind = "ran" /\ ~run[r].moved /\ Baseline \notin void)
      BY <2>1, <2>2 DEF Truthful
    <2>3. CASE run[r].raw[s].kind = "ran" /\ ~run[r].moved /\ Baseline \notin void
      <3>1. OnCommit(r) BY <1>1, <1>2, <2>3 DEF HeadOf, Unchanged, OnCommit
      <3>2. ASSUME NEW f \in Files \ void PROVE AsCommitted(r, f)
        <4>1. AsCommitted(r, f) \/ f \in run[r].touched BY <1>1, <3>1 DEF HeadOf
        <4>2. tree[f] = commit[head].tree[f] \/ commit[head].tree[f] = Absent
          BY DEF Unchanged, Dirty, DirtyFile
        <4>3. head = run[r].pre BY <3>1 DEF OnCommit
        <4> QED BY <4>1, <4>2, <4>3 DEF AsCommitted
      <3>3. run[r].base = commit[c].tree[Baseline]
        BY <1>1, <2>3, <3>1, <3>2, FilesAssumption DEF HeadOf, AsCommitted
      <3>4. run[r].raw[s].findings \subseteq Accepted(s, run[r].base) BY <1>3, <2>3 DEF Status
      <3>5. ASSUME NEW f \in Findings(s, commit[c].tree) \cap Told(r)[s]
            PROVE  f \in run[r].raw[s].findings
        <4>1. f \in Reads(s) /\ f \in Files \ void /\ f \notin run[r].raw[s].doubt
              /\ commit[c].tree[f] \in Bad
          BY <2>1, <2>3, <3>5 DEF Findings
        <4>2. AsCommitted(r, f) /\ Tells(r, s, f) BY <3>2, <4>1 DEF Tells
        <4> QED BY <1>1, <2>3, <3>1, <4>1, <4>2 DEF HeadOf, AsCommitted
      <3> QED BY <3>3, <3>4, <3>5 DEF Truthful
    <2> QED BY <2>2, <2>3
  <1> QED BY <1>2, <1>3

LEMMA FinalizeReceiptKeeps ==
  ASSUME Types, Types', Evidence, NEW r \in Runners, FinalizeReceipt(r)
  PROVE  Evidence'
  <1>1. run[r] \in Runs /\ run \in [Runners -> Runs] /\ ShapeOf(r)
        /\ receipt \in [1 .. MaxCommits -> Receipts]
    BY DEF Types, EvidenceTypeOK, RunShape
  <1>2. \A q \in Runners \ {r} : run'[q] = run[q] BY <1>1 DEF FinalizeReceipt
  <1>3. PlanOf(r)' /\ HeadOf(r)'
    <2>1. (run[r] = IdleRun)' BY <1>1 DEF FinalizeReceipt
    <2> QED BY <2>1, IdleIsTrue, PTL
  <1>4. CASE UNCHANGED receipt BY <1>2, <1>3, <1>4, RunStep DEF FinalizeReceipt
  <1>5. CASE Unchanged(r)
    <2> DEFINE c == run[r].pre
               new == [id |-> used.receipts + 1, overall |-> Verdict(r), status |-> Statuses(r),
                       paths |-> MeasuredPaths(r), planned |-> run[r].planned, told |-> Told(r)]
    <2>1. run[r].pc = "rechecking" /\ UNCHANGED <<authored, git, cache, cmd, report>>
          /\ receipt' = [receipt EXCEPT ![c] = new]
      BY <1>5 DEF FinalizeReceipt
    <2>2. c # Nobody /\ c \in Commits BY <1>1, <2>1 DEF ShapeOf
    <2>3. commit' = commit /\ Commits' = Commits /\ authored' = authored BY <2>1 DEF git, Commits
    <2>4. new.overall = Verdict(r) /\ new.status = Statuses(r) /\ new.paths = MeasuredPaths(r)
          /\ new.planned = run[r].planned /\ new.told = Told(r)
      OBVIOUS
    <2>5. \A s \in Sensors : new.status[s] = "pass" => Truthful(s, c, new.told[s])
      <3>1. \A s \in Sensors : Status(s, run[r].raw[s], run[r].base) = "pass" => Truthful(s, c, Told(r)[s])
        BY <1>5, <2>1, MeasuredTheCommit
      <3>2. \A s \in Sensors : Statuses(r)[s] = Status(s, run[r].raw[s], run[r].base) BY <2>2, StatusesType
      <3> QED BY <2>4, <3>1, <3>2
    <2>6. new.overall = "pass" => \A s \in Sensors : new.status[s] = "pass" BY <2>2, <2>4, StatusesType
    <2>7. new.planned \subseteq authored BY <1>1, <2>4 DEF ShapeOf
    <2>8. Baseline \in new.paths /\ \A s \in new.planned : Always[s] \subseteq new.paths
      BY <2>4 DEF MeasuredPaths
    <2> HIDE DEF new, c
    <2>9. ReceiptsAreTrue'
      <3> SUFFICES ASSUME NEW d \in 1 .. MaxCommits PROVE ReceiptOf(d)' BY DEF ReceiptsAreTrue
      <3>1. CASE d = c
        <4>1. receipt'[d] = new BY <1>1, <2>1, <3>1
        <4>2. \A s \in Sensors : receipt'[d].status[s] = "pass" => Truthful(s, d, receipt[d].told[s])'
          BY <2>3, <2>5, <3>1, <4>1 DEF Truthful, Findings, Reads
        <4> QED BY <2>2, <2>3, <2>6, <2>7, <2>8, <3>1, <4>1, <4>2 DEF ReceiptOf
      <3>2. CASE d # c
        <4>1. receipt'[d] = receipt[d] BY <1>1, <2>1, <3>2
        <4>2. ReceiptOf(d) BY DEF Evidence, ReceiptsAreTrue
        <4> QED BY <2>3, <4>1, <4>2 DEF ReceiptOf, Truthful, Findings, Reads
      <3> QED BY <3>1, <3>2
    <2>10. RunsAreTrue' BY <1>2, <1>3, <2>1, OtherRuns DEF Evidence, RunsAreTrue
    <2>11. CmdOf' /\ ReportOf' BY <2>1, <2>3, VerdictsStay DEF Evidence
    <2> QED BY <2>1, <2>9, <2>10, <2>11 DEF Evidence, CacheIsTrue
  <1> QED BY <1>4, <1>5 DEF FinalizeReceipt

LEMMA InterruptKeeps ==
  ASSUME Types, Types', Evidence, NEW r \in Runners, Interrupt(r)
  PROVE  Evidence'
  <1>1. run \in [Runners -> Runs] BY DEF Types, EvidenceTypeOK
  <1>2. (run[r] = IdleRun)' /\ \A q \in Runners \ {r} : run'[q] = run[q] BY <1>1 DEF Interrupt
  <1>3. PlanOf(r)' /\ HeadOf(r)' BY <1>2, IdleIsTrue, PTL
  <1> QED BY <1>2, <1>3, RunStep DEF Interrupt

LEMMA SensingEvidence ==
  ASSUME Types, Types', Evidence, NEW r \in Runners, Sensing(r)
  PROVE  Evidence'
  BY BeginKeeps, PreconditionKeeps, ReadBaselineKeeps, PrepareKeeps, ReuseKeeps, ExecuteKeeps, SettleKeeps,
     FinishKeeps, RecheckHeadKeeps, FinalizeReceiptKeeps, InterruptKeeps DEF Sensing

(***************************************************************************)
(* The steps of `awm change`.                                              *)
(***************************************************************************)
LEMMA CommandStep ==
  ASSUME Types, Evidence, UNCHANGED <<authored, tree, commit, head, cache, receipt, run>>, CmdOf', ReportOf'
  PROVE  Evidence'
  <1>1. Commits' = Commits /\ \A q : Reads(q)' = Reads(q) BY DEF Commits, Reads
  <1>3. ReceiptsAreTrue'
    <2> SUFFICES ASSUME NEW c \in 1 .. MaxCommits PROVE ReceiptOf(c)' BY DEF ReceiptsAreTrue
    <2>1. ReceiptOf(c) BY DEF Evidence, ReceiptsAreTrue
    <2> QED BY <1>1, <2>1 DEF ReceiptOf, Truthful, Findings
  <1>4. ASSUME NEW r \in Runners PROVE PlanOf(r)' /\ HeadOf(r)'
    BY <1>1 DEF Evidence, RunsAreTrue, PlanOf, HeadOf, Planned, OnCommit, AsCommitted, Tells
  <1>5. CacheIsTrue' BY DEF Evidence, CacheIsTrue
  <1> QED BY <1>3, <1>4, <1>5 DEF Evidence, RunsAreTrue

\* If nothing that counts is late, the verified commit and HEAD agree on all that
\* a sensor reads and on the baseline.
LEMMA NothingLate ==
  ASSUME Types, Evidence, NEW c \in Commits, NEW h \in Commits, LateFiles(c, h) = {}
  PROVE  Agree(c, h)
  <1>1. c \in 1 .. MaxCommits BY BoundsAssumption DEF Types, EvidenceTypeOK, Commits
  <1>2. ASSUME NEW s \in Sensors, NEW f \in Reads(s) \cup {Baseline}
        PROVE  commit[c].tree[f] = commit[h].tree[f]
    <2>1. f \in Files BY ReadsType, FilesAssumption
    <2>2. CASE Relaxed(c)
      <3>1. receipt[c].planned = Sensors /\ ReceiptOf(c) /\ receipt[c] # NoReceipt
        BY <1>1, <2>2 DEF Relaxed, Evidence, ReceiptsAreTrue
      <3>2. s \in authored /\ Always[s] \subseteq receipt[c].paths /\ Baseline \in receipt[c].paths
        BY <3>1 DEF ReceiptOf
      <3>3. Reads(s) \subseteq Globs[s] \cup Always[s] BY <3>2 DEF Reads, Inputs
      <3>4. IsMeasured(c, f) BY <3>1, <3>2, <3>3 DEF IsMeasured
      <3> QED BY <2>1, <3>4 DEF LateFiles
    <2>3. CASE ~Relaxed(c) BY <2>1, <2>3 DEF LateFiles
    <2> QED BY <2>2, <2>3
  <1> QED BY <1>2 DEF Agree

\* What is accepted of one commit is accepted of another that agrees with it.
LEMMA AgreeTruthful ==
  ASSUME NEW c, NEW h, Agree(c, h), NEW s \in Sensors, NEW told, Truthful(s, c, told)
  PROVE  Truthful(s, h, told)
  <1>1. commit[c].tree[Baseline] = commit[h].tree[Baseline] BY DEF Agree
  <1>2. Findings(s, commit[c].tree) = Findings(s, commit[h].tree) BY DEF Agree, Findings
  <1> QED BY <1>1, <1>2 DEF Truthful

LEMMA CommitsBound == ASSUME EvidenceTypeOK PROVE \A c \in Commits : c \in 1 .. MaxCommits
  BY BoundsAssumption DEF EvidenceTypeOK, Commits

LEMMA ChangingEvidence ==
  ASSUME Types, Types', Evidence, Changing
  PROVE  Evidence'
  <1> DEFINE Elsewhere == UNCHANGED <<authored, tree, commit, head, cache, receipt, run>>
  <1>r. Elsewhere /\ UNCHANGED report => ReportOf'
    BY DEF Evidence, ReportOf, Commits, Agree, Truthful, Findings, Reads
  <1>i. Refused => cmd'.op # "validate" BY DEF Refused, IdleCmd
  <1>n. Verdicts(FALSE) => CmdOf' /\ ReportOf' BY DEF Verdicts, CmdOf, IdleCmd, ReportOf, Invalid
  <1>c. cmd \in Cmds /\ CmdShape BY DEF Types, EvidenceTypeOK
  <1>m. \A c \in Commits : c \in 1 .. MaxCommits BY CommitsBound DEF Types
  <1>w. cmd'.op # "validate" => CmdOf' BY DEF CmdOf
  <1>1. ASSUME NEW op \in {"new", "refresh", "validate"}, NEW strict \in BOOLEAN, Pin(op, strict)
        PROVE  Evidence'
    <2>1. cmd'.pc = "pinned" BY <1>1, <1>c DEF Pin, Cmds
    <2>2. CmdOf' BY <2>1 DEF CmdOf
    <2> QED BY <1>1, <1>r, <2>2, CommandStep DEF Pin, git
  <1>k. ASSUME NEW op \in {"new", "refresh"}, NEW from, NEW to, CheckHead(op, from, to) PROVE Evidence'
    <2>1. cmd'.op # "validate" BY <1>c, <1>i, <1>k DEF CheckHead, At, Cmds
    <2> QED BY <1>k, <1>r, <1>w, <2>1, CommandStep DEF CheckHead, git
  <1>2. CASE CheckClean \/ Vouch \/ CreateRecord \/ ReadToRefresh \/ CheckUnchanged \/ ReplaceRecord
    <2>1. cmd'.op # "validate"
      <3>1. CASE CheckClean BY <1>c, <1>i, <3>1 DEF CheckClean, Cmds
      <3>2. CASE Vouch BY <1>c, <1>i, <3>2 DEF Vouch, Cmds
      <3>3. CASE CreateRecord \/ ReplaceRecord BY <1>i, <3>3 DEF CreateRecord, ReplaceRecord, Refused
      <3>4. CASE ReadToRefresh BY <1>c, <1>i, <3>4 DEF ReadToRefresh, At, Cmds
      <3>5. CASE CheckUnchanged BY <1>c, <1>i, <3>5 DEF CheckUnchanged, At, Cmds
      <3> QED BY <1>2, <3>1, <3>2, <3>3, <3>4, <3>5
    <2>2. Elsewhere /\ UNCHANGED report
      BY <1>2 DEF CheckClean, Vouch, CreateRecord, ReadToRefresh, CheckUnchanged, ReplaceRecord, git
    <2> QED BY <1>r, <1>w, <2>1, <2>2, CommandStep
  <1>3. CASE CheckRecord
    <2>1. Elsewhere BY <1>3 DEF CheckRecord, git
    <2>2. CASE Verdicts(FALSE) BY <1>n, <2>1, <2>2, CommandStep
    <2>3. CASE ~Verdicts(FALSE)
      <3>1. cmd'.pc = "read" /\ UNCHANGED report BY <1>3, <1>c, <2>3 DEF CheckRecord, Cmds
      <3>2. CmdOf' BY <3>1 DEF CmdOf
      <3> QED BY <1>r, <2>1, <3>1, <3>2, CommandStep
    <2> QED BY <2>2, <2>3
  <1>4. CASE CheckLate
    <2>1. Elsewhere BY <1>4 DEF CheckLate, git
    <2>2. CASE Verdicts(FALSE) BY <1>n, <2>1, <2>2, CommandStep
    <2>3. CASE ~Verdicts(FALSE)
      <3>1. /\ LateFiles(cmd.rec.commit, cmd.head) = {} /\ cmd.op = "validate" /\ UNCHANGED report
            /\ cmd'.pc = (IF cmd.strict THEN "late" ELSE "checked")
            /\ cmd'.strict = cmd.strict /\ cmd'.rec = cmd.rec /\ cmd'.head = cmd.head
            /\ cmd.rec.commit \in Commits /\ cmd.head \in Commits
        BY <1>4, <1>c, <2>3 DEF CheckLate, At, Cmds, CmdShape
      <3>2. Agree(cmd.rec.commit, cmd.head) BY <3>1, NothingLate
      <3>3. Agree(cmd.rec.commit, cmd.head)' BY <2>1, <3>1, <3>2 DEF Agree, Reads
      <3>4. CmdOf' BY <3>1, <3>3 DEF CmdOf
      <3> QED BY <1>r, <2>1, <3>1, <3>4, CommandStep
    <2> QED BY <2>2, <2>3
  <1>5. CASE CheckReceipt
    <2>1. Elsewhere BY <1>5 DEF CheckReceipt, git
    <2>2. CASE Verdicts(FALSE) BY <1>n, <2>1, <2>2, CommandStep
    <2>3. CASE ~Verdicts(FALSE)
      <3>1. /\ receipt[cmd.rec.commit] # NoReceipt /\ receipt[cmd.rec.commit].overall = "pass"
            /\ cmd.op = "validate" /\ cmd.pc = "late" /\ UNCHANGED report
            /\ cmd'.pc = "checked" /\ cmd'.strict = cmd.strict /\ cmd'.head = cmd.head
            /\ cmd'.rec = cmd.rec /\ cmd'.told = receipt[cmd.rec.commit].told
            /\ cmd.rec.commit \in Commits /\ cmd.head \in Commits
        BY <1>5, <1>c, <2>3 DEF CheckReceipt, At, Cmds, CmdShape
      <3>2. cmd.rec.commit \in 1 .. MaxCommits BY <1>m, <3>1
      <3>3. \A s \in Sensors : Truthful(s, cmd.rec.commit, receipt[cmd.rec.commit].told[s])
        BY <3>1, <3>2 DEF Evidence, ReceiptsAreTrue, ReceiptOf
      <3>4. cmd.strict => Agree(cmd.rec.commit, cmd.head) BY <3>1 DEF Evidence, CmdOf
      <3>5. cmd.strict => \A s \in Sensors : Truthful(s, cmd.head, receipt[cmd.rec.commit].told[s])
        BY <3>3, <3>4, AgreeTruthful
      <3>6. cmd.strict => Agree(cmd.rec.commit, cmd.head)' /\ \A s \in Sensors : Truthful(s, cmd.head, cmd.told[s])'
        BY <2>1, <3>1, <3>4, <3>5 DEF Agree, Truthful, Findings, Reads
      <3>7. CmdOf' BY <3>1, <3>6 DEF CmdOf
      <3> QED BY <1>r, <2>1, <3>1, <3>7, CommandStep
    <2> QED BY <2>2, <2>3
  <1>6. CASE Conclude
    <2>1. Elsewhere BY <1>6 DEF Conclude, git
    <2>2. cmd.op = "validate" /\ cmd.pc = "checked" /\ cmd.head \in Commits /\ cmd.rec.commit \in Commits
      BY <1>6, <1>c DEF Conclude, At, CmdShape
    <2>3. CmdOf' BY <1>6 DEF Conclude, Verdicts, CmdOf, IdleCmd
    <2>4. ReportOf'
      <3> DEFINE verdict == [head |-> cmd.head, strict |-> cmd.strict, cited |-> cmd.rec.commit, told |-> cmd.told]
      <3>1. report' = verdict \/ report' = Invalid BY <1>6 DEF Conclude, Verdicts
      <3>2. cmd.strict => /\ Agree(cmd.rec.commit, cmd.head)
                          /\ \A s \in Sensors : Truthful(s, cmd.head, cmd.told[s])
        BY <2>2 DEF Evidence, CmdOf
      <3>3. CASE report' = Invalid BY <3>3 DEF ReportOf, Invalid
      <3>4. CASE report' = verdict
        <4>1. /\ report'.head = cmd.head /\ report'.strict = cmd.strict
              /\ report'.cited = cmd.rec.commit /\ report'.told = cmd.told
          BY <3>4
        <4> QED BY <2>1, <2>2, <3>2, <4>1 DEF ReportOf, Commits, Agree, Truthful, Findings, Reads
      <3> QED BY <3>1, <3>3, <3>4
    <2> QED BY <2>1, <2>3, <2>4, CommandStep
  <1> QED BY <1>1, <1>k, <1>2, <1>3, <1>4, <1>5, <1>6 DEF Changing

LEMMA NextEvidence == Types /\ Evidence /\ [Next]_vars => (Types /\ Evidence)'
  <1> SUFFICES ASSUME Types, Evidence, [Next]_vars PROVE Types' /\ Evidence' OBVIOUS
  <1>1. Types' BY NextTypes
  <1>2. CASE Next BY <1>1, <1>2, DeveloperEvidence, SensingEvidence, ChangingEvidence DEF Next
  <1>3. CASE UNCHANGED vars
    <2>1. CmdOf' /\ ReportOf'
      BY <1>3, VerdictsStay DEF vars, Evidence, Commits
    <2> QED BY <1>1, <1>3, <2>1, CommandStep DEF vars
  <1> QED BY <1>2, <1>3

LEMMA InitEvidence == Init => Types /\ Evidence
  <1> SUFFICES ASSUME Init PROVE Evidence BY InitShape
  <1>1. CacheIsTrue BY DEF Init, CacheIsTrue
  <1>2. RunsAreTrue BY IdleIsTrue DEF Init, RunsAreTrue
  <1>3. ReceiptsAreTrue BY DEF Init, ReceiptsAreTrue, ReceiptOf
  <1>4. CmdOf /\ ReportOf BY DEF Init, CmdOf, IdleCmd, ReportOf, Invalid
  <1> QED BY <1>1, <1>2, <1>3, <1>4 DEF Evidence

\* The invariant implies the properties.
LEMMA EvidenceImplies ==
  ASSUME Types, Evidence
  PROVE  CacheIsTrue /\ ReceiptIsTrue /\ StrictIsTrue
  <1>1. \A c \in Commits : c \in 1 .. MaxCommits BY CommitsBound DEF Types
  <1>2. ReceiptIsTrue BY <1>1 DEF Evidence, ReceiptsAreTrue, ReceiptOf, ReceiptIsTrue, Truthful
  <1>3. StrictIsTrue
    <2> SUFFICES ASSUME report.strict, NEW s \in Sensors
                 PROVE  /\ Passes(s, commit[report.cited].tree) => Passes(s, commit[report.head].tree)
                        /\ Truthful(s, report.head, report.told[s])
      BY DEF StrictIsTrue, Truthful
    <2>1. Agree(report.cited, report.head) /\ Truthful(s, report.head, report.told[s])
      BY DEF Evidence, ReportOf
    <2>2. commit[report.cited].tree[Baseline] = commit[report.head].tree[Baseline] BY <2>1 DEF Agree
    <2>3. Findings(s, commit[report.cited].tree) = Findings(s, commit[report.head].tree)
      BY <2>1 DEF Agree, Findings
    <2> QED BY <2>1, <2>2, <2>3 DEF Passes
  <1> QED BY <1>2, <1>3 DEF Evidence

\* What the cache holds is true of the contents its key identifies, whatever the
\* developer edits while the sensors run, but for a file changed twice in the run
\* that wrote it.
THEOREM CacheIsTrueHolds == Spec => []CacheIsTrue
  <1>1. Types /\ Evidence => CacheIsTrue BY EvidenceImplies
  <1> QED BY InitEvidence, NextEvidence, <1>1, PTL DEF Spec

\* What a receipt tells of a sensor that passes is true of the receipt's commit,
\* under the commit's own baseline.
THEOREM ReceiptIsTrueHolds == Spec => []ReceiptIsTrue
  <1>1. Types /\ Evidence => ReceiptIsTrue BY EvidenceImplies
  <1> QED BY InitEvidence, NextEvidence, <1>1, PTL DEF Spec

\* A strict validation that succeeds gives HEAD no worse a verdict than the commit
\* it cites, and vouches for HEAD in all that the receipt told of that commit.
THEOREM StrictIsTrueHolds == Spec => []StrictIsTrue
  <1>1. Types /\ Evidence => StrictIsTrue BY EvidenceImplies
  <1> QED BY InitEvidence, NextEvidence, <1>1, PTL DEF Spec
=============================================================================
