-------------------------- MODULE RequestQueueProofs --------------------------
(***************************************************************************)
(* Theorems of RequestQueue for every set of requests, tasks, keys and      *)
(* payloads and every bound.                                                *)
(***************************************************************************)
EXTENDS RequestQueue, TLAPS

-----------------------------------------------------------------------------
(* The inductive invariant *)

\* What the outcomes of a journal rest on.
Settled(j) ==
    /\ \A r \in Requests : j.ran[r] <= 1 /\ (j.ran[r] # 0 => j.ack[r] # "none")
    /\ \A k \in Keys : j.first[k] # 0 => j.ack[j.first[k]] # "none"

\* What a problem on record says of its request.
Blames(j) ==
    \A r \in Requests :
        /\ j.problem[r] = "corrupt" => ~WellFormed(r)
        /\ j.problem[r] = "rejected" =>
               WellFormed(r) /\ (req[r].payload.kind = "task" => ~req[r].payload.good)
        /\ j.problem[r] = "resolved" => file[r] = "rejected"

\* A problem comes after what its request could know of.
Caused(j) ==
    \A r \in Requests :
        j.problem[r] # "none" => \A q \in req[r].after : Decided(j, q)

\* Nothing is known of a request nobody has seen.
Unknown(j) == \A r \in Requests : file[r] \in {"none", "tmp"} => ~Decided(j, r)

JournalAgrees(j) == Settled(j) /\ Blames(j) /\ Caused(j) /\ Unknown(j)

\* Files come in the order of their ids, and after looks back.
FilesAgree ==
    /\ \A r, q \in Requests : q < r /\ file[r] # "none" => file[q] # "none"
    /\ \A r \in Requests : \A q \in req[r].after : q < r /\ file[q] \notin {"none", "tmp"}

\* The files a batch still has to touch are in the queue, each in one role.
BatchFiles ==
    /\ \A r \in batch.todo \union batch.rename \union batch.remove : file[r] = "json"
    /\ batch.todo \intersect (batch.rename \union batch.remove) = {}
    /\ batch.rename \intersect batch.remove = {}
    /\ pc # "apply" => batch.todo = {}
    /\ pc \in {"off", "idle"} => batch.rename = {} /\ batch.remove = {}

\* What the copy decided is what the batch will do to the files.
Covers(j) ==
    /\ \A r \in batch.remove : j.ack[r] # "none"
    /\ \A r \in batch.rename : j.problem[r] \in {"corrupt", "rejected"}

\* What is still to do has not been touched, and nothing it waits for is lost.
TodoAgrees ==
    \A r \in batch.todo :
        /\ batch.copy.ack[r] = journal.ack[r]
        /\ batch.copy.problem[r] = "none" /\ journal.problem[r] = "none"
        /\ \A q \in req[r].after : Decided(batch.copy, q) \/ q \in batch.todo

\* The copy extends the journal it was read from.
CopyExtends ==
    /\ batch.copy.gen = journal.gen
    /\ \A r \in Requests : Decided(journal, r) => Decided(batch.copy, r)
    /\ \A r \in Requests :
           Decided(batch.copy, r) /\ ~Decided(journal, r) =>
               file[r] = "json" /\ \A q \in req[r].after : Decided(batch.copy, q)
    /\ \A r \in Requests :
           batch.copy.ran[r] # journal.ran[r] =>
               ~Decided(journal, r) /\ req[r].token = journal.gen

Applying == pc = "apply" => Covers(batch.copy) /\ TodoAgrees /\ CopyExtends

Cleaning == pc \in {"cleanup", "recovered"} => Covers(journal)

QueueIInv ==
    /\ QueueTypeOK
    /\ JournalAgrees(journal)
    /\ JournalAgrees(batch.copy)
    /\ FilesAgree
    /\ NoRequestLost
    /\ BatchFiles
    /\ Applying
    /\ Cleaning

-----------------------------------------------------------------------------
(* What an operation on a journal changes *)

LEMMA EmptyAgrees ==
  /\ EmptyJournal \in Journals
  /\ JournalAgrees(EmptyJournal)
<1>1. EmptyJournal \in Journals
  BY DEF EmptyJournal, Journals, Outcomes, ProblemKinds
<1>2. \A r \in Requests : ~Decided(EmptyJournal, r)
  BY DEF EmptyJournal, Decided
<1>3. Settled(EmptyJournal)
  BY DEF EmptyJournal, Settled
<1>4. Blames(EmptyJournal) /\ Caused(EmptyJournal)
  BY DEF EmptyJournal, Blames, Caused
<1>. QED  BY <1>1, <1>2, <1>3, <1>4 DEF JournalAgrees, Unknown

LEMMA PayloadKey ==
  ASSUME QueueTypeOK, NEW r \in Requests, WellFormed(r)
  PROVE  req[r].payload \in Payloads /\ Key(r) \in Keys
  BY PayloadAssumption DEF QueueTypeOK, WellFormed, Key

\* An outcome is recorded for one request and touches no other.
LEMMA AckedFacts ==
  ASSUME NEW j \in Journals, Settled(j), NEW r \in Requests, Key(r) \in Keys,
         NEW outcome \in Outcomes \ {"none"}
  PROVE  LET k == Acked(j, r, outcome)
         IN  /\ k \in Journals
             /\ Settled(k)
             /\ k.ack[r] # "none"
             /\ \A q \in Requests : q # r => k.ack[q] = j.ack[q]
             /\ k.ran = j.ran /\ k.problem = j.problem /\ k.gen = j.gen /\ k.tasks = j.tasks
<1>. DEFINE o == Outcome(j, r, outcome)
            k == Acked(j, r, outcome)
<1>0. /\ j.ack \in [Requests -> Outcomes] /\ j.first \in [Keys -> Requests \union {0}]
      /\ j.ran \in [Requests -> Nat] /\ j.problem \in [Requests -> ProblemKinds]
  BY DEF Journals
<1>1. o \in Outcomes /\ o # "none"
  BY <1>0 DEF Outcome, Settled
<1>2. /\ k = [j EXCEPT !.ack = [j.ack EXCEPT ![r] = o],
                       !.first = [j.first EXCEPT ![Key(r)] = IF j.first[Key(r)] = 0 THEN r ELSE j.first[Key(r)]]]
  BY DEF Acked
<1>3. k.ack = [j.ack EXCEPT ![r] = o]
  BY <1>2 DEF Journals
<1>4. k.first = [j.first EXCEPT ![Key(r)] = IF j.first[Key(r)] = 0 THEN r ELSE j.first[Key(r)]]
  BY <1>2 DEF Journals
<1>5. k.ran = j.ran /\ k.problem = j.problem /\ k.gen = j.gen /\ k.tasks = j.tasks
  BY <1>2 DEF Journals
<1>6. k \in Journals
  <2>1. k.ack \in [Requests -> Outcomes]
    BY <1>0, <1>1, <1>3
  <2>2. k.first \in [Keys -> Requests \union {0}]
    BY <1>0, <1>4
  <2>. QED  BY <1>2, <2>1, <2>2, <1>3, <1>4 DEF Journals
<1>7. k.ack[r] # "none" /\ \A q \in Requests : q # r => k.ack[q] = j.ack[q]
  BY <1>0, <1>1, <1>3
<1>8. Settled(k)
  <2>1. \A q \in Requests : k.ran[q] <= 1 /\ (k.ran[q] # 0 => k.ack[q] # "none")
    BY <1>5, <1>7 DEF Settled
  <2>2. ASSUME NEW x \in Keys, k.first[x] # 0
        PROVE  k.ack[k.first[x]] # "none"
    <3>1. (k.first[x] = j.first[x] /\ j.first[x] # 0) \/ k.first[x] = r
      BY <1>0, <1>4, <2>2
    <3>2. CASE k.first[x] = r
      BY <1>7, <3>2
    <3>3. CASE k.first[x] = j.first[x] /\ j.first[x] # 0
      <4>1. j.first[x] \in Requests /\ j.ack[j.first[x]] # "none"
        BY <1>0, <3>3 DEF Settled
      <4>. QED  BY <1>7, <3>3, <4>1
    <3>. QED  BY <3>1, <3>2, <3>3
  <2>. QED  BY <2>1, <2>2 DEF Settled
<1>. QED  BY <1>5, <1>6, <1>7, <1>8

\* A request is executed for the first time, and no other is touched.
LEMMA ExecutedFacts ==
  ASSUME NEW j \in Journals, Settled(j), NEW r \in Requests, j.ack[r] = "none",
         Key(r) \in Keys, req[r].payload.task \in Tasks
  PROVE  LET k == Executed(j, r)
         IN  /\ k \in Journals
             /\ Settled(k)
             /\ k.ack[r] # "none"
             /\ \A q \in Requests : q # r => k.ack[q] = j.ack[q] /\ k.ran[q] = j.ran[q]
             /\ j.ran[r] = 0 /\ k.ran[r] = 1
             /\ k.problem = j.problem /\ k.gen = j.gen
<1>. DEFINE a == Acked(j, r, "applied")
            k == Executed(j, r)
            p == req[r].payload
<1>1. /\ a \in Journals /\ Settled(a) /\ a.ack[r] # "none"
      /\ \A q \in Requests : q # r => a.ack[q] = j.ack[q]
      /\ a.ran = j.ran /\ a.problem = j.problem /\ a.gen = j.gen /\ a.tasks = j.tasks
  BY AckedFacts DEF Outcomes
<1>2. k = [a EXCEPT !.tasks = IF p.kind = "task" THEN a.tasks \union {p.task} ELSE a.tasks,
                    !.ran = [a.ran EXCEPT ![r] = a.ran[r] + 1]]
  BY DEF Executed
<1>3. /\ k.ack = a.ack /\ k.first = a.first /\ k.problem = a.problem /\ k.gen = a.gen
      /\ k.ran = [a.ran EXCEPT ![r] = a.ran[r] + 1]
  BY <1>1, <1>2 DEF Journals
<1>4. j.ran \in [Requests -> Nat] /\ j.ran[r] = 0
  BY DEF Journals, Settled
<1>5. k.ran[r] = 1 /\ \A q \in Requests : q # r => k.ran[q] = j.ran[q]
  BY <1>1, <1>3, <1>4
<1>6. k \in Journals
  <2>1. k.ran \in [Requests -> Nat]
    BY <1>1, <1>3, <1>4
  <2>2. k.tasks \in SUBSET Tasks
    BY <1>1, <1>2 DEF Journals
  <2>. QED  BY <1>1, <1>2, <1>3, <2>1, <2>2 DEF Journals
<1>7. Settled(k)
  BY <1>1, <1>3, <1>5 DEF Settled
<1>. QED  BY <1>1, <1>3, <1>4, <1>5, <1>6, <1>7

Blamed(j, r, kind) == [j EXCEPT !.problem[r] = kind]

\* A problem is recorded and nothing else.
LEMMA BlamedFacts ==
  ASSUME NEW j \in Journals, Settled(j), NEW r \in Requests, NEW kind \in ProblemKinds
  PROVE  LET k == Blamed(j, r, kind)
         IN  /\ k \in Journals
             /\ Settled(k)
             /\ k.problem[r] = kind
             /\ \A q \in Requests : q # r => k.problem[q] = j.problem[q]
             /\ k.ack = j.ack /\ k.ran = j.ran /\ k.gen = j.gen /\ k.tasks = j.tasks
  BY DEF Blamed, Journals, Settled

-----------------------------------------------------------------------------
(* One request of a batch *)

\* What every action that consumes a request does.
Consumes(r) ==
    /\ pc = "apply"
    /\ r \in batch.todo
    /\ \A q \in batch.todo : r <= q
    /\ UNCHANGED <<req, file, journal, pc, downs>>
    /\ batch'.todo = batch.todo \ {r}
    /\ \/ /\ batch'.remove = batch.remove \union {r}
          /\ batch'.rename = batch.rename
          /\ batch'.copy.ack[r] # "none"
          /\ batch'.copy.problem[r] = batch.copy.problem[r]
       \/ /\ batch'.rename = batch.rename \union {r}
          /\ batch'.remove = batch.remove
          /\ \/ batch'.copy.problem[r] = "corrupt" /\ ~WellFormed(r)
             \/ /\ batch'.copy.problem[r] = "rejected" /\ WellFormed(r)
                /\ req[r].payload.kind = "task" => ~req[r].payload.good
    /\ batch' \in Batches
    /\ Settled(batch'.copy)
    /\ batch'.copy.gen = batch.copy.gen
    /\ \A q \in Requests :
           q # r => /\ batch'.copy.ack[q] = batch.copy.ack[q]
                    /\ batch'.copy.problem[q] = batch.copy.problem[q]
                    /\ batch'.copy.ran[q] = batch.copy.ran[q]
    /\ batch'.copy.ran[r] # batch.copy.ran[r] =>
           batch.copy.ack[r] = "none" /\ req[r].token = batch.copy.gen

LEMMA ConsumeFacts ==
  ASSUME QueueIInv, NEW r \in Requests, Consume(r)
  PROVE  Consumes(r)
<1>0. /\ batch \in Batches /\ batch.copy \in Journals /\ Settled(batch.copy)
      /\ Upcoming(r)
  BY DEF QueueIInv, QueueTypeOK, Batches, JournalAgrees, Consume, ConsumeMalformed, ConsumeReplay,
         ConsumeMismatch, ConsumeStale, ConsumeApplied, ConsumeInvalid
<1>1. ASSUME NEW k \in Journals, ToRemove(r, k)
      PROVE  /\ batch' \in Batches /\ batch'.copy = k /\ batch'.todo = batch.todo \ {r}
             /\ batch'.remove = batch.remove \union {r} /\ batch'.rename = batch.rename
             /\ UNCHANGED <<req, file, journal, pc, downs>>
  BY <1>0, <1>1 DEF ToRemove, Batches
<1>2. ASSUME NEW k \in Journals, ToRename(r, k)
      PROVE  /\ batch' \in Batches /\ batch'.copy = k /\ batch'.todo = batch.todo \ {r}
             /\ batch'.rename = batch.rename \union {r} /\ batch'.remove = batch.remove
             /\ UNCHANGED <<req, file, journal, pc, downs>>
  BY <1>0, <1>2 DEF ToRename, Batches
<1>3. WellFormed(r) => Key(r) \in Keys /\ req[r].payload.task \in Tasks
  BY PayloadKey, PayloadAssumption DEF QueueIInv
<1>4. pc = "apply" /\ r \in batch.todo /\ \A q \in batch.todo : r <= q
  BY <1>0 DEF Upcoming
<1>11. "corrupt" \in ProblemKinds /\ "rejected" \in ProblemKinds
  BY DEF ProblemKinds
<1>5. CASE ConsumeMalformed(r)
  <2>1. ~WellFormed(r) /\ ToRename(r, [batch.copy EXCEPT !.problem[r] = "corrupt"])
    BY <1>5 DEF ConsumeMalformed
  <2>. DEFINE k == Blamed(batch.copy, r, "corrupt")
  <2>2. /\ k \in Journals /\ Settled(k) /\ k.problem[r] = "corrupt"
        /\ \A q \in Requests : q # r => k.problem[q] = batch.copy.problem[q]
        /\ k.ack = batch.copy.ack /\ k.ran = batch.copy.ran /\ k.gen = batch.copy.gen
    <3>1. batch.copy \in Journals /\ Settled(batch.copy) /\ "corrupt" \in ProblemKinds
      BY <1>0, <1>11
    <3>. QED  BY <3>1, BlamedFacts
  <2>3. ToRename(r, k)
    BY <2>1 DEF Blamed
  <2>. HIDE DEF k
  <2>. QED  BY <1>2, <1>4, <2>1, <2>2, <2>3 DEF Consumes
<1>6. CASE ConsumeReplay(r)
  <2>1. batch.copy.ack[r] # "none" /\ ToRemove(r, batch.copy)
    BY <1>6 DEF ConsumeReplay, Replayed
  <2>. QED  BY <1>0, <1>1, <1>4, <2>1 DEF Consumes
<1>7. CASE ConsumeMismatch(r)
  <2>1. WellFormed(r) /\ ToRemove(r, Acked(batch.copy, r, "rejected-digest-mismatch"))
    BY <1>7 DEF ConsumeMismatch, Fresh
  <2>. QED  BY <1>0, <1>1, <1>3, <1>4, <2>1, AckedFacts DEF Consumes, Outcomes
<1>8. CASE ConsumeStale(r)
  <2>1. WellFormed(r) /\ ToRemove(r, Acked(batch.copy, r, "rejected-stale-generation"))
    BY <1>8 DEF ConsumeStale, Fresh
  <2>. QED  BY <1>0, <1>1, <1>3, <1>4, <2>1, AckedFacts DEF Consumes, Outcomes
<1>9. CASE ConsumeApplied(r)
  <2>1. /\ WellFormed(r) /\ batch.copy.ack[r] = "none" /\ req[r].token = batch.copy.gen
        /\ ToRemove(r, Executed(batch.copy, r))
    BY <1>9 DEF ConsumeApplied, Fresh, Current
  <2>. QED  BY <1>0, <1>1, <1>3, <1>4, <2>1, ExecutedFacts DEF Consumes
<1>10. CASE ConsumeInvalid(r)
  <2>1. /\ WellFormed(r) /\ ~Accepts(batch.copy, req[r].payload)
        /\ ToRename(r, [batch.copy EXCEPT !.problem[r] = "rejected"])
    BY <1>10 DEF ConsumeInvalid, Fresh
  <2>2. req[r].payload.kind = "task" => ~req[r].payload.good
    BY <2>1 DEF Accepts
  <2>. DEFINE k == Blamed(batch.copy, r, "rejected")
  <2>3. /\ k \in Journals /\ Settled(k) /\ k.problem[r] = "rejected"
        /\ \A q \in Requests : q # r => k.problem[q] = batch.copy.problem[q]
        /\ k.ack = batch.copy.ack /\ k.ran = batch.copy.ran /\ k.gen = batch.copy.gen
    <3>1. batch.copy \in Journals /\ Settled(batch.copy) /\ "rejected" \in ProblemKinds
      BY <1>0, <1>11
    <3>. QED  BY <3>1, BlamedFacts
  <2>4. ToRename(r, k)
    BY <2>1 DEF Blamed
  <2>. HIDE DEF k
  <2>. QED  BY <1>2, <1>4, <2>1, <2>2, <2>3, <2>4 DEF Consumes
<1>. QED  BY <1>5, <1>6, <1>7, <1>8, <1>9, <1>10 DEF Consume

LEMMA ConsumePreserves ==
  ASSUME QueueIInv, NEW r \in Requests, Consume(r)
  PROVE  QueueIInv'
<1>1. Consumes(r)
  BY ConsumeFacts
<1>2. QueueTypeOK'
  BY <1>1 DEF Consumes, QueueIInv, QueueTypeOK
<1>3. file[r] = "json" /\ r \notin batch.rename /\ r \notin batch.remove
  BY <1>1 DEF Consumes, QueueIInv, BatchFiles
<1>4. /\ batch.copy.ack[r] = journal.ack[r]
      /\ batch.copy.problem[r] = "none" /\ journal.problem[r] = "none"
      /\ \A q \in req[r].after : Decided(batch.copy, q) \/ q \in batch.todo
  BY <1>1 DEF Consumes, QueueIInv, Applying, TodoAgrees
<1>5. \A q \in req[r].after : q < r /\ q \in Requests
  BY DEF QueueIInv, FilesAgree, QueueTypeOK
<1>6. \A q \in req[r].after : Decided(batch.copy, q) /\ q # r
  <2>. SUFFICES ASSUME NEW q \in req[r].after  PROVE Decided(batch.copy, q) /\ q # r
    OBVIOUS
  <2>1. q < r /\ q \in Nat /\ r \in Nat
    BY <1>5, RequestsAssumption
  <2>2. ~(r <= q)
    BY <2>1
  <2>. QED  BY <1>1, <1>4, <2>1, <2>2 DEF Consumes
<1>7. \A q \in Requests : q # r => (Decided(batch.copy, q)' <=> Decided(batch.copy, q))
  BY <1>1 DEF Consumes, Decided
<1>8. Decided(batch.copy, r)'
  BY <1>1 DEF Consumes, Decided
<1>9. \A q \in Requests : Decided(batch.copy, q) => Decided(batch.copy, q)'
  BY <1>7, <1>8
<1>10. JournalAgrees(journal)'
  BY <1>1 DEF Consumes, QueueIInv, JournalAgrees, Settled, Blames, Caused, Unknown, Decided, WellFormed
<1>11. JournalAgrees(batch.copy)'
  <2>1. Settled(batch.copy)'
    BY <1>1 DEF Consumes, Settled
  <2>2. Blames(batch.copy)'
    <3>. SUFFICES ASSUME NEW q \in Requests
                  PROVE  /\ batch'.copy.problem[q] = "corrupt" => ~WellFormed(q)
                         /\ batch'.copy.problem[q] = "rejected" =>
                              WellFormed(q) /\ (req[q].payload.kind = "task" => ~req[q].payload.good)
                         /\ batch'.copy.problem[q] = "resolved" => file[q] = "rejected"
      BY <1>1 DEF Consumes, Blames, WellFormed
    <3>1. CASE q = r
      BY <1>1, <1>4, <3>1 DEF Consumes
    <3>2. CASE q # r
      BY <1>1, <3>2 DEF Consumes, QueueIInv, JournalAgrees, Blames
    <3>. QED  BY <3>1, <3>2
  <2>3. Caused(batch.copy)'
    <3>. SUFFICES ASSUME NEW q \in Requests, batch'.copy.problem[q] # "none", NEW x \in req[q].after
                  PROVE  Decided(batch.copy, x)'
      BY <1>1 DEF Consumes, Caused
    <3>1. Decided(batch.copy, x)
      BY <1>1, <1>6 DEF Consumes, QueueIInv, JournalAgrees, Caused
    <3>2. x \in Requests
      BY DEF QueueIInv, QueueTypeOK
    <3>. QED  BY <1>9, <3>1, <3>2
  <2>4. Unknown(batch.copy)'
    BY <1>1, <1>3, <1>7 DEF Consumes, QueueIInv, JournalAgrees, Unknown
  <2>. QED  BY <2>1, <2>2, <2>3, <2>4 DEF JournalAgrees
<1>12. FilesAgree' /\ NoRequestLost'
  BY <1>1 DEF Consumes, QueueIInv, FilesAgree, NoRequestLost, Decided
<1>13. BatchFiles'
  BY <1>1, <1>3 DEF Consumes, QueueIInv, BatchFiles
<1>14. Applying'
  <2>0. Covers(batch.copy) /\ TodoAgrees /\ CopyExtends
    BY <1>1 DEF QueueIInv, Applying, Consumes
  <2>1. Covers(batch.copy)'
    <3>1. batch.remove \subseteq Requests /\ batch.rename \subseteq Requests
      BY DEF QueueIInv, QueueTypeOK, Batches
    <3>2. \A q \in batch'.remove : batch'.copy.ack[q] # "none"
      BY <1>1, <1>3, <2>0, <3>1 DEF Consumes, Covers
    <3>3. \A q \in batch'.rename : batch'.copy.problem[q] \in {"corrupt", "rejected"}
      BY <1>1, <1>3, <2>0, <3>1 DEF Consumes, Covers
    <3>. QED  BY <3>2, <3>3 DEF Covers
  <2>2. TodoAgrees'
    <3>. SUFFICES ASSUME NEW q \in batch'.todo
                  PROVE  /\ batch'.copy.ack[q] = journal.ack[q]
                         /\ batch'.copy.problem[q] = "none" /\ journal.problem[q] = "none"
                         /\ \A x \in req[q].after : Decided(batch.copy, x)' \/ x \in batch'.todo
      BY <1>1 DEF Consumes, TodoAgrees
    <3>1. q \in batch.todo /\ q # r /\ q \in Requests
      BY <1>1 DEF Consumes, QueueIInv, QueueTypeOK, Batches
    <3>2. \A x \in req[q].after : x \in Requests
      BY <3>1 DEF QueueIInv, QueueTypeOK
    <3>3. \A x \in req[q].after : Decided(batch.copy, x) \/ x \in batch.todo
      BY <2>0, <3>1 DEF TodoAgrees
    <3>4. \A x \in req[q].after : Decided(batch.copy, x)' \/ x \in batch'.todo
      BY <1>1, <1>8, <1>9, <3>2, <3>3 DEF Consumes
    <3>. QED  BY <1>1, <2>0, <3>1, <3>4 DEF Consumes, TodoAgrees
  <2>3. CopyExtends'
    <3>1. batch'.copy.gen = journal'.gen
      BY <1>1, <2>0 DEF Consumes, CopyExtends
    <3>2. \A q \in Requests : Decided(journal, q)' => Decided(batch.copy, q)'
      BY <1>1, <1>9, <2>0 DEF Consumes, CopyExtends, Decided
    <3>3. ASSUME NEW q \in Requests, Decided(batch.copy, q)', ~Decided(journal, q)'
          PROVE  file'[q] = "json" /\ \A x \in req'[q].after : Decided(batch.copy, x)'
      <4>1. ~Decided(journal, q)
        BY <1>1, <3>3 DEF Consumes, Decided
      <4>2. file[q] = "json" /\ \A x \in req[q].after : Decided(batch.copy, x)
        <5>1. CASE q = r
          BY <1>3, <1>6, <5>1
        <5>2. CASE q # r
          BY <1>7, <2>0, <3>3, <4>1, <5>2 DEF CopyExtends
        <5>. QED  BY <5>1, <5>2
      <4>3. \A x \in req[q].after : x \in Requests
        BY DEF QueueIInv, QueueTypeOK
      <4>. QED  BY <1>1, <1>9, <4>2, <4>3 DEF Consumes
    <3>4. ASSUME NEW q \in Requests, batch'.copy.ran[q] # journal'.ran[q]
          PROVE  ~Decided(journal, q)' /\ req'[q].token = journal'.gen
      <4>1. CASE batch.copy.ran[q] # journal.ran[q]
        BY <1>1, <2>0, <4>1 DEF Consumes, CopyExtends, Decided
      <4>2. CASE batch.copy.ran[q] = journal.ran[q]
        <5>1. q = r /\ batch'.copy.ran[q] # batch.copy.ran[q]
          BY <1>1, <3>4, <4>2 DEF Consumes
        <5>2. batch.copy.ack[r] = "none" /\ req[r].token = batch.copy.gen
          BY <1>1, <5>1 DEF Consumes
        <5>3. ~Decided(journal, r)
          BY <1>4, <5>2 DEF Decided
        <5>. QED  BY <1>1, <2>0, <5>1, <5>2, <5>3 DEF Consumes, CopyExtends, Decided
      <4>. QED  BY <4>1, <4>2
    <3>. QED  BY <3>1, <3>2, <3>3, <3>4 DEF CopyExtends
  <2>. QED  BY <2>1, <2>2, <2>3 DEF Applying
<1>15. Cleaning'
  BY <1>1 DEF Consumes, Cleaning
<1>. QED  BY <1>2, <1>10, <1>11, <1>12, <1>13, <1>14, <1>15 DEF QueueIInv

-----------------------------------------------------------------------------
(* The other actions *)

LEMMA InitAgrees == Init => QueueIInv
<1>. SUFFICES ASSUME Init  PROVE QueueIInv
  OBVIOUS
<1>1. NoBatch \in Batches /\ NoBatch.copy = EmptyJournal
  BY EmptyAgrees DEF NoBatch, Batches
<1>2. QueueTypeOK
  BY <1>1, EmptyAgrees, BoundAssumption DEF Init, QueueTypeOK, FileStates
<1>3. JournalAgrees(journal) /\ JournalAgrees(batch.copy)
  BY <1>1, EmptyAgrees DEF Init
<1>. QED  BY <1>2, <1>3
          DEF Init, QueueIInv, FilesAgree, NoRequestLost, BatchFiles, NoBatch, Applying, Cleaning

LEMMA EmitPreserves ==
  ASSUME QueueIInv, NEW r \in Requests, NEW p \in Payloads, NEW g \in 1 .. journal.gen, Emit(r, p, g)
  PROVE  QueueIInv'
<1>0. /\ file[r] = "none" /\ file' = [file EXCEPT ![r] = "tmp"]
      /\ \A q \in Requests : q < r => file[q] # "none"
      /\ UNCHANGED <<journal, batch, pc, downs>>
  BY DEF Emit, NextId
<1>1. /\ file \in [Requests -> FileStates] /\ req \in [Requests -> [payload : Payloads \union {NoPayload},
                   token : Nat, after : SUBSET Requests]]
      /\ journal \in Journals /\ journal.gen \in Nat
  BY DEF QueueIInv, QueueTypeOK, Journals
<1>2. \A q \in Requests : q # r => file'[q] = file[q] /\ req'[q] = req[q]
  BY <1>0, <1>1 DEF Emit
<1>3. file'[r] = "tmp" /\ req'[r].after = {q \in Requests : file[q] \notin {"none", "tmp"}}
  BY <1>0, <1>1 DEF Emit
<1>4. /\ ~Decided(journal, r) /\ ~Decided(batch.copy, r)
      /\ r \notin batch.todo /\ r \notin batch.rename /\ r \notin batch.remove
  BY <1>0 DEF QueueIInv, JournalAgrees, Unknown, BatchFiles
<1>5. QueueTypeOK'
  <2>1. req' \in [Requests -> [payload : Payloads \union {NoPayload}, token : Nat, after : SUBSET Requests]]
    <3>1. g \in Nat
      BY <1>1
    <3>. QED  BY <1>1, <3>1 DEF Emit
  <2>2. file' \in [Requests -> FileStates]
    BY <1>0, <1>1 DEF FileStates
  <2>. QED  BY <1>0, <2>1, <2>2 DEF QueueIInv, QueueTypeOK
<1>6. ASSUME NEW j, JournalAgrees(j), ~Decided(j, r)
      PROVE  JournalAgrees(j)'
  <2>1. Settled(j)'
    BY <1>6 DEF JournalAgrees, Settled
  <2>2. Blames(j)'
    BY <1>2, <1>6 DEF JournalAgrees, Blames, Decided, WellFormed
  <2>3. Caused(j)'
    BY <1>2, <1>6 DEF JournalAgrees, Caused, Decided
  <2>4. Unknown(j)'
    BY <1>2, <1>6 DEF JournalAgrees, Unknown, Decided
  <2>. QED  BY <2>1, <2>2, <2>3, <2>4 DEF JournalAgrees
<1>7. JournalAgrees(journal)' /\ JournalAgrees(batch.copy)'
  BY <1>0, <1>4, <1>6 DEF QueueIInv
<1>8. FilesAgree'
  <2>1. \A x, q \in Requests : q < x /\ file'[x] # "none" => file'[q] # "none"
    <3>. SUFFICES ASSUME NEW x \in Requests, NEW q \in Requests, q < x, file'[x] # "none"
                  PROVE  file'[q] # "none"
      OBVIOUS
    <3>1. CASE x = r
      BY <1>0, <1>2, <1>3, <3>1
    <3>2. CASE x # r
      BY <1>2, <1>3, <3>2 DEF QueueIInv, FilesAgree
    <3>. QED  BY <3>1, <3>2
  <2>2. \A x \in Requests : \A q \in req'[x].after : q < x /\ file'[q] \notin {"none", "tmp"}
    <3>. SUFFICES ASSUME NEW x \in Requests, NEW q \in req'[x].after
                  PROVE  q < x /\ file'[q] \notin {"none", "tmp"}
      OBVIOUS
    <3>1. CASE x = r
      <4>1. q \in Requests /\ file[q] \notin {"none", "tmp"} /\ q # r
        BY <1>0, <1>3, <3>1
      <4>2. ~(r < q)
        BY <1>0, <4>1 DEF QueueIInv, FilesAgree
      <4>3. q < r
        <5>1. q \in Nat /\ r \in Nat
          BY <4>1, RequestsAssumption
        <5>. QED  BY <4>1, <4>2, <5>1
      <4>. QED  BY <1>2, <3>1, <4>1, <4>3
    <3>2. CASE x # r
      <4>1. q \in req[x].after /\ q \in Requests
        BY <1>1, <1>2, <3>2
      <4>2. q < x /\ file[q] \notin {"none", "tmp"} /\ q # r
        BY <1>0, <4>1 DEF QueueIInv, FilesAgree
      <4>. QED  BY <1>2, <4>1, <4>2
    <3>. QED  BY <3>1, <3>2
  <2>. QED  BY <2>1, <2>2 DEF FilesAgree
<1>9. NoRequestLost'
  BY <1>0, <1>2, <1>3 DEF QueueIInv, NoRequestLost, Decided
<1>10. BatchFiles'
  <2>1. batch.todo \union batch.rename \union batch.remove \subseteq Requests
    BY DEF QueueIInv, QueueTypeOK, Batches
  <2>. QED  BY <1>0, <1>2, <1>4, <2>1 DEF QueueIInv, BatchFiles
<1>11. Applying'
  <2>. SUFFICES ASSUME pc = "apply"  PROVE Covers(batch.copy)' /\ TodoAgrees' /\ CopyExtends'
    BY <1>0 DEF Applying
  <2>0. Covers(batch.copy) /\ TodoAgrees /\ CopyExtends
    BY DEF QueueIInv, Applying
  <2>1. Covers(batch.copy)'
    BY <1>0, <2>0 DEF Covers
  <2>2. TodoAgrees'
    <3>1. \A q \in batch.todo : q # r /\ q \in Requests
      BY <1>4 DEF QueueIInv, QueueTypeOK, Batches
    <3>. QED  BY <1>0, <1>2, <2>0, <3>1 DEF TodoAgrees, Decided
  <2>3. CopyExtends'
    <3>1. batch.copy.ran[r] = journal.ran[r]
      <4>1. batch.copy.ack[r] = "none" /\ journal.ack[r] = "none"
        BY <1>4 DEF Decided
      <4>2. batch.copy.ran[r] = 0 /\ journal.ran[r] = 0
        BY <4>1 DEF QueueIInv, JournalAgrees, Settled
      <4>. QED  BY <4>2
    <3>. QED  BY <1>0, <1>2, <1>4, <2>0, <3>1 DEF CopyExtends, Decided
  <2>. QED  BY <2>1, <2>2, <2>3
<1>12. Cleaning'
  BY <1>0 DEF QueueIInv, Cleaning, Covers
<1>. QED  BY <1>5, <1>7, <1>8, <1>9, <1>10, <1>11, <1>12 DEF QueueIInv

\* The file of a request becomes visible, or moves on once it was seen.
LEMMA FileMoves ==
  ASSUME QueueIInv, NEW r \in Requests, NEW to \in FileStates \ {"none", "tmp"},
         file' = [file EXCEPT ![r] = to], UNCHANGED <<req, journal>>,
         \/ to = "json" /\ file[r] = "tmp"
         \/ to = "json" /\ file[r] = "none" /\ \A q \in Requests : q < r => file[q] # "none"
         \/ to # "json" /\ file[r] = "json" /\ Decided(journal, r)
  PROVE  /\ file' \in [Requests -> FileStates]
         /\ \A q \in Requests : q # r => file'[q] = file[q]
         /\ file'[r] = to
         /\ FilesAgree'
         /\ NoRequestLost'
         /\ \A j : JournalAgrees(j) => JournalAgrees(j)'
<1>0. file \in [Requests -> FileStates]
  BY DEF QueueIInv, QueueTypeOK
<1>1. /\ file' \in [Requests -> FileStates] /\ file'[r] = to
      /\ \A q \in Requests : q # r => file'[q] = file[q]
  BY <1>0
<1>2. FilesAgree'
  <2>1. \A x, q \in Requests : q < x /\ file'[x] # "none" => file'[q] # "none"
    <3>. SUFFICES ASSUME NEW x \in Requests, NEW q \in Requests, q < x, file'[x] # "none", q # r
                  PROVE  file[q] # "none"
      BY <1>1
    <3>1. CASE x = r
      BY <3>1 DEF QueueIInv, FilesAgree
    <3>2. CASE x # r
      BY <1>1, <3>2 DEF QueueIInv, FilesAgree
    <3>. QED  BY <3>1, <3>2
  <2>2. \A x \in Requests : \A q \in req'[x].after : q < x /\ file'[q] \notin {"none", "tmp"}
    <3>1. \A x \in Requests : \A q \in req[x].after :
             q \in Requests /\ q < x /\ file[q] \notin {"none", "tmp"}
      BY DEF QueueIInv, FilesAgree, QueueTypeOK
    <3>. QED  BY <1>1, <3>1
  <2>. QED  BY <2>1, <2>2 DEF FilesAgree
<1>3. NoRequestLost'
  BY <1>1 DEF QueueIInv, NoRequestLost, Decided
<1>4. ASSUME NEW j, JournalAgrees(j)
      PROVE  JournalAgrees(j)'
  <2>1. Settled(j)'
    BY <1>4 DEF JournalAgrees, Settled
  <2>2. Blames(j)'
    <3>1. \A q \in Requests : file[q] = "rejected" => file'[q] = "rejected"
      BY <1>1
    <3>. QED  BY <1>4, <3>1 DEF JournalAgrees, Blames, WellFormed
  <2>3. Caused(j)'
    BY <1>4 DEF JournalAgrees, Caused, Decided
  <2>4. Unknown(j)'
    <3>1. \A q \in Requests : file'[q] \in {"none", "tmp"} => file[q] \in {"none", "tmp"}
      BY <1>1
    <3>. QED  BY <1>4, <3>1 DEF JournalAgrees, Unknown, Decided
  <2>. QED  BY <2>1, <2>2, <2>3, <2>4 DEF JournalAgrees
<1>. QED  BY <1>1, <1>2, <1>3, <1>4

\* Publish and Litter.
LEMMA ShowPreserves ==
  ASSUME QueueIInv, NEW r \in Requests, Publish(r) \/ Litter(r)
  PROVE  QueueIInv'
<1>0. /\ file' = [file EXCEPT ![r] = "json"] /\ UNCHANGED <<req, journal, batch, pc, downs>>
      /\ file[r] = "tmp" \/ (file[r] = "none" /\ \A q \in Requests : q < r => file[q] # "none")
  BY DEF Publish, Litter, NextId
<1>1. /\ file' \in [Requests -> FileStates] /\ file'[r] = "json"
      /\ \A q \in Requests : q # r => file'[q] = file[q]
      /\ FilesAgree' /\ NoRequestLost' /\ \A j : JournalAgrees(j) => JournalAgrees(j)'
  <2>1. "json" \in FileStates \ {"none", "tmp"}
    BY DEF FileStates
  <2>. QED  BY <1>0, <2>1, FileMoves
<1>2. JournalAgrees(journal)' /\ JournalAgrees(batch.copy)'
  BY <1>0, <1>1 DEF QueueIInv
<1>3. QueueTypeOK'
  BY <1>0, <1>1 DEF QueueIInv, QueueTypeOK
<1>4. \A q \in Requests : file[q] = "json" => file'[q] = "json"
  BY <1>1
<1>5. BatchFiles'
  <2>1. batch.todo \union batch.rename \union batch.remove \subseteq Requests
    BY DEF QueueIInv, QueueTypeOK, Batches
  <2>. QED  BY <1>0, <1>4, <2>1 DEF QueueIInv, BatchFiles
<1>6. Applying'
  BY <1>0, <1>4 DEF QueueIInv, Applying, Covers, TodoAgrees, CopyExtends, Decided
<1>7. Cleaning'
  BY <1>0 DEF QueueIInv, Cleaning, Covers
<1>. QED  BY <1>1, <1>2, <1>3, <1>5, <1>6, <1>7 DEF QueueIInv

\* Rename and Remove.
LEMMA MovePreserves ==
  ASSUME QueueIInv, NEW r \in Requests, Rename(r) \/ Remove(r)
  PROVE  QueueIInv'
<1>0. /\ pc \in {"cleanup", "recovered"} /\ r \in batch.rename \union batch.remove
      /\ Covers(journal) /\ file[r] = "json" /\ batch.todo = {}
  BY DEF Rename, Remove, QueueIInv, Cleaning, BatchFiles
<1>1. /\ UNCHANGED <<req, journal, pc, downs>>
      /\ \/ /\ r \in batch.rename /\ file' = [file EXCEPT ![r] = journal.problem[r]]
            /\ batch' = [batch EXCEPT !.rename = batch.rename \ {r}]
         \/ /\ r \in batch.remove /\ file' = [file EXCEPT ![r] = "removed"]
            /\ batch' = [batch EXCEPT !.remove = batch.remove \ {r}]
  BY DEF Rename, Remove
<1>2. Decided(journal, r)
  BY <1>0 DEF Covers, Decided
<1>3. PICK to \in FileStates \ {"none", "tmp", "json"} : file' = [file EXCEPT ![r] = to]
  <2>1. CASE r \in batch.rename /\ file' = [file EXCEPT ![r] = journal.problem[r]]
    BY <1>0, <2>1 DEF Covers, FileStates
  <2>2. CASE file' = [file EXCEPT ![r] = "removed"]
    BY <2>2 DEF FileStates
  <2>. QED  BY <1>1, <2>1, <2>2
<1>4. /\ file' \in [Requests -> FileStates]
      /\ \A q \in Requests : q # r => file'[q] = file[q]
      /\ FilesAgree' /\ NoRequestLost' /\ \A j : JournalAgrees(j) => JournalAgrees(j)'
  <2>1. to \in FileStates \ {"none", "tmp"} /\ to # "json" /\ UNCHANGED <<req, journal>>
    BY <1>1
  <2>. QED  BY <1>0, <1>2, <1>3, <2>1, FileMoves
<1>5. /\ batch' \in Batches /\ batch'.copy = batch.copy /\ batch'.todo = {}
      /\ batch'.rename \subseteq batch.rename /\ batch'.remove \subseteq batch.remove
      /\ r \notin batch'.rename /\ r \notin batch'.remove
  <2>1. batch \in Batches /\ r \notin batch.rename \intersect batch.remove
    BY DEF QueueIInv, QueueTypeOK, BatchFiles
  <2>. QED  BY <1>0, <1>1, <2>1 DEF Batches
<1>6. JournalAgrees(journal)' /\ JournalAgrees(batch.copy)'
  BY <1>1, <1>4, <1>5 DEF QueueIInv
<1>7. QueueTypeOK'
  BY <1>1, <1>4, <1>5 DEF QueueIInv, QueueTypeOK
<1>8. BatchFiles'
  <2>1. batch'.rename \union batch'.remove \subseteq Requests
    BY <1>5 DEF Batches
  <2>2. \A q \in batch'.rename \union batch'.remove : file'[q] = "json"
    BY <1>4, <1>5, <2>1 DEF QueueIInv, BatchFiles
  <2>3. batch'.rename \intersect batch'.remove = {}
    BY <1>5 DEF QueueIInv, BatchFiles
  <2>. QED  BY <1>0, <1>1, <1>5, <2>2, <2>3 DEF BatchFiles
<1>9. Applying' /\ Cleaning'
  BY <1>0, <1>1, <1>5 DEF Applying, Cleaning, Covers
<1>. QED  BY <1>4, <1>6, <1>7, <1>8, <1>9 DEF QueueIInv

\* The journal changes in its status, its generation or its controller only,
\* and no batch is under way.
LEMMA JournalMoves ==
  ASSUME QueueIInv, UNCHANGED <<req, file, batch, downs>>, pc \in {"off", "idle"}, pc' \in {"off", "idle"},
         journal' \in Journals,
         journal'.ack = journal.ack, journal'.first = journal.first,
         journal'.problem = journal.problem, journal'.ran = journal.ran
  PROVE  QueueIInv'
<1>1. JournalAgrees(journal)'
  BY DEF QueueIInv, JournalAgrees, Settled, Blames, Caused, Unknown, Decided, WellFormed
<1>2. JournalAgrees(batch.copy)'
  BY DEF QueueIInv, JournalAgrees, Settled, Blames, Caused, Unknown, Decided, WellFormed
<1>3. QueueTypeOK' /\ FilesAgree' /\ NoRequestLost' /\ BatchFiles'
  BY DEF QueueIInv, QueueTypeOK, FilesAgree, NoRequestLost, Decided, BatchFiles
<1>. QED  BY <1>1, <1>2, <1>3 DEF QueueIInv, Applying, Cleaning

LEMMA QuietPreserves ==
  ASSUME QueueIInv, Start \/ EnterCustody \/ BeginGeneration \/ \E r \in Requests : ResumeCycle(r)
  PROVE  QueueIInv'
<1>1. journal \in Journals
  BY DEF QueueIInv, QueueTypeOK
<1>2. CASE Start
  BY <1>1, <1>2, JournalMoves DEF Start
<1>3. CASE EnterCustody
  BY <1>1, <1>3, JournalMoves DEF EnterCustody, Running, Journals
<1>4. CASE BeginGeneration
  <2>1. journal.gen + 1 \in Nat
    BY <1>1 DEF Journals
  <2>2. /\ journal' \in Journals
        /\ journal'.ack = journal.ack /\ journal'.first = journal.first
        /\ journal'.problem = journal.problem /\ journal'.ran = journal.ran
    BY <1>1, <1>4, <2>1 DEF BeginGeneration, Journals
  <2>. QED  BY <1>4, <2>2, JournalMoves DEF BeginGeneration, Running
<1>5. CASE \E r \in Requests : ResumeCycle(r)
  BY <1>1, <1>5, JournalMoves DEF ResumeCycle, Resumed, Journals
<1>. QED  BY <1>2, <1>3, <1>4, <1>5

\* The batch ends, or is forgotten, and the disk is what it was.
LEMMA BatchEnds ==
  ASSUME QueueIInv, EndBatch \/ GoDown
  PROVE  QueueIInv'
<1>1. /\ UNCHANGED <<req, file, journal>> /\ pc' \in {"off", "idle"}
      /\ batch' \in Batches /\ JournalAgrees(batch'.copy)
      /\ batch'.todo = {} /\ batch'.rename = {} /\ batch'.remove = {}
  <2>1. CASE EndBatch
    BY <2>1 DEF EndBatch, QueueIInv, QueueTypeOK, BatchFiles
  <2>2. CASE GoDown
    <3>1. NoBatch \in Batches /\ NoBatch.copy = EmptyJournal
          /\ NoBatch.todo = {} /\ NoBatch.rename = {} /\ NoBatch.remove = {}
      BY EmptyAgrees DEF NoBatch, Batches
    <3>. QED  BY <2>2, <3>1, EmptyAgrees DEF GoDown
  <2>. QED  BY <2>1, <2>2
<1>2. downs' \in 0 .. MaxDowns
  BY BoundAssumption DEF EndBatch, GoDown, QueueIInv, QueueTypeOK
<1>3. JournalAgrees(journal)'
  BY <1>1 DEF QueueIInv, JournalAgrees, Settled, Blames, Caused, Unknown, Decided, WellFormed
<1>4. JournalAgrees(batch.copy)'
  BY <1>1 DEF JournalAgrees, Settled, Blames, Caused, Unknown, Decided, WellFormed
<1>5. QueueTypeOK' /\ FilesAgree' /\ NoRequestLost' /\ BatchFiles'
  BY <1>1, <1>2 DEF QueueIInv, QueueTypeOK, FilesAgree, NoRequestLost, Decided, BatchFiles
<1>. QED  BY <1>1, <1>3, <1>4, <1>5 DEF QueueIInv, Applying, Cleaning

LEMMA ListPreserves ==
  ASSUME QueueIInv, List
  PROVE  QueueIInv'
<1>. DEFINE pending == {r \in Requests : file[r] = "json"}
<1>1. /\ UNCHANGED <<req, file, journal, downs>> /\ pc' = "apply" /\ ActiveProblems(journal) = {}
      /\ batch'.copy = journal /\ batch'.todo = pending /\ batch'.rename = {} /\ batch'.remove = {}
      /\ batch' \in Batches
  <2>1. journal \in Journals
    BY DEF QueueIInv, QueueTypeOK
  <2>. QED  BY <2>1 DEF List, NoBatch, Batches
<1>2. journal.problem \in [Requests -> ProblemKinds]
  BY DEF QueueIInv, QueueTypeOK, Journals
<1>3. \A r \in pending : journal.problem[r] = "none"
  <2>1. \A r \in pending : journal.problem[r] # "resolved"
    BY DEF QueueIInv, JournalAgrees, Blames
  <2>. QED  BY <1>1, <1>2, <2>1 DEF ActiveProblems, ProblemKinds
<1>4. \A r \in Requests : \A q \in req[r].after : Decided(journal, q) \/ q \in pending
  <2>. SUFFICES ASSUME NEW r \in Requests, NEW q \in req[r].after
                PROVE  Decided(journal, q) \/ q \in pending
    OBVIOUS
  <2>1. q \in Requests /\ file[q] \notin {"none", "tmp"} /\ file[q] \in FileStates
    BY DEF QueueIInv, QueueTypeOK, FilesAgree
  <2>. QED  BY <2>1 DEF QueueIInv, NoRequestLost, FileStates
<1>5. JournalAgrees(journal)' /\ JournalAgrees(batch.copy)'
  BY <1>1 DEF QueueIInv, JournalAgrees, Settled, Blames, Caused, Unknown, Decided, WellFormed
<1>6. QueueTypeOK' /\ FilesAgree' /\ NoRequestLost' /\ BatchFiles'
  BY <1>1 DEF QueueIInv, QueueTypeOK, FilesAgree, NoRequestLost, Decided, BatchFiles
<1>7. Applying'
  <2>1. Covers(batch.copy)' /\ CopyExtends'
    BY <1>1 DEF Covers, CopyExtends, Decided
  <2>2. TodoAgrees'
    BY <1>1, <1>3, <1>4 DEF TodoAgrees, Decided
  <2>. QED  BY <2>1, <2>2 DEF Applying
<1>8. Cleaning'
  BY <1>1 DEF Cleaning
<1>. QED  BY <1>5, <1>6, <1>7, <1>8 DEF QueueIInv

LEMMA WritePreserves ==
  ASSUME QueueIInv, WriteBatch
  PROVE  QueueIInv'
<1>1. /\ UNCHANGED <<req, file, downs>> /\ pc = "apply" /\ pc' = "cleanup" /\ journal' = batch.copy
      /\ batch'.copy = EmptyJournal /\ batch'.todo = {} /\ batch.todo = {}
      /\ batch'.rename = batch.rename /\ batch'.remove = batch.remove
      /\ batch' \in Batches
  <2>1. batch \in Batches
    BY DEF QueueIInv, QueueTypeOK
  <2>. QED  BY <2>1, EmptyAgrees DEF WriteBatch, Batches
<1>2. Covers(batch.copy) /\ CopyExtends /\ batch.copy \in Journals
  BY <1>1 DEF QueueIInv, QueueTypeOK, Applying, Batches
<1>3. JournalAgrees(journal)'
  <2>1. JournalAgrees(batch.copy)
    BY DEF QueueIInv
  <2>. QED  BY <1>1, <2>1 DEF JournalAgrees, Settled, Blames, Caused, Unknown, Decided, WellFormed
<1>4. JournalAgrees(batch.copy)'
  BY <1>1, EmptyAgrees DEF JournalAgrees, Settled, Blames, Caused, Unknown, Decided, WellFormed
<1>5. NoRequestLost'
  <2>1. \A r \in Requests : Decided(journal, r) => Decided(journal, r)'
    BY <1>1, <1>2 DEF CopyExtends, Decided
  <2>. QED  BY <1>1, <2>1 DEF QueueIInv, NoRequestLost
<1>6. QueueTypeOK' /\ FilesAgree' /\ BatchFiles'
  BY <1>1, <1>2 DEF QueueIInv, QueueTypeOK, FilesAgree, BatchFiles
<1>7. Applying' /\ Cleaning'
  BY <1>1, <1>2 DEF Applying, Cleaning, Covers
<1>. QED  BY <1>3, <1>4, <1>5, <1>6, <1>7 DEF QueueIInv

\* What the lane leaves in the journal.
LEMMA RecoverFacts ==
  ASSUME QueueIInv, NEW rej \in Requests, NEW rep \in Requests, NEW resume \in BOOLEAN,
         Recover(rej, rep, resume)
  PROVE  /\ rej # rep /\ WellFormed(rep) /\ file[rep] = "json" /\ file[rej] = "rejected"
         /\ req[rep].token = journal.gen /\ journal.ack[rep] = "none"
         /\ journal.problem[rej] = "rejected" /\ journal.problem[rep] = "none"
         /\ journal' \in Journals /\ Settled(journal')
         /\ journal'.ack[rep] # "none" /\ journal'.problem[rej] = "resolved"
         /\ \A q \in Requests : q # rep => journal'.ack[q] = journal.ack[q] /\ journal'.ran[q] = journal.ran[q]
         /\ \A q \in Requests : q # rej => journal'.problem[q] = journal.problem[q]
         /\ journal.ran[rep] = 0 /\ journal'.ran[rep] = 1 /\ journal'.gen = journal.gen
<1>. DEFINE e == Executed(journal, rep)
            c == Blamed(e, rej, "resolved")
<1>1. /\ rej # rep /\ WellFormed(rep) /\ file[rep] = "json" /\ file[rej] = "rejected"
      /\ req[rep].token = journal.gen /\ journal.ack[rep] = "none" /\ journal.problem[rej] = "rejected"
      /\ req[rep].payload.kind = "task" /\ req[rep].payload.task \notin journal.tasks
      /\ Accepts(journal, req[rep].payload)
  BY DEF Recover
<1>2. journal' = c \/ journal' = Resumed(c)
  BY DEF Recover, Blamed
<1>3. journal \in Journals /\ Settled(journal) /\ Blames(journal)
  BY DEF QueueIInv, QueueTypeOK, JournalAgrees
<1>4. Key(rep) \in Keys /\ req[rep].payload.task \in Tasks
  BY <1>1, PayloadKey, PayloadAssumption DEF QueueIInv
<1>5. /\ e \in Journals /\ Settled(e) /\ e.ack[rep] # "none"
      /\ \A q \in Requests : q # rep => e.ack[q] = journal.ack[q] /\ e.ran[q] = journal.ran[q]
      /\ journal.ran[rep] = 0 /\ e.ran[rep] = 1
      /\ e.problem = journal.problem /\ e.gen = journal.gen
  BY <1>1, <1>3, <1>4, ExecutedFacts
<1>6. "resolved" \in ProblemKinds
  BY DEF ProblemKinds
<1>7. /\ c \in Journals /\ Settled(c) /\ c.problem[rej] = "resolved"
      /\ \A q \in Requests : q # rej => c.problem[q] = e.problem[q]
      /\ c.ack = e.ack /\ c.ran = e.ran /\ c.gen = e.gen
  <2>. HIDE DEF e
  <2>. QED  BY <1>5, <1>6, BlamedFacts
<1>8. journal.problem[rep] = "none"
  <2>1. journal.problem[rep] \in ProblemKinds
    BY <1>3 DEF Journals
  <2>2. req[rep].payload.good
    BY <1>1 DEF Accepts
  <2>3. journal.problem[rep] \notin {"corrupt", "rejected", "resolved"}
    BY <1>1, <1>3, <2>2 DEF Blames
  <2>. QED  BY <2>1, <2>3 DEF ProblemKinds
<1>. HIDE DEF e, c
<1>9. /\ journal' \in Journals /\ Settled(journal')
      /\ journal'.ack = c.ack /\ journal'.problem = c.problem /\ journal'.ran = c.ran /\ journal'.gen = c.gen
  <2>1. CASE journal' = c
    BY <1>7, <2>1
  <2>2. CASE journal' = Resumed(c)
    BY <1>7, <2>2 DEF Resumed, Journals, Settled
  <2>. QED  BY <1>2, <2>1, <2>2
<1>. QED  BY <1>1, <1>5, <1>7, <1>8, <1>9

LEMMA RecoverPreserves ==
  ASSUME QueueIInv, NEW rej \in Requests, NEW rep \in Requests, NEW resume \in BOOLEAN,
         Recover(rej, rep, resume)
  PROVE  QueueIInv'
<1>1. /\ UNCHANGED <<req, file, downs>> /\ pc' = "recovered"
      /\ batch' \in Batches /\ batch'.copy = EmptyJournal
      /\ batch'.todo = {} /\ batch'.rename = {} /\ batch'.remove = {rep}
  <2>1. NoBatch \in Batches /\ NoBatch.copy = EmptyJournal
    BY EmptyAgrees DEF NoBatch, Batches
  <2>. QED  BY <2>1 DEF Recover, NoBatch, Batches
<1>2. /\ rej # rep /\ WellFormed(rep) /\ file[rep] = "json" /\ file[rej] = "rejected"
      /\ journal.problem[rej] = "rejected" /\ journal.problem[rep] = "none"
      /\ journal' \in Journals /\ Settled(journal')
      /\ journal'.ack[rep] # "none" /\ journal'.problem[rej] = "resolved"
      /\ \A q \in Requests : q # rep => journal'.ack[q] = journal.ack[q]
      /\ \A q \in Requests : q # rej => journal'.problem[q] = journal.problem[q]
  BY RecoverFacts
<1>3. \A q \in Requests : Decided(journal, q)' <=> Decided(journal, q) \/ q = rep
  BY <1>2 DEF Decided
<1>4. JournalAgrees(journal)'
  <2>1. Settled(journal)'
    BY <1>2 DEF Settled
  <2>2. Blames(journal)'
    BY <1>1, <1>2 DEF QueueIInv, JournalAgrees, Blames, WellFormed
  <2>3. Caused(journal)'
    <3>1. \A q \in Requests : \A x \in req[q].after : x \in Requests
      BY DEF QueueIInv, QueueTypeOK
    <3>2. \A q \in Requests : journal'.problem[q] # "none" => journal.problem[q] # "none"
      BY <1>2
    <3>. QED  BY <1>1, <1>3, <3>1, <3>2 DEF QueueIInv, JournalAgrees, Caused
  <2>4. Unknown(journal)'
    BY <1>1, <1>2, <1>3 DEF QueueIInv, JournalAgrees, Unknown
  <2>. QED  BY <2>1, <2>2, <2>3, <2>4 DEF JournalAgrees
<1>5. JournalAgrees(batch.copy)'
  BY <1>1, EmptyAgrees DEF JournalAgrees, Settled, Blames, Caused, Unknown, Decided, WellFormed
<1>6. NoRequestLost'
  BY <1>1, <1>3 DEF QueueIInv, NoRequestLost
<1>7. QueueTypeOK' /\ FilesAgree' /\ BatchFiles'
  BY <1>1, <1>2 DEF QueueIInv, QueueTypeOK, FilesAgree, BatchFiles
<1>8. Applying' /\ Cleaning'
  BY <1>1, <1>2 DEF Applying, Cleaning, Covers
<1>. QED  BY <1>4, <1>5, <1>6, <1>7, <1>8 DEF QueueIInv

LEMMA StepPreserves == QueueIInv /\ [Next]_vars => QueueIInv'
<1>. SUFFICES ASSUME QueueIInv, [Next]_vars  PROVE QueueIInv'
  OBVIOUS
<1>1. CASE Emitter
  BY <1>1, EmitPreserves, ShowPreserves DEF Emitter
<1>2. CASE Start \/ EnterCustody \/ BeginGeneration
  BY <1>2, QuietPreserves
<1>3. CASE List
  BY <1>3, ListPreserves
<1>4. CASE \E r \in Requests : Consume(r)
  BY <1>4, ConsumePreserves
<1>5. CASE WriteBatch
  BY <1>5, WritePreserves
<1>6. CASE Finish
  BY <1>6, MovePreserves, BatchEnds DEF Finish
<1>7. CASE Lane
  BY <1>7, RecoverPreserves, QuietPreserves DEF Lane
<1>8. CASE GoDown
  BY <1>8, BatchEnds
<1>9. CASE UNCHANGED vars
  BY <1>9 DEF vars, QueueIInv, QueueTypeOK, JournalAgrees, Settled, Blames, Caused, Unknown, Decided,
              WellFormed, FilesAgree, NoRequestLost, BatchFiles, Applying, Cleaning, Covers, TodoAgrees,
              CopyExtends
<1>. QED  BY <1>1, <1>2, <1>3, <1>4, <1>5, <1>6, <1>7, <1>8, <1>9 DEF Next

LEMMA QueueIInvHolds == Spec => []QueueIInv
  BY InitAgrees, StepPreserves, PTL DEF Spec

-----------------------------------------------------------------------------
(* Theorems *)

\* Files, journal and batch keep their types: in particular a file is renamed
\* to a problem the journal has on record.
THEOREM QueueTypeCorrect == Spec => []QueueTypeOK
<1>1. QueueIInv => QueueTypeOK
  BY DEF QueueIInv
<1>. QED  BY <1>1, QueueIInvHolds, PTL

\* A file leaves the queue only once the journal on disk says what became of
\* its request, whatever crash interrupts a batch or the offline lane.
THEOREM NothingIsLost == Spec => []NoRequestLost
<1>1. QueueIInv => NoRequestLost
  BY DEF QueueIInv
<1>. QED  BY <1>1, QueueIInvHolds, PTL

\* A request is executed at most once, though a crash puts its file before the
\* supervisor again and the lane applies it out of its turn.
THEOREM ExecutionIsOnce == Spec => []ExecutedOnce
<1>1. QueueIInv => ExecutedOnce
  BY DEF QueueIInv, JournalAgrees, Settled, ExecutedOnce
<1>. QED  BY <1>1, QueueIInvHolds, PTL

\* A batch decides no request before those published when it was emitted.
THEOREM CausalOrder == Spec => []OrderKept
<1>1. QueueIInv => OrderKept
  <2>. SUFFICES ASSUME QueueIInv, NEW r \in Requests, NEW q \in req[r].after
                PROVE  /\ pc = "apply" /\ Decided(batch.copy, r) /\ ~Decided(journal, r)
                              => Decided(batch.copy, q)
                       /\ journal.problem[r] # "none" => Decided(journal, q)
    BY DEF OrderKept
  <2>1. pc = "apply" /\ Decided(batch.copy, r) /\ ~Decided(journal, r) => Decided(batch.copy, q)
    BY DEF QueueIInv, Applying, CopyExtends
  <2>2. journal.problem[r] # "none" => Decided(journal, q)
    BY DEF QueueIInv, JournalAgrees, Caused
  <2>. QED  BY <2>1, <2>2
<1>. QED  BY <1>1, QueueIInvHolds, PTL
-----------------------------------------------------------------------------
(* Refinement: a write of the journal decides the requests it has news of,  *)
(* and no other step decides one.                                           *)

\* What the contract sees.
Fates == [r \in Requests |-> Fate(r)]
Tokens == [r \in Requests |-> req[r].token]

LEMMA InitRefines == Init => Contract!Init
<1>. SUFFICES ASSUME Init  PROVE Contract!Init
  OBVIOUS
<1>1. \A r \in Requests : Fate(r) = "unseen" /\ req[r].token = 0
  BY DEF Init, EmptyJournal, Fate, Decided
<1>2. journal.gen = 0
  BY DEF Init, EmptyJournal
<1>. QED  BY <1>1, <1>2 DEF Contract!Init

\* A step that changes nobody's fate, token or generation.
LEMMA QuietRefines ==
  ASSUME \A r \in Requests : Fate(r)' = Fate(r) /\ req'[r].token = req[r].token,
         journal'.gen = journal.gen
  PROVE  UNCHANGED Contract!vars
  BY DEF Contract!vars

LEMMA EmitRefines ==
  ASSUME QueueIInv, NEW r \in Requests, NEW p \in Payloads, NEW g \in 1 .. journal.gen, Emit(r, p, g)
  PROVE  Contract!Next
<1>1. /\ file[r] = "none" /\ file' = [file EXCEPT ![r] = "tmp"] /\ journal' = journal
      /\ req' = [req EXCEPT ![r] = [payload |-> p, token |-> g,
                   after |-> {q \in Requests : file[q] \notin {"none", "tmp"}}]]
  BY DEF Emit, NextId
<1>2. file \in [Requests -> FileStates] /\ journal.gen \in Nat
      /\ req \in [Requests -> [payload : Payloads \union {NoPayload}, token : Nat, after : SUBSET Requests]]
  BY DEF QueueIInv, QueueTypeOK, Journals
<1>3. ~Decided(journal, r) /\ journal.ran[r] = 0
  <2>1. ~Decided(journal, r)
    BY <1>1 DEF QueueIInv, JournalAgrees, Unknown
  <2>2. journal.ack[r] = "none"
    BY <2>1 DEF Decided
  <2>. QED  BY <2>1, <2>2 DEF QueueIInv, JournalAgrees, Settled
<1>4. \A q \in Requests : Fate(q)' = Fate(q)
  <2>1. \A q \in Requests : file'[q] = "json" <=> file[q] = "json"
    BY <1>1, <1>2
  <2>. QED  BY <1>1, <2>1 DEF Fate, Decided
<1>5. Fate(r) = "unseen"
  BY <1>1, <1>3 DEF Fate
<1>6. \A q \in Requests : req'[q].token = IF q = r THEN g ELSE req[q].token
  BY <1>1, <1>2
<1>7. Tokens' = [Tokens EXCEPT ![r] = g]
  BY <1>6 DEF Tokens
<1>8. g \in 0 .. journal.gen
  BY <1>2
<1>9. Fates' = Fates /\ Fates[r] = "unseen"
  BY <1>4, <1>5 DEF Fates
<1>10. Contract!Write(r)
  BY <1>1, <1>7, <1>8, <1>9 DEF Contract!Write, Fates, Tokens
<1>. QED  BY <1>10 DEF Contract!Next

LEMMA ShowRefines ==
  ASSUME QueueIInv, NEW r \in Requests, Publish(r) \/ Litter(r)
  PROVE  Contract!Next
<1>1. /\ file[r] \in {"none", "tmp"} /\ file' = [file EXCEPT ![r] = "json"]
      /\ UNCHANGED <<req, journal>>
  BY DEF Publish, Litter, NextId
<1>2. file \in [Requests -> FileStates]
  BY DEF QueueIInv, QueueTypeOK
<1>3. ~Decided(journal, r) /\ journal.ran[r] = 0
  <2>1. ~Decided(journal, r)
    BY <1>1 DEF QueueIInv, JournalAgrees, Unknown
  <2>2. journal.ack[r] = "none"
    BY <2>1 DEF Decided
  <2>. QED  BY <2>1, <2>2 DEF QueueIInv, JournalAgrees, Settled
<1>4. Fate(r) = "unseen"
  BY <1>1, <1>3 DEF Fate
<1>5. Fate(r)' = "waiting"
  BY <1>1, <1>2, <1>3 DEF Fate, Decided
<1>6. \A q \in Requests : q # r => Fate(q)' = Fate(q)
  BY <1>1, <1>2 DEF Fate, Decided
<1>7. Fates' = [Fates EXCEPT ![r] = "waiting"] /\ Fates[r] = "unseen"
  BY <1>4, <1>5, <1>6 DEF Fates
<1>8. Contract!Publish(r)
  BY <1>1, <1>7 DEF Contract!Publish, Fates
<1>. QED  BY <1>8 DEF Contract!Next

\* Rename and Remove: what happened to the request is on record.
LEMMA MoveRefines ==
  ASSUME QueueIInv, NEW r \in Requests, Rename(r) \/ Remove(r)
  PROVE  UNCHANGED Contract!vars
<1>1. UNCHANGED <<req, journal>> /\ \A q \in Requests : q # r => file'[q] = file[q]
  BY DEF Rename, Remove, QueueIInv, QueueTypeOK
<1>2. Decided(journal, r)
  BY DEF Rename, Remove, QueueIInv, Cleaning, Covers, Decided
<1>3. \A q \in Requests : Fate(q)' = Fate(q)
  BY <1>1, <1>2 DEF Fate, Decided
<1>. QED  BY <1>1, <1>3, QuietRefines

LEMMA GenerationRefines ==
  ASSUME QueueIInv, BeginGeneration
  PROVE  Contract!Next
<1>1. /\ UNCHANGED <<req, file>>
      /\ journal'.ack = journal.ack /\ journal'.problem = journal.problem
      /\ journal'.ran = journal.ran /\ journal'.gen = journal.gen + 1
  BY DEF BeginGeneration, QueueIInv, QueueTypeOK, Journals
<1>2. \A r \in Requests : Fate(r)' = Fate(r)
  BY <1>1 DEF Fate, Decided
<1>3. Contract!NewGeneration
  BY <1>1, <1>2 DEF Contract!NewGeneration
<1>. QED  BY <1>3 DEF Contract!Next

\* A write of the journal that executes run and refuses refuse.
LEMMA DecideRefines ==
  ASSUME NEW run \in SUBSET Requests, NEW refuse \in SUBSET Requests, run \intersect refuse = {},
         \A r \in run : Fate(r) = "waiting" /\ Fate(r)' = "executed" /\ req[r].token = journal.gen,
         \A r \in refuse : Fate(r) = "waiting" /\ Fate(r)' = "refused",
         \A r \in Requests \ (run \union refuse) : Fate(r)' = Fate(r),
         req' = req, journal'.gen = journal.gen
  PROVE  Contract!Next
<1>1. \A r \in Requests : Fate(r)' = IF r \in run THEN "executed"
                                     ELSE IF r \in refuse THEN "refused" ELSE Fate(r)
  OBVIOUS
<1>2. Fates' = [r \in Requests |-> IF r \in run THEN "executed"
                                   ELSE IF r \in refuse THEN "refused" ELSE Fates[r]]
  BY <1>1 DEF Fates
<1>3. /\ \A r \in run \union refuse : Fates[r] = "waiting"
      /\ \A r \in run : Tokens[r] = journal.gen
  BY DEF Fates, Tokens
<1>4. Contract!Decide(run, refuse)
  BY <1>2, <1>3 DEF Contract!Decide, Fates, Tokens
<1>. QED  BY <1>4 DEF Contract!Next

LEMMA WriteRefines ==
  ASSUME QueueIInv, WriteBatch
  PROVE  Contract!Next
<1>. DEFINE run == {r \in Requests : batch.copy.ran[r] # journal.ran[r]}
            refuse == {r \in Requests : Decided(batch.copy, r) /\ ~Decided(journal, r)} \ run
<1>1. UNCHANGED <<req, file>> /\ journal' = batch.copy /\ CopyExtends
  BY DEF WriteBatch, QueueIInv, Applying
<1>2. /\ \A r \in Requests : journal.ran[r] \in Nat /\ batch.copy.ran[r] \in Nat
      /\ Settled(journal) /\ Settled(batch.copy)
  BY DEF QueueIInv, QueueTypeOK, Batches, Journals, JournalAgrees
<1>3. \A r \in Requests : ~Decided(journal, r) => journal.ran[r] = 0
  BY <1>2 DEF Settled, Decided
<1>4. ASSUME NEW r \in run
      PROVE  Fate(r) = "waiting" /\ Fate(r)' = "executed" /\ req[r].token = journal.gen
  <2>1. ~Decided(journal, r) /\ req[r].token = journal.gen
    BY <1>1 DEF CopyExtends
  <2>2. journal.ran[r] = 0 /\ batch.copy.ran[r] > 0
    BY <1>2, <1>3, <2>1
  <2>3. batch.copy.ack[r] # "none"
    BY <1>2, <2>2 DEF Settled
  <2>4. Decided(batch.copy, r)
    BY <2>3 DEF Decided
  <2>5. file[r] = "json"
    BY <1>1, <2>1, <2>4 DEF CopyExtends
  <2>. QED  BY <1>1, <2>1, <2>2, <2>5 DEF Fate
<1>5. ASSUME NEW r \in refuse
      PROVE  Fate(r) = "waiting" /\ Fate(r)' = "refused"
  <2>1. /\ ~Decided(journal, r) /\ Decided(batch.copy, r) /\ file[r] = "json"
        /\ batch.copy.ran[r] = journal.ran[r]
    BY <1>1 DEF CopyExtends
  <2>2. journal.ran[r] = 0
    BY <1>3, <2>1
  <2>. QED  BY <1>1, <2>1, <2>2 DEF Fate, Decided
<1>6. ASSUME NEW r \in Requests \ (run \union refuse)
      PROVE  Fate(r)' = Fate(r)
  <2>1. batch.copy.ran[r] = journal.ran[r] /\ (Decided(batch.copy, r) <=> Decided(journal, r))
    BY <1>1 DEF CopyExtends
  <2>. QED  BY <1>1, <2>1 DEF Fate, Decided
<1>7. journal'.gen = journal.gen
  BY <1>1 DEF CopyExtends
<1>8. run \in SUBSET Requests /\ refuse \in SUBSET Requests /\ run \intersect refuse = {}
  OBVIOUS
<1>. HIDE DEF run, refuse
<1>. QED  BY <1>1, <1>4, <1>5, <1>6, <1>7, <1>8, DecideRefines

LEMMA RecoverRefines ==
  ASSUME QueueIInv, NEW rej \in Requests, NEW rep \in Requests, NEW resume \in BOOLEAN,
         Recover(rej, rep, resume)
  PROVE  Contract!Next
<1>1. UNCHANGED <<req, file>>
  BY DEF Recover
<1>2. /\ rej # rep /\ file[rep] = "json"
      /\ req[rep].token = journal.gen /\ journal.ack[rep] = "none"
      /\ journal.problem[rej] = "rejected" /\ journal.problem[rep] = "none"
      /\ journal'.problem[rej] = "resolved"
      /\ \A q \in Requests : q # rep => journal'.ack[q] = journal.ack[q] /\ journal'.ran[q] = journal.ran[q]
      /\ \A q \in Requests : q # rej => journal'.problem[q] = journal.problem[q]
      /\ journal.ran[rep] = 0 /\ journal'.ran[rep] = 1 /\ journal'.gen = journal.gen
  BY RecoverFacts
<1>3. Fate(rep) = "waiting" /\ Fate(rep)' = "executed"
  BY <1>2 DEF Fate, Decided
<1>4. \A q \in Requests \ {rep} : Fate(q)' = Fate(q)
  BY <1>1, <1>2 DEF Fate, Decided
<1>. DEFINE run == {rep}
            refuse == {r \in Requests : FALSE}
<1>5. /\ run \in SUBSET Requests /\ refuse \in SUBSET Requests /\ run \intersect refuse = {}
      /\ \A r \in run : Fate(r) = "waiting" /\ Fate(r)' = "executed" /\ req[r].token = journal.gen
      /\ \A r \in refuse : Fate(r) = "waiting" /\ Fate(r)' = "refused"
      /\ \A r \in Requests \ (run \union refuse) : Fate(r)' = Fate(r)
      /\ req' = req /\ journal'.gen = journal.gen
  BY <1>1, <1>2, <1>3, <1>4
<1>. HIDE DEF run, refuse
<1>. QED  BY <1>5, DecideRefines

\* The steps that leave every fate alone.
LEMMA StutterRefines ==
  ASSUME QueueIInv,
         \/ Start \/ EnterCustody \/ List \/ EndBatch \/ GoDown \/ UNCHANGED vars
         \/ \E r \in Requests : Consume(r) \/ ResumeCycle(r)
  PROVE  UNCHANGED Contract!vars
<1>1. /\ UNCHANGED <<req, file>>
      /\ journal'.ack = journal.ack /\ journal'.problem = journal.problem
      /\ journal'.ran = journal.ran /\ journal'.gen = journal.gen
  <2>1. CASE Start \/ List \/ EndBatch \/ GoDown \/ UNCHANGED vars
    BY <2>1 DEF Start, List, EndBatch, GoDown, vars
  <2>2. CASE EnterCustody
    BY <2>2 DEF EnterCustody, QueueIInv, QueueTypeOK, Journals
  <2>3. CASE \E r \in Requests : Consume(r)
    BY <2>3, ConsumeFacts DEF Consumes
  <2>4. CASE \E r \in Requests : ResumeCycle(r)
    BY <2>4 DEF ResumeCycle, Resumed, QueueIInv, QueueTypeOK, Journals
  <2>. QED  BY <2>1, <2>2, <2>3, <2>4
<1>2. \A r \in Requests : Fate(r)' = Fate(r)
  BY <1>1 DEF Fate, Decided
<1>. QED  BY <1>1, <1>2, QuietRefines

LEMMA NextRefines ==
  ASSUME QueueIInv, [Next]_vars
  PROVE  [Contract!Next]_(Contract!vars)
<1>1. CASE Emitter
  BY <1>1, EmitRefines, ShowRefines DEF Emitter
<1>2. CASE BeginGeneration
  BY <1>2, GenerationRefines
<1>3. CASE WriteBatch
  BY <1>3, WriteRefines
<1>4. CASE \E r \in Requests : Rename(r) \/ Remove(r)
  BY <1>4, MoveRefines
<1>5. CASE \E rej, rep \in Requests, resume \in BOOLEAN : Recover(rej, rep, resume)
  BY <1>5, RecoverRefines
<1>6. CASE \/ Start \/ EnterCustody \/ List \/ EndBatch \/ GoDown \/ UNCHANGED vars
           \/ \E r \in Requests : Consume(r) \/ ResumeCycle(r)
  BY <1>6, StutterRefines
<1>. QED  BY <1>1, <1>2, <1>3, <1>4, <1>5, <1>6 DEF Next, Finish, Lane

\* The queue implements RequestContract: a decision is final, and a request of
\* a replaced generation is never executed.
THEOREM QueueRefinement == Spec => ImplementsRequestContract
<1>1. QueueIInv /\ [Next]_vars => [Contract!Next]_(Contract!vars)
  BY NextRefines
<1>. QED  BY <1>1, InitRefines, QueueIInvHolds, PTL
          DEF Spec, ImplementsRequestContract, Contract!Spec
=============================================================================
