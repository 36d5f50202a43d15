--------------------- MODULE ControllerGenerationsProofs ---------------------
(***************************************************************************)
(* Theorems of ControllerGenerations for every bound and every set of       *)
(* faults.                                                                  *)
(***************************************************************************)
EXTENDS ControllerGenerations, SequenceTheorems, TLAPS

-----------------------------------------------------------------------------
(* The inductive invariant *)

OneActive == \A g, h \in ActiveSet : g = h

\* The steps that name the active generation.
NeedsActive == {"ensure", "spawn", "record", "supervise", "resolve"}

\* A dead controller stays dead: whoever was seen dead, or was ended, by the
\* step the supervisor is at has not come back.
PcAgrees ==
    /\ sup.pc \in NeedsActive => HasActive
    /\ sup.pc \in {"spawn", "record"} => sup.stamps < MaxRelaunches
    /\ sup.pc = "resolve" => \A g \in ActiveSet : gens[g].processRef /\ ~LeaderAlive(g)
    /\ sup.pc = "complete" => green
    /\ sup.pc = "stop" => downs > 0
    /\ Ending => \A g \in 1 .. Len(gens) :
                     gens[g].processRef /\ 2 * g - 1 < sup.next => ~LeaderAlive(g)

\* A wrapper beyond its claim owns the claim, and nobody else starts the
\* controller.
WrappersAgree ==
    \A w \in Wrappers :
        /\ wrapper[w].at # "unborn" => wrapper[w].gen \in Gens
        /\ wrapper[w].at \in {"claimed", "spawned", "waiting"} => files[wrapper[w].gen].claim = w
        /\ wrapper[w].at = "claimed" => starts[wrapper[w].gen] = 0
        /\ wrapper[w].at \in {"spawned", "waiting"} => starts[wrapper[w].gen] = 1

\* The journal knows a controller only by the identity its wrapper wrote.
SidecarsAgree ==
    /\ \A g \in Gens :
           /\ files[g].claim = 0 => starts[g] = 0
           /\ files[g].identity => starts[g] = 1
    /\ \A g \in 1 .. Len(gens) : gens[g].processRef => files[g].identity

GenIInv ==
    /\ GenTypeOK
    /\ OneActive
    /\ PcAgrees
    /\ WrappersAgree
    /\ SidecarsAgree
    /\ StartedOnce
    /\ AdoptedIsKept
    /\ SilenceKillsNobody

-----------------------------------------------------------------------------
(* Generations *)

LEMMA Bounds ==
  /\ MaxGenerations \in Nat /\ MaxWrappers \in Nat /\ MaxRelaunches \in Nat /\ MaxDowns \in Nat
  BY GenerationsAssumption

\* The active generation is the one that holds the token.
LEMMA ActiveIs ==
  ASSUME OneActive, HasActive
  PROVE  Active \in ActiveSet /\ \A g \in ActiveSet : g = Active
<1>1. PICK a \in ActiveSet : \A g \in ActiveSet : g = a
  BY DEF HasActive, OneActive
<1>2. \A h \in ActiveSet : a <= h
  <2>1. a \in Nat
    BY DEF ActiveSet
  <2>. QED  BY <1>1, <2>1
<1>3. Active \in ActiveSet
  BY <1>1, <1>2 DEF Active
<1>. QED  BY <1>1, <1>3

LEMMA GenerationAt ==
  ASSUME GenTypeOK, NEW g \in 1 .. Len(gens)
  PROVE  gens[g] \in Generation /\ g \in Gens
<1>1. Len(gens) \in Nat /\ Len(gens) <= MaxGenerations /\ gens[g] \in Generation
  BY ElementOfSeq DEF GenTypeOK
<1>. QED  BY <1>1, Bounds DEF Gens

\* One generation changes.
LEMMA ChangedGens ==
  ASSUME GenTypeOK, NEW g \in 1 .. Len(gens), NEW e \in Generation,
         gens' = [gens EXCEPT ![g] = e]
  PROVE  /\ gens' \in Seq(Generation) /\ Len(gens') = Len(gens)
         /\ gens'[g] = e /\ \A h \in 1 .. Len(gens) : h # g => gens'[h] = gens[h]
  BY ExceptSeq DEF GenTypeOK

\* Every generation before it loses the token to the one beginGeneration adds.
LEMMA SupersedingFacts ==
  ASSUME NEW gs \in Seq(Generation)
  PROVE  LET t == Superseding(gs)
         IN  /\ t \in Seq(Generation) /\ Len(t) = Len(gs) + 1
             /\ \A g \in 1 .. Len(gs) :
                    t[g].state \notin Held /\ t[g].processRef = gs[g].processRef
             /\ t[Len(gs) + 1].state = "active" /\ t[Len(gs) + 1].processRef = FALSE
<1>. DEFINE Old(g) == IF gs[g].state \in Held THEN [gs[g] EXCEPT !.state = "superseded"] ELSE gs[g]
            olds == [g \in 1 .. Len(gs) |-> Old(g)]
            new == [state |-> "active", intent |-> FALSE, wrapperRef |-> 0, processRef |-> FALSE]
<1>1. \A g \in 1 .. Len(gs) : gs[g] \in Generation
  BY ElementOfSeq
<1>2. ASSUME NEW g \in 1 .. Len(gs)
      PROVE  Old(g) \in Generation /\ Old(g).state \notin Held /\ Old(g).processRef = gs[g].processRef
  BY <1>1 DEF Generation, Held
<1>3. Len(gs) \in Nat
  BY LenProperties
<1>4. olds \in Seq(Generation) /\ Len(olds) = Len(gs)
  <2>1. olds \in [1 .. Len(gs) -> Generation]
    BY <1>2
  <2>. QED  BY <1>3, <2>1, SeqDef, LenProperties
<1>5. new \in Generation
  BY Bounds DEF Generation
<1>6. Superseding(gs) = Append(olds, new)
  BY DEF Superseding
<1>. HIDE DEF new
<1>7. /\ Append(olds, new) \in Seq(Generation) /\ Len(Append(olds, new)) = Len(gs) + 1
      /\ \A g \in 1 .. Len(gs) : Append(olds, new)[g] = olds[g]
      /\ Append(olds, new)[Len(gs) + 1] = new
  BY <1>4, <1>5, AppendProperties
<1>8. \A g \in 1 .. Len(gs) : olds[g].state \notin Held /\ olds[g].processRef = gs[g].processRef
  BY <1>2
<1>9. new.state = "active" /\ new.processRef = FALSE
  BY DEF new
<1>. QED  BY <1>6, <1>7, <1>8, <1>9

\* What COMPLETE and an orderly stop make of the generations.
LEMMA AllTerminatedFacts ==
  ASSUME GenTypeOK
  PROVE  /\ AllTerminated \in Seq(Generation) /\ Len(AllTerminated) = Len(gens)
         /\ \A g \in 1 .. Len(gens) : /\ AllTerminated[g].state \notin Held
                                      /\ AllTerminated[g].processRef = gens[g].processRef
<1>1. \A g \in 1 .. Len(gens) : gens[g] \in Generation
  BY GenerationAt
<1>2. \A g \in 1 .. Len(gens) : /\ [gens[g] EXCEPT !.state = "terminated"] \in Generation
                                /\ [gens[g] EXCEPT !.state = "terminated"].state = "terminated"
                                /\ [gens[g] EXCEPT !.state = "terminated"].processRef = gens[g].processRef
  BY <1>1 DEF Generation
<1>3. AllTerminated \in [1 .. Len(gens) -> Generation]
  BY <1>2 DEF AllTerminated
<1>4. Len(gens) \in Nat
  BY LenProperties DEF GenTypeOK
<1>5. AllTerminated \in Seq(Generation) /\ Len(AllTerminated) = Len(gens)
  BY <1>3, <1>4, SeqDef, LenProperties
<1>. QED  BY <1>2, <1>5 DEF AllTerminated, Held

-----------------------------------------------------------------------------
(* The initial states *)

LEMMA InitAgrees == Init => GenIInv
<1>. SUFFICES ASSUME Init  PROVE GenIInv
  OBVIOUS
<1>1. gens \in Seq(Generation) /\ Len(gens) = 0 /\ ActiveSet = {}
  BY EmptySeq DEF Init, ActiveSet
<1>2. Off \in Memory
  BY Bounds DEF Off, Memory, Pcs
<1>3. GenTypeOK
  <2>1. files \in [Gens -> Sidecars]
    BY Bounds DEF Init, Sidecars
  <2>2. wrapper \in [Wrappers -> [gen : 0 .. MaxGenerations, at : WrapperPhases]]
    BY Bounds DEF Init, WrapperPhases
  <2>3. cmd \in [Gens -> CommandStates] /\ starts \in [Gens -> Nat]
    BY DEF Init, CommandStates
  <2>4. Len(gens) <= MaxGenerations /\ downs \in 0 .. MaxDowns
    BY <1>1, Bounds DEF Init
  <2>. QED  BY <1>1, <1>2, <2>1, <2>2, <2>3, <2>4 DEF Init, GenTypeOK
<1>4. OneActive
  BY <1>1 DEF OneActive
<1>5. PcAgrees
  BY <1>1 DEF Init, PcAgrees, Off, NeedsActive, Ending
<1>6. WrappersAgree /\ SidecarsAgree
  BY <1>1 DEF Init, WrappersAgree, SidecarsAgree
<1>7. StartedOnce /\ AdoptedIsKept /\ SilenceKillsNobody
  BY <1>1 DEF Init, StartedOnce, AdoptedIsKept, SilenceKillsNobody
<1>. QED  BY <1>3, <1>4, <1>5, <1>6, <1>7 DEF GenIInv

-----------------------------------------------------------------------------
(* The wrappers and the controllers *)

\* A step that leaves the supervisor and its journal alone keeps what they
\* say if no adopted controller comes back, nobody is killed and the files of
\* the wrappers only grow.
LEMMA WorldMoves ==
  ASSUME GenIInv, UNCHANGED <<gens, cycle, green, sup, downs>>,
         files' \in [Gens -> Sidecars],
         wrapper' \in [Wrappers -> [gen : 0 .. MaxGenerations, at : WrapperPhases]],
         cmd' \in [Gens -> CommandStates], starts' \in [Gens -> Nat],
         WrappersAgree', StartedOnce',
         \A g \in Gens : /\ files'[g].claim = 0 => starts'[g] = 0
                         /\ files'[g].identity => starts'[g] = 1
                         /\ files[g].identity => files'[g].identity,
         \A g \in Gens : cmd'[g] = "killed" => cmd[g] = "killed",
         \A g \in 1 .. Len(gens) : gens[g].processRef /\ ~LeaderAlive(g) => ~LeaderAlive(g)'
  PROVE  GenIInv'
<1>0. \A g \in 1 .. Len(gens) : g \in Gens
  BY GenerationAt DEF GenIInv
<1>1. GenTypeOK'
  BY DEF GenIInv, GenTypeOK
<1>2. ActiveSet' = ActiveSet
  BY DEF ActiveSet
<1>3. OneActive'
  BY <1>2 DEF GenIInv, OneActive
<1>4. PcAgrees'
  <2>1. \A g \in ActiveSet : g \in 1 .. Len(gens)
    BY DEF ActiveSet
  <2>2. sup'.pc = "resolve" => \A g \in ActiveSet' : gens'[g].processRef /\ ~LeaderAlive(g)'
    BY <1>2, <2>1 DEF GenIInv, PcAgrees
  <2>3. Ending' => \A g \in 1 .. Len(gens') :
                      gens'[g].processRef /\ 2 * g - 1 < sup'.next => ~LeaderAlive(g)'
    BY DEF GenIInv, PcAgrees, Ending
  <2>. QED  BY <1>2, <2>2, <2>3 DEF GenIInv, PcAgrees, HasActive
<1>5. SidecarsAgree'
  BY <1>0 DEF GenIInv, SidecarsAgree
<1>6. AdoptedIsKept'
  BY DEF GenIInv, AdoptedIsKept
<1>7. SilenceKillsNobody'
  BY DEF GenIInv, SilenceKillsNobody
<1>. QED  BY <1>1, <1>3, <1>4, <1>5, <1>6, <1>7 DEF GenIInv

LEMMA WrapperAt ==
  ASSUME GenIInv, NEW w \in Wrappers
  PROVE  /\ wrapper[w].at \in WrapperPhases /\ wrapper[w].gen \in 0 .. MaxGenerations
         /\ wrapper[w] \in [gen : 0 .. MaxGenerations, at : WrapperPhases]
         /\ wrapper[w].at # "unborn" => wrapper[w].gen \in Gens
         /\ w # 0 /\ w \in 0 .. MaxWrappers
  BY Bounds DEF GenIInv, GenTypeOK, WrappersAgree, Wrappers

LEMMA ClaimPreserves ==
  ASSUME GenIInv, NEW w \in Wrappers, Claim(w)
  PROVE  GenIInv'
<1>. DEFINE g == wrapper[w].gen
<1>0. /\ wrapper[w].at = "starting" /\ g \in Gens /\ w # 0 /\ w \in 0 .. MaxWrappers
      /\ UNCHANGED <<gens, cycle, green, cmd, starts, sup, downs>>
      /\ files \in [Gens -> Sidecars] /\ cmd \in [Gens -> CommandStates] /\ starts \in [Gens -> Nat]
      /\ wrapper \in [Wrappers -> [gen : 0 .. MaxGenerations, at : WrapperPhases]]
  BY WrapperAt DEF Claim, GenIInv, GenTypeOK
<1>1. CASE files[g].claim = 0
  <2>1. files' = [files EXCEPT ![g].claim = w] /\ wrapper' = [wrapper EXCEPT ![w].at = "claimed"]
    BY <1>1 DEF Claim
  <2>2. /\ files' \in [Gens -> Sidecars] /\ files'[g].claim = w
        /\ \A h \in Gens : files'[h].identity = files[h].identity
        /\ \A h \in Gens : h # g => files'[h].claim = files[h].claim
    BY <1>0, <2>1 DEF Sidecars
  <2>3. /\ wrapper' \in [Wrappers -> [gen : 0 .. MaxGenerations, at : WrapperPhases]]
        /\ wrapper'[w].at = "claimed" /\ wrapper'[w].gen = g
        /\ \A v \in Wrappers : v # w => wrapper'[v] = wrapper[v]
    BY <1>0, <2>1 DEF WrapperPhases
  <2>4. starts[g] = 0
    BY <1>0, <1>1 DEF GenIInv, SidecarsAgree
  <2>5. WrappersAgree'
    <3>. SUFFICES ASSUME NEW v \in Wrappers
                  PROVE  /\ wrapper'[v].at # "unborn" => wrapper'[v].gen \in Gens
                         /\ wrapper'[v].at \in {"claimed", "spawned", "waiting"} => files'[wrapper'[v].gen].claim = v
                         /\ wrapper'[v].at = "claimed" => starts'[wrapper'[v].gen] = 0
                         /\ wrapper'[v].at \in {"spawned", "waiting"} => starts'[wrapper'[v].gen] = 1
      BY DEF WrappersAgree
    <3>1. CASE v = w
      BY <1>0, <2>2, <2>3, <2>4, <3>1
    <3>2. CASE v # w
      <4>1. wrapper[v].at \in {"claimed", "spawned", "waiting"} =>
               wrapper[v].gen \in Gens /\ files[wrapper[v].gen].claim = v /\ v # 0
        BY WrapperAt DEF GenIInv, WrappersAgree
      <4>2. wrapper[v].at \in {"claimed", "spawned", "waiting"} => wrapper[v].gen # g
        BY <1>1, <4>1
      <4>. QED  BY <1>0, <2>2, <2>3, <3>2, <4>1, <4>2 DEF GenIInv, WrappersAgree
    <3>. QED  BY <3>1, <3>2
  <2>6. StartedOnce'
    BY <1>0 DEF GenIInv, StartedOnce
  <2>7. \A h \in Gens : /\ files'[h].claim = 0 => starts'[h] = 0
                        /\ files'[h].identity => starts'[h] = 1
                        /\ files[h].identity => files'[h].identity
    BY <1>0, <2>2 DEF GenIInv, SidecarsAgree
  <2>. QED  BY <1>0, <2>2, <2>3, <2>5, <2>6, <2>7, WorldMoves DEF LeaderAlive
<1>2. CASE files[g].claim # 0
  <2>1. files' = files /\ wrapper' = [wrapper EXCEPT ![w].at = "gone"]
    BY <1>2 DEF Claim
  <2>2. /\ wrapper' \in [Wrappers -> [gen : 0 .. MaxGenerations, at : WrapperPhases]]
        /\ wrapper'[w].at = "gone" /\ wrapper'[w].gen = g
        /\ \A v \in Wrappers : v # w => wrapper'[v] = wrapper[v]
    BY <1>0, <2>1 DEF WrapperPhases
  <2>3. WrappersAgree'
    BY <1>0, <2>1, <2>2 DEF GenIInv, WrappersAgree
  <2>4. StartedOnce'
    BY <1>0 DEF GenIInv, StartedOnce
  <2>5. \A h \in Gens : /\ files'[h].claim = 0 => starts'[h] = 0
                        /\ files'[h].identity => starts'[h] = 1
                        /\ files[h].identity => files'[h].identity
    BY <1>0, <2>1 DEF GenIInv, SidecarsAgree
  <2>. QED  BY <1>0, <2>1, <2>2, <2>3, <2>4, <2>5, WorldMoves DEF LeaderAlive
<1>. QED  BY <1>1, <1>2

LEMMA StartCommandPreserves ==
  ASSUME GenIInv, NEW w \in Wrappers, StartCommand(w)
  PROVE  GenIInv'
<1>. DEFINE g == wrapper[w].gen
<1>0. /\ wrapper[w].at = "claimed" /\ g \in Gens /\ files[g].claim = w /\ starts[g] = 0
      /\ UNCHANGED <<gens, cycle, green, files, sup, downs>>
      /\ files \in [Gens -> Sidecars] /\ cmd \in [Gens -> CommandStates] /\ starts \in [Gens -> Nat]
      /\ wrapper \in [Wrappers -> [gen : 0 .. MaxGenerations, at : WrapperPhases]]
  BY WrapperAt DEF StartCommand, GenIInv, GenTypeOK, WrappersAgree
<1>1. /\ cmd' = [cmd EXCEPT ![g] = "running"] /\ starts' = [starts EXCEPT ![g] = starts[g] + 1]
      /\ wrapper' = [wrapper EXCEPT ![w].at = "spawned"]
  BY DEF StartCommand
<1>2. /\ cmd' \in [Gens -> CommandStates] /\ starts' \in [Gens -> Nat]
      /\ cmd'[g] = "running" /\ starts'[g] = 1
      /\ \A h \in Gens : h # g => cmd'[h] = cmd[h] /\ starts'[h] = starts[h]
  BY <1>0, <1>1 DEF CommandStates
<1>3. /\ wrapper' \in [Wrappers -> [gen : 0 .. MaxGenerations, at : WrapperPhases]]
      /\ wrapper'[w].at = "spawned" /\ wrapper'[w].gen = g
      /\ \A v \in Wrappers : v # w => wrapper'[v] = wrapper[v]
  BY <1>0, <1>1 DEF WrapperPhases
<1>4. ~files[g].identity
  BY <1>0 DEF GenIInv, SidecarsAgree
<1>5. WrappersAgree'
  <2>. SUFFICES ASSUME NEW v \in Wrappers
                PROVE  /\ wrapper'[v].at # "unborn" => wrapper'[v].gen \in Gens
                       /\ wrapper'[v].at \in {"claimed", "spawned", "waiting"} => files'[wrapper'[v].gen].claim = v
                       /\ wrapper'[v].at = "claimed" => starts'[wrapper'[v].gen] = 0
                       /\ wrapper'[v].at \in {"spawned", "waiting"} => starts'[wrapper'[v].gen] = 1
    BY DEF WrappersAgree
  <2>1. CASE v = w
    BY <1>0, <1>2, <1>3, <2>1
  <2>2. CASE v # w
    <3>1. wrapper[v].at \in {"claimed", "spawned", "waiting"} =>
             wrapper[v].gen \in Gens /\ files[wrapper[v].gen].claim = v
      BY WrapperAt DEF GenIInv, WrappersAgree
    <3>2. wrapper[v].at \in {"claimed", "spawned", "waiting"} => wrapper[v].gen # g
      BY <1>0, <2>2, <3>1
    <3>. QED  BY <1>0, <1>2, <1>3, <2>2, <3>1, <3>2 DEF GenIInv, WrappersAgree
  <2>. QED  BY <2>1, <2>2
<1>6. StartedOnce'
  BY <1>2 DEF GenIInv, StartedOnce
<1>7. \A h \in Gens : /\ files'[h].claim = 0 => starts'[h] = 0
                      /\ files'[h].identity => starts'[h] = 1
                      /\ files[h].identity => files'[h].identity
  <2>1. files[g].claim # 0
    BY <1>0, WrapperAt
  <2>. QED  BY <1>0, <1>2, <1>4, <2>1 DEF GenIInv, SidecarsAgree
<1>8. \A h \in 1 .. Len(gens) : gens[h].processRef /\ ~LeaderAlive(h) => ~LeaderAlive(h)'
  <2>. SUFFICES ASSUME NEW h \in 1 .. Len(gens), gens[h].processRef, ~LeaderAlive(h)
                PROVE  ~LeaderAlive(h)'
    OBVIOUS
  <2>1. h \in Gens /\ h # g
    BY <1>4, GenerationAt DEF GenIInv, SidecarsAgree
  <2>. QED  BY <1>2, <2>1 DEF LeaderAlive
<1>9. \A h \in Gens : cmd'[h] = "killed" => cmd[h] = "killed"
  BY <1>2
<1>. QED  BY <1>0, <1>2, <1>3, <1>5, <1>6, <1>7, <1>8, <1>9, WorldMoves

\* Identify, Finish, CommandMissing, a wrapper that dies, a controller that
\* ends: the claims stay and no controller starts.
LEMMA QuietWorldPreserves ==
  ASSUME GenIInv,
         \/ \E w \in Wrappers : CommandMissing(w) \/ Identify(w) \/ Finish(w) \/ WrapperDies(w)
         \/ \E g \in Gens : CommandStep(g)
  PROVE  GenIInv'
<1>0. /\ files \in [Gens -> Sidecars] /\ cmd \in [Gens -> CommandStates] /\ starts \in [Gens -> Nat]
      /\ wrapper \in [Wrappers -> [gen : 0 .. MaxGenerations, at : WrapperPhases]]
  BY DEF GenIInv, GenTypeOK
<1>1. UNCHANGED <<gens, cycle, green, starts, sup, downs>>
  BY DEF CommandMissing, Identify, Finish, WrapperDies, CommandStep, CommandExits, DescendantsExit
<1>2. /\ files' \in [Gens -> Sidecars]
      /\ \A h \in Gens : /\ files'[h].claim = files[h].claim
                         /\ files[h].identity => files'[h].identity
                         /\ files'[h].identity => files[h].identity \/ starts[h] = 1
  <2>1. CASE \E w \in Wrappers : CommandMissing(w) \/ Finish(w)
    <3>1. PICK w \in Wrappers : files' = [files EXCEPT ![wrapper[w].gen].result = TRUE]
      BY <2>1 DEF CommandMissing, Finish
    <3>. QED  BY <1>0, <3>1 DEF Sidecars
  <2>2. CASE \E w \in Wrappers : Identify(w)
    <3>1. PICK w \in Wrappers : /\ files' = [files EXCEPT ![wrapper[w].gen].identity = TRUE]
                                /\ wrapper[w].at = "spawned"
      BY <2>2 DEF Identify
    <3>2. starts[wrapper[w].gen] = 1
      BY <3>1 DEF GenIInv, WrappersAgree
    <3>. QED  BY <1>0, <3>1, <3>2 DEF Sidecars
  <2>3. CASE UNCHANGED files
    BY <1>0, <2>3
  <2>. QED  BY <2>1, <2>2, <2>3 DEF WrapperDies, CommandStep, CommandExits, DescendantsExit
<1>3. /\ wrapper' \in [Wrappers -> [gen : 0 .. MaxGenerations, at : WrapperPhases]]
      /\ \A v \in Wrappers :
            /\ wrapper'[v].gen = wrapper[v].gen
            /\ wrapper'[v].at = wrapper[v].at \/ (wrapper'[v].at = "gone" /\ wrapper[v].at # "unborn")
               \/ (wrapper'[v].at = "waiting" /\ wrapper[v].at = "spawned")
  <2>1. CASE \E w \in Wrappers : CommandMissing(w) \/ Finish(w) \/ WrapperDies(w)
    <3>1. PICK w \in Wrappers : wrapper' = [wrapper EXCEPT ![w].at = "gone"] /\ wrapper[w].at # "unborn"
      BY <2>1 DEF CommandMissing, Finish, WrapperDies, WrapperAlive
    <3>. QED  BY <1>0, <3>1 DEF WrapperPhases
  <2>2. CASE \E w \in Wrappers : Identify(w)
    BY <1>0, <2>2 DEF Identify, WrapperPhases
  <2>3. CASE UNCHANGED wrapper
    BY <1>0, <2>3
  <2>. QED  BY <2>1, <2>2, <2>3 DEF CommandStep, CommandExits, DescendantsExit
<1>4. /\ cmd' \in [Gens -> CommandStates]
      /\ \A h \in Gens : cmd'[h] = cmd[h] \/ cmd'[h] \in {"gone", "leaderless"}
  <2>1. CASE \E w \in Wrappers : Finish(w)
    BY <1>0, <2>1 DEF Finish, CommandStates
  <2>2. CASE \E g \in Gens : CommandStep(g)
    BY <1>0, <2>2 DEF CommandStep, CommandExits, DescendantsExit, CommandStates
  <2>3. CASE UNCHANGED cmd
    BY <1>0, <2>3
  <2>. QED  BY <2>1, <2>2, <2>3 DEF CommandMissing, Identify, WrapperDies
<1>5. WrappersAgree'
  <2>. SUFFICES ASSUME NEW v \in Wrappers
                PROVE  /\ wrapper'[v].at # "unborn" => wrapper'[v].gen \in Gens
                       /\ wrapper'[v].at \in {"claimed", "spawned", "waiting"} => files'[wrapper'[v].gen].claim = v
                       /\ wrapper'[v].at = "claimed" => starts'[wrapper'[v].gen] = 0
                       /\ wrapper'[v].at \in {"spawned", "waiting"} => starts'[wrapper'[v].gen] = 1
    BY DEF WrappersAgree
  <2>1. wrapper'[v].at # "unborn" => wrapper[v].at # "unborn" /\ wrapper'[v].gen \in Gens
    BY <1>3, WrapperAt
  <2>. QED  BY <1>1, <1>2, <1>3, <2>1 DEF GenIInv, WrappersAgree
<1>6. StartedOnce'
  BY <1>1 DEF GenIInv, StartedOnce
<1>7. \A h \in Gens : /\ files'[h].claim = 0 => starts'[h] = 0
                      /\ files'[h].identity => starts'[h] = 1
                      /\ files[h].identity => files'[h].identity
  BY <1>1, <1>2 DEF GenIInv, SidecarsAgree
<1>8. \A h \in 1 .. Len(gens) : gens[h].processRef /\ ~LeaderAlive(h) => ~LeaderAlive(h)'
  BY <1>4, GenerationAt DEF GenIInv, LeaderAlive
<1>9. \A h \in Gens : cmd'[h] = "killed" => cmd[h] = "killed"
  BY <1>4
<1>. QED  BY <1>0, <1>1, <1>2, <1>3, <1>4, <1>5, <1>6, <1>7, <1>8, <1>9, WorldMoves

-----------------------------------------------------------------------------
(* The supervisor: steps that leave its generations alone *)

\* What a step of the supervisor must see to go where it goes.
Enters(pc, stamps) ==
    /\ pc \in NeedsActive => HasActive
    /\ pc \in {"spawn", "record"} => stamps < MaxRelaunches
    /\ pc = "resolve" => \A g \in ActiveSet : gens[g].processRef /\ ~LeaderAlive(g)

LEMMA SupMoves ==
  ASSUME GenIInv, UNCHANGED <<gens, files, wrapper, cmd, starts>>,
         cycle' \in {"IN_PROGRESS", "BLOCKED", "REQUESTS", "COMPLETE"},
         green' \in BOOLEAN, green => green',
         downs' \in 0 .. MaxDowns, downs' >= downs,
         sup' \in Memory, Enters(sup'.pc, sup'.stamps),
         sup'.pc = "complete" => green', sup'.pc = "stop" => downs' > 0,
         sup'.pc \in {"complete", "stop"} => sup'.next = 1 \/ (Ending /\ sup'.next = sup.next)
  PROVE  GenIInv'
<1>0. \A g \in 1 .. Len(gens) : g \in Gens
  BY GenerationAt DEF GenIInv
<1>1. GenTypeOK'
  BY DEF GenIInv, GenTypeOK
<1>2. ActiveSet' = ActiveSet
  BY DEF ActiveSet
<1>3. OneActive'
  BY <1>2 DEF GenIInv, OneActive
<1>4. PcAgrees'
  <2>1. sup'.pc \in NeedsActive => HasActive'
    BY <1>2 DEF Enters, HasActive
  <2>2. sup'.pc = "resolve" => \A g \in ActiveSet' : gens'[g].processRef /\ ~LeaderAlive(g)'
    BY <1>2 DEF Enters, LeaderAlive
  <2>3. ASSUME Ending', NEW g \in 1 .. Len(gens'), gens'[g].processRef, 2 * g - 1 < sup'.next
        PROVE  ~LeaderAlive(g)'
    <3>1. sup'.next # 1
      <4>1. g \in Nat /\ g >= 1
        BY <1>0 DEF Gens
      <4>. QED  BY <2>3, <4>1
    <3>2. Ending /\ sup'.next = sup.next
      BY <2>3, <3>1 DEF Ending
    <3>. QED  BY <2>3, <3>2 DEF GenIInv, PcAgrees, LeaderAlive
  <2>. QED  BY <2>1, <2>2, <2>3 DEF PcAgrees, Enters
<1>5. WrappersAgree'
  BY DEF GenIInv, WrappersAgree
<1>6. SidecarsAgree'
  BY DEF GenIInv, SidecarsAgree
<1>7. StartedOnce' /\ AdoptedIsKept'
  BY DEF GenIInv, StartedOnce, AdoptedIsKept, LeaderAlive
<1>8. SilenceKillsNobody'
  BY Bounds DEF GenIInv, SilenceKillsNobody, GenTypeOK
<1>. QED  BY <1>1, <1>3, <1>4, <1>5, <1>6, <1>7, <1>8 DEF GenIInv

LEMMA SupTypes ==
  ASSUME GenIInv
  PROVE  /\ sup \in Memory /\ green \in BOOLEAN /\ downs \in 0 .. MaxDowns /\ downs \in Nat
         /\ cycle \in {"IN_PROGRESS", "BLOCKED", "REQUESTS", "COMPLETE"}
         /\ sup.stamps \in 0 .. MaxRelaunches /\ sup.pc \in Pcs /\ sup.relaunch \in BOOLEAN
         /\ sup.next \in 1 .. (2 * MaxGenerations + 1) /\ sup.waiting \in BOOLEAN
         /\ Off \in Memory /\ 1 \in 1 .. (2 * MaxGenerations + 1)
  BY Bounds DEF GenIInv, GenTypeOK, Memory, Off, Pcs

\* A step to another place of the tick.
LEMMA GoPreserves ==
  ASSUME GenIInv, NEW pc \in Pcs \ {"complete", "stop", "off"}, Go(pc), Enters(pc, sup.stamps),
         UNCHANGED <<gens, cycle, green, files, wrapper, cmd, starts, downs>>
  PROVE  GenIInv'
<1>1. sup' \in Memory /\ sup'.pc = pc /\ sup'.stamps = sup.stamps
  BY SupTypes DEF Go, Memory
<1>. QED  BY <1>1, SupTypes, SupMoves

LEMMA CustodyPreserves ==
  ASSUME GenIInv, NEW why \in {"BLOCKED", "REQUESTS"}, Custody(why)
  PROVE  GenIInv'
<1>1. sup' \in Memory /\ sup'.pc = "idle"
  <2>1. 0 \in 0 .. MaxWrappers /\ 1 \in 1 .. (2 * MaxGenerations + 1) /\ sup \in Memory
    BY SupTypes, Bounds
  <2>2. sup' = [sup EXCEPT !.pc = "idle", !.relaunch = FALSE, !.spawned = 0, !.next = 1]
    BY DEF Custody
  <2>. QED  BY <2>1, <2>2 DEF Memory, Pcs
<1>2. Enters(sup'.pc, sup'.stamps)
  BY <1>1 DEF Enters, NeedsActive
<1>. QED  BY <1>1, <1>2, SupTypes, SupMoves DEF Custody

LEMMA StillActive ==
  ASSUME GenIInv, sup.pc \in NeedsActive
  PROVE  /\ HasActive /\ Active \in ActiveSet /\ \A g \in ActiveSet : g = Active
         /\ Active \in 1 .. Len(gens) /\ Active \in Gens /\ gens[Active] \in Generation
<1>1. HasActive /\ OneActive /\ GenTypeOK
  BY DEF GenIInv, PcAgrees
<1>2. Active \in ActiveSet /\ \A g \in ActiveSet : g = Active
  BY <1>1, ActiveIs
<1>3. Active \in 1 .. Len(gens)
  BY <1>2 DEF ActiveSet
<1>. QED  BY <1>1, <1>2, <1>3, GenerationAt

\* The steps of the tick that only move on.
LEMMA TickPreserves ==
  ASSUME GenIInv,
         \/ EnsureDeferred \/ EnsureKnown \/ EnsureYoungClaim \/ SuperviseDeferred
         \/ SuperviseDead \/ GateRed
  PROVE  GenIInv'
<1>1. CASE EnsureDeferred \/ EnsureKnown \/ EnsureYoungClaim
  <2>1. sup.pc = "ensure" /\ Go("supervise")
        /\ UNCHANGED <<gens, cycle, green, files, wrapper, cmd, starts, downs>>
    BY <1>1 DEF EnsureDeferred, EnsureKnown, EnsureYoungClaim, ClaimAmbiguous, Untracked, Unadopted, Ensuring
  <2>2. Enters("supervise", sup.stamps)
    BY <2>1, StillActive DEF Enters, NeedsActive
  <2>. QED  BY <2>1, <2>2, GoPreserves DEF Pcs
<1>2. CASE SuperviseDeferred \/ GateRed
  <2>1. \E pc \in {"gate", "idle"} :
            Go(pc) /\ UNCHANGED <<gens, cycle, green, files, wrapper, cmd, starts, downs>>
    BY <1>2 DEF SuperviseDeferred, GateRed
  <2>2. \A pc \in {"gate", "idle"} : Enters(pc, sup.stamps) /\ pc \in Pcs
    BY DEF Enters, NeedsActive, Pcs
  <2>. QED  BY <2>1, <2>2, GoPreserves
<1>3. CASE SuperviseDead
  <2>1. sup.pc = "supervise" /\ Go("resolve") /\ gens[Active].processRef /\ ~LeaderAlive(Active)
        /\ UNCHANGED <<gens, cycle, green, files, wrapper, cmd, starts, downs>>
    BY <1>3 DEF SuperviseDead, Supervising, SafeToReplace
  <2>2. Enters("resolve", sup.stamps)
    BY <2>1, StillActive DEF Enters, NeedsActive
  <2>. QED  BY <2>1, <2>2, GoPreserves DEF Pcs
<1>. QED  BY <1>1, <1>2, <1>3

LEMMA CustodyStepsPreserve ==
  ASSUME GenIInv,
         \/ TickBlocks \/ EnsureExhausted \/ EnsureEnded \/ EnsureOldClaim \/ SuperviseSilence
         \/ ResolveUnconfirmed \/ ResolveNotAdmitted \/ CompleteUnconfirmed
  PROVE  GenIInv'
<1>1. \E why \in {"BLOCKED", "REQUESTS"} : Custody(why)
  BY DEF TickBlocks, EnsureExhausted, EnsureEnded, EnsureOldClaim, SuperviseSilence,
         ResolveUnconfirmed, ResolveNotAdmitted, CompleteUnconfirmed
<1>. QED  BY <1>1, CustodyPreserves

\* Beginning and end of the loop, the gate, and time.
LEMMA LoopPreserves ==
  ASSUME GenIInv,
         \/ Start \/ Crash \/ StopRetains \/ GateGreen \/ TurnGreen
         \/ BackoffPasses \/ HourPasses \/ LaunchFails
  PROVE  GenIInv'
<1>. USE SupTypes
<1>1. CASE Start
  <2>1. sup' \in Memory /\ sup'.pc = "idle"
    BY <1>1 DEF Start, Off, Memory, Pcs
  <2>2. Enters(sup'.pc, sup'.stamps)
    BY <2>1 DEF Enters, NeedsActive
  <2>. QED  BY <1>1, <2>1, <2>2, SupMoves DEF Start
<1>2. CASE Crash \/ StopRetains
  <2>0. sup' = Off
    BY <1>2 DEF Crash, StopRetains
  <2>1. sup' \in Memory /\ sup'.pc = "off"
    <3>1. Off.pc = "off"
      BY DEF Off
    <3>. QED  BY <2>0, <3>1
  <2>2. Enters(sup'.pc, sup'.stamps)
    BY <2>1 DEF Enters, NeedsActive
  <2>3. downs' \in 0 .. MaxDowns /\ downs' >= downs
    BY <1>2, Bounds DEF Crash, StopRetains
  <2>. QED  BY <1>2, <2>1, <2>2, <2>3, SupMoves DEF Crash, StopRetains
<1>3. CASE GateGreen
  <2>1. sup' \in Memory /\ sup'.pc = "complete" /\ sup'.next = 1 /\ green
    BY <1>3 DEF GateGreen, Memory, Pcs
  <2>2. Enters(sup'.pc, sup'.stamps)
    BY <2>1 DEF Enters, NeedsActive
  <2>. QED  BY <1>3, <2>1, <2>2, SupMoves DEF GateGreen
<1>4. CASE TurnGreen
  <2>1. Enters(sup.pc, sup.stamps)
    BY DEF Enters, GenIInv, PcAgrees
  <2>2. sup.pc = "stop" => downs > 0
    BY DEF GenIInv, PcAgrees
  <2>. QED  BY <1>4, <2>1, <2>2, SupMoves DEF TurnGreen, Ending
<1>5. CASE BackoffPasses \/ HourPasses
  <2>1. sup' \in Memory /\ sup'.pc = sup.pc /\ sup'.next = sup.next /\ sup'.stamps <= sup.stamps
    <3>1. CASE BackoffPasses
      <4>1. sup \in Memory /\ sup.stamps <= sup.stamps
        BY Bounds
      <4>. QED  BY <3>1, <4>1 DEF BackoffPasses, Memory
    <3>2. CASE HourPasses
      <4>1. sup.stamps - 1 \in 0 .. MaxRelaunches /\ sup.stamps - 1 <= sup.stamps
        BY <3>2, Bounds DEF HourPasses
      <4>. QED  BY <3>2, <4>1 DEF HourPasses, Memory
    <3>. QED  BY <1>5, <3>1, <3>2
  <2>2. Enters(sup'.pc, sup'.stamps)
    <3>1. sup'.stamps \in 0 .. MaxRelaunches
      BY <2>1 DEF Memory
    <3>. QED  BY <2>1, <3>1, Bounds DEF Enters, GenIInv, PcAgrees
  <2>3. (sup.pc = "stop" => downs > 0) /\ (sup.pc = "complete" => green)
    BY DEF GenIInv, PcAgrees
  <2>. QED  BY <1>5, <2>1, <2>2, <2>3, SupMoves DEF BackoffPasses, HourPasses, Ending
<1>6. CASE LaunchFails
  <2>1. /\ sup.pc \in {"ensure", "spawn"} /\ sup.stamps < MaxRelaunches
        /\ cycle' \in {cycle, "BLOCKED"}
        /\ \E pc \in {"gate", "supervise", "idle"} :
               sup' = [sup EXCEPT !.pc = pc, !.relaunch = FALSE, !.stamps = sup.stamps + 1, !.waiting = TRUE]
        /\ UNCHANGED <<gens, green, files, wrapper, cmd, starts, downs>>
    <3>1. sup.pc \in {"ensure", "spawn"} /\ sup.stamps < MaxRelaunches
      BY <1>6, Bounds DEF LaunchFails, Launchable, Untracked, Unadopted, Ensuring, Exhausted,
                          GenIInv, PcAgrees
    <3>2. CASE /\ sup' = [sup EXCEPT !.pc = IF sup.relaunch THEN "gate" ELSE "supervise",
                                     !.relaunch = FALSE, !.stamps = @ + 1, !.waiting = TRUE]
               /\ UNCHANGED cycle
      BY <1>6, <3>1, <3>2 DEF LaunchFails
    <3>3. CASE /\ cycle' = "BLOCKED"
               /\ sup' = [sup EXCEPT !.pc = "idle", !.relaunch = FALSE, !.stamps = @ + 1,
                                     !.waiting = TRUE]
      BY <1>6, <3>1, <3>3 DEF LaunchFails
    <3>. QED  BY <1>6, <3>2, <3>3 DEF LaunchFails
  <2>2. sup.stamps + 1 \in 0 .. MaxRelaunches
    BY <2>1, Bounds
  <2>3. sup' \in Memory /\ sup'.pc \in {"gate", "supervise", "idle"}
    BY <2>1, <2>2 DEF Memory, Pcs
  <2>4. Enters(sup'.pc, sup'.stamps)
    BY <2>1, <2>3, StillActive DEF Enters, NeedsActive
  <2>. QED  BY <2>1, <2>3, <2>4, SupMoves
<1>. QED  BY <1>1, <1>2, <1>3, <1>4, <1>5, <1>6

-----------------------------------------------------------------------------
(* The supervisor: steps that change its generations or end processes *)

\* What such a step must show; the rest of the invariant follows.
LEMMA GensMove ==
  ASSUME GenIInv, UNCHANGED <<green, files, starts>>,
         gens' \in Seq(Generation), Len(gens') <= MaxGenerations,
         cycle' \in {"IN_PROGRESS", "BLOCKED", "REQUESTS", "COMPLETE"},
         wrapper' \in [Wrappers -> [gen : 0 .. MaxGenerations, at : WrapperPhases]], WrappersAgree',
         cmd' \in [Gens -> CommandStates], sup' \in Memory,
         downs' \in 0 .. MaxDowns, downs' >= downs,
         OneActive', PcAgrees', AdoptedIsKept',
         \A g \in 1 .. Len(gens') : gens'[g].processRef => files[g].identity,
         \A g \in Gens : cmd'[g] = "killed" => cmd[g] = "killed" \/ green \/ downs > 0
  PROVE  GenIInv'
<1>1. GenTypeOK'
  BY DEF GenIInv, GenTypeOK
<1>2. SidecarsAgree'
  BY DEF GenIInv, SidecarsAgree
<1>3. StartedOnce'
  BY DEF GenIInv, StartedOnce
<1>4. SilenceKillsNobody'
  <2>1. downs \in Nat /\ downs' \in Nat
    BY Bounds DEF GenIInv, GenTypeOK
  <2>. QED  BY <2>1 DEF GenIInv, SilenceKillsNobody
<1>. QED  BY <1>1, <1>2, <1>3, <1>4 DEF GenIInv

\* The active generation changes and keeps the token.
LEMMA ActiveChanges ==
  ASSUME GenIInv, HasActive, UNCHANGED <<cycle, green, files, wrapper, cmd, starts>>,
         gens' \in Seq(Generation), Len(gens') = Len(gens),
         gens'[Active].state \in Held,
         gens'[Active].processRef => files[Active].identity,
         \A h \in 1 .. Len(gens) : h # Active => gens'[h] = gens[h],
         downs' \in 0 .. MaxDowns, downs' >= downs, sup' \in Memory,
         sup'.pc \notin {"resolve", "complete"},
         sup'.pc \in {"spawn", "record"} => sup'.stamps < MaxRelaunches,
         sup'.pc = "stop" => downs' > 0 /\ sup'.next = 1
  PROVE  GenIInv'
<1>1. Active \in ActiveSet /\ \A g \in ActiveSet : g = Active
  BY ActiveIs DEF GenIInv
<1>2. Active \in 1 .. Len(gens) /\ Active \in Gens
  BY <1>1, GenerationAt DEF ActiveSet, GenIInv
<1>3. ActiveSet' = ActiveSet
  <2>1. \A g \in 1 .. Len(gens) : gens'[g].state \in Held <=> gens[g].state \in Held
    BY <1>1 DEF ActiveSet
  <2>. QED  BY <2>1 DEF ActiveSet
<1>4. OneActive'
  BY <1>3 DEF GenIInv, OneActive
<1>5. PcAgrees'
  <2>1. HasActive'
    BY <1>3 DEF HasActive
  <2>2. ASSUME Ending', NEW g \in 1 .. Len(gens'), 2 * g - 1 < sup'.next
        PROVE  FALSE
    <3>1. sup'.next = 1
      BY <2>2 DEF Ending
    <3>2. g \in Nat /\ g >= 1
      BY GenerationAt DEF GenIInv, Gens
    <3>. QED  BY <2>2, <3>1, <3>2
  <2>. QED  BY <2>1, <2>2 DEF PcAgrees
<1>6. AdoptedIsKept'
  BY <1>2 DEF GenIInv, AdoptedIsKept, LeaderAlive
<1>7. \A g \in 1 .. Len(gens') : gens'[g].processRef => files[g].identity
  BY DEF GenIInv, SidecarsAgree
<1>8. WrappersAgree'
  BY DEF GenIInv, WrappersAgree
<1>9. Len(gens') <= MaxGenerations /\ GenTypeOK
  BY DEF GenIInv, GenTypeOK
<1>. QED  BY <1>4, <1>5, <1>6, <1>7, <1>8, <1>9, GensMove DEF GenTypeOK

\* collectControllerGeneration records an identity that is there.
LEMMA AdoptedFacts ==
  ASSUME GenIInv, HasActive
  PROVE  LET t == Adopted(gens, Active)
         IN  /\ t \in Seq(Generation) /\ Len(t) = Len(gens)
             /\ t[Active].state = gens[Active].state
             /\ \A h \in 1 .. Len(gens) : h # Active => t[h] = gens[h]
<1>1. Active \in 1 .. Len(gens) /\ gens[Active] \in Generation /\ Active \in Gens
  BY ActiveIs, GenerationAt DEF GenIInv, ActiveSet
<1>2. gens \in Seq(Generation) /\ files[Active].claim \in 0 .. MaxWrappers
  BY <1>1 DEF GenIInv, GenTypeOK, Sidecars
<1>. DEFINE a == Active
            e == [gens[a] EXCEPT !.wrapperRef = files[a].claim]
            u == [gens EXCEPT ![a] = e]
            f == [u[a] EXCEPT !.processRef = TRUE]
            t == [u EXCEPT ![a] = f]
<1>3. e \in Generation /\ e.state = gens[a].state
  BY <1>1, <1>2 DEF Generation
<1>. HIDE DEF e
<1>4. u \in Seq(Generation) /\ Len(u) = Len(gens) /\ u[a] = e /\ \A h \in 1 .. Len(gens) : h # a => u[h] = gens[h]
  BY <1>1, <1>2, <1>3, ExceptSeq
<1>. HIDE DEF u
<1>5. f \in Generation /\ f.state = gens[a].state
  BY <1>3, <1>4 DEF Generation
<1>. HIDE DEF f
<1>6. t \in Seq(Generation) /\ Len(t) = Len(gens) /\ t[a] = f /\ \A h \in 1 .. Len(gens) : h # a => t[h] = gens[h]
  BY <1>1, <1>4, <1>5, ExceptSeq
<1>7. Adopted(gens, Active) = t
  BY DEF Adopted, t, f, u, e
<1>. HIDE DEF t
<1>. QED  BY <1>5, <1>6, <1>7

LEMMA ActiveStepsPreserve ==
  ASSUME GenIInv,
         EnsureAdopts \/ EnsureLaunch \/ RecordWrapper \/ SuperviseHealthy \/ SuperviseSuspects
  PROVE  GenIInv'
<1>0. /\ HasActive /\ Active \in 1 .. Len(gens) /\ gens[Active] \in Generation /\ Active \in Gens
      /\ gens[Active].state \in Held
      /\ gens[Active].processRef => files[Active].identity
  <2>1. sup.pc \in NeedsActive
    BY DEF EnsureAdopts, EnsureLaunch, Launchable, Untracked, Unadopted, Ensuring, RecordWrapper,
           SuperviseHealthy, SuperviseSuspects, Supervising, NeedsActive
  <2>2. /\ HasActive /\ Active \in 1 .. Len(gens) /\ gens[Active] \in Generation /\ Active \in Gens
        /\ Active \in ActiveSet
    BY <2>1, StillActive
  <2>. QED  BY <2>2 DEF ActiveSet, GenIInv, SidecarsAgree
<1>1. /\ sup \in Memory /\ downs \in 0 .. MaxDowns /\ downs >= downs /\ GenTypeOK
      /\ sup.stamps \in 0 .. MaxRelaunches
  BY SupTypes, Bounds DEF GenIInv
<1>2. CASE EnsureAdopts
  <2>1. /\ gens' = Adopted(gens, Active) /\ files[Active].identity
        /\ UNCHANGED <<cycle, green, files, wrapper, cmd, starts, downs>>
    BY <1>2 DEF EnsureAdopts, Identified
  <2>2. sup' \in Memory /\ sup'.pc = "supervise"
    BY <1>1, <1>2 DEF EnsureAdopts, Go, Memory, Pcs
  <2>3. /\ gens' \in Seq(Generation) /\ Len(gens') = Len(gens) /\ gens'[Active].state \in Held
        /\ \A h \in 1 .. Len(gens) : h # Active => gens'[h] = gens[h]
    BY <1>0, <2>1, AdoptedFacts
  <2>. QED  BY <1>0, <1>1, <2>1, <2>2, <2>3, ActiveChanges
<1>3. ASSUME NEW e \in Generation, gens' = [gens EXCEPT ![Active] = e],
             e.state \in Held, e.processRef => files[Active].identity,
             UNCHANGED <<cycle, green, files, wrapper, cmd, starts, downs>>,
             sup' \in Memory, sup'.pc \in {"spawn", "supervise", "gate"},
             sup'.pc = "spawn" => sup'.stamps < MaxRelaunches
      PROVE  GenIInv'
  <2>1. /\ gens' \in Seq(Generation) /\ Len(gens') = Len(gens) /\ gens'[Active] = e
        /\ \A h \in 1 .. Len(gens) : h # Active => gens'[h] = gens[h]
    BY <1>0, <1>1, <1>3, ChangedGens
  <2>. QED  BY <1>0, <1>1, <1>3, <2>1, ActiveChanges
<1>4. CASE EnsureLaunch
  <2>. DEFINE e == [gens[Active] EXCEPT !.intent = TRUE]
  <2>1. e \in Generation /\ e.state = gens[Active].state /\ e.processRef = gens[Active].processRef
    BY <1>0 DEF Generation
  <2>2. gens' = [gens EXCEPT ![Active] = e]
    BY <1>4 DEF EnsureLaunch
  <2>3. sup' \in Memory /\ sup'.pc = "spawn" /\ sup'.stamps = sup.stamps
    BY <1>1, <1>4 DEF EnsureLaunch, Go, Memory, Pcs
  <2>4. sup.stamps < MaxRelaunches
    BY <1>1, <1>4, Bounds DEF EnsureLaunch, Launchable, Untracked, Unadopted, Ensuring, Exhausted
  <2>5. UNCHANGED <<cycle, green, files, wrapper, cmd, starts, downs>>
    BY <1>4 DEF EnsureLaunch
  <2>. HIDE DEF e
  <2>. QED  BY <1>0, <1>3, <2>1, <2>2, <2>3, <2>4, <2>5
<1>5. CASE RecordWrapper
  <2>. DEFINE e == [gens[Active] EXCEPT !.wrapperRef = sup.spawned]
  <2>1. e \in Generation /\ e.state = gens[Active].state /\ e.processRef = gens[Active].processRef
    BY <1>0, <1>1 DEF Generation, Memory
  <2>2. gens' = [gens EXCEPT ![Active] = e]
    BY <1>5 DEF RecordWrapper
  <2>3. sup' \in Memory /\ sup'.pc \in {"supervise", "gate"}
    <3>1. sup.stamps < MaxRelaunches
      BY <1>5 DEF RecordWrapper, GenIInv, PcAgrees
    <3>2. (IF sup.relaunch THEN sup.stamps + 1 ELSE sup.stamps) \in 0 .. MaxRelaunches
      BY <1>1, <3>1, Bounds
    <3>3. (sup.waiting \/ sup.relaunch) \in BOOLEAN
      BY SupTypes
    <3>4. 0 \in 0 .. MaxWrappers
      BY Bounds
    <3>. QED  BY <1>1, <1>5, <3>2, <3>3, <3>4 DEF RecordWrapper, Memory, Pcs
  <2>4. UNCHANGED <<cycle, green, files, wrapper, cmd, starts, downs>>
    BY <1>5 DEF RecordWrapper
  <2>. HIDE DEF e
  <2>. QED  BY <1>0, <1>3, <2>1, <2>2, <2>3, <2>4
<1>6. CASE SuperviseHealthy \/ SuperviseSuspects
  <2>1. PICK state \in Held : Observe(state)
    BY <1>6 DEF SuperviseHealthy, SuperviseSuspects, Held
  <2>. DEFINE e == [gens[Active] EXCEPT !.state = state]
  <2>2. e \in Generation /\ e.state = state /\ e.processRef = gens[Active].processRef
    BY <1>0 DEF Generation, Held
  <2>3. gens' = [gens EXCEPT ![Active] = e]
    BY <2>1 DEF Observe
  <2>4. sup' \in Memory /\ sup'.pc = "gate"
    BY <1>1, <2>1 DEF Observe, Go, Memory, Pcs
  <2>5. UNCHANGED <<cycle, green, files, wrapper, cmd, starts, downs>>
    BY <2>1 DEF Observe
  <2>. HIDE DEF e
  <2>. QED  BY <1>0, <1>3, <2>2, <2>3, <2>4, <2>5
<1>. QED  BY <1>2, <1>4, <1>5, <1>6

\* The active generation after beginGeneration is the one it adds.
LEMMA SupersedingActive ==
  ASSUME NEW gs \in Seq(Generation), gens' = Superseding(gs)
  PROVE  /\ gens' \in Seq(Generation) /\ Len(gens') = Len(gs) + 1
         /\ ActiveSet' = {Len(gs) + 1}
         /\ \A g \in 1 .. Len(gs) : gens'[g].processRef = gs[g].processRef
         /\ gens'[Len(gs) + 1].processRef = FALSE
<1>1. /\ gens' \in Seq(Generation) /\ Len(gens') = Len(gs) + 1
      /\ \A g \in 1 .. Len(gs) : gens'[g].state \notin Held /\ gens'[g].processRef = gs[g].processRef
      /\ gens'[Len(gs) + 1].state = "active" /\ gens'[Len(gs) + 1].processRef = FALSE
  BY SupersedingFacts
<1>2. Len(gs) \in Nat
  BY LenProperties
<1>3. \A g \in 1 .. Len(gs) + 1 : g \in 1 .. Len(gs) \/ g = Len(gs) + 1
  BY <1>2
<1>4. ActiveSet' = {g \in 1 .. Len(gs) + 1 : gens'[g].state \in Held}
  BY <1>1 DEF ActiveSet
<1>5. Len(gs) + 1 \in 1 .. Len(gs) + 1
  BY <1>2
<1>6. ActiveSet' = {Len(gs) + 1}
  BY <1>1, <1>3, <1>4, <1>5 DEF Held
<1>. QED  BY <1>1, <1>6

LEMMA BeginTickPreserves ==
  ASSUME GenIInv, BeginTick
  PROVE  GenIInv'
<1>0. /\ sup \in Memory /\ downs \in 0 .. MaxDowns /\ downs >= downs /\ GenTypeOK /\ gens \in Seq(Generation)
      /\ Len(gens) \in Nat
  BY SupTypes, Bounds, LenProperties DEF GenIInv, GenTypeOK
<1>1. /\ sup' \in Memory /\ sup'.pc = "ensure" /\ sup'.stamps = sup.stamps
      /\ UNCHANGED <<cycle, green, files, wrapper, cmd, starts, downs>>
  BY <1>0 DEF BeginTick, Go, Memory, Pcs
<1>2. CASE HasActive
  <2>1. UNCHANGED gens
    BY <1>2 DEF BeginTick
  <2>2. Enters(sup'.pc, sup'.stamps)
    BY <1>1, <1>2 DEF Enters
  <2>. QED  BY <1>1, <2>1, <2>2, SupTypes, SupMoves, <1>0
<1>3. CASE ~HasActive
  <2>1. gens' = Superseding(gens) /\ Len(gens) < MaxGenerations
    BY <1>3 DEF BeginTick
  <2>2. /\ gens' \in Seq(Generation) /\ Len(gens') = Len(gens) + 1 /\ ActiveSet' = {Len(gens) + 1}
        /\ \A g \in 1 .. Len(gens) : gens'[g].processRef = gens[g].processRef
        /\ gens'[Len(gens) + 1].processRef = FALSE
    BY <1>0, <2>1, SupersedingActive
  <2>3. OneActive' /\ HasActive'
    BY <2>2 DEF OneActive, HasActive
  <2>4. PcAgrees'
    BY <1>1, <2>3 DEF PcAgrees, Ending
  <2>5. \A g \in 1 .. Len(gens') : g \in 1 .. Len(gens) \/ g = Len(gens) + 1
    BY <1>0, <2>2
  <2>6. AdoptedIsKept'
    <3>1. \A g \in 1 .. Len(gens) : gens[g].processRef => ~LeaderAlive(g)
      BY <1>3 DEF GenIInv, AdoptedIsKept, HasActive, ActiveSet
    <3>. QED  BY <1>1, <2>2, <2>5, <3>1 DEF AdoptedIsKept, LeaderAlive
  <2>7. \A g \in 1 .. Len(gens') : gens'[g].processRef => files[g].identity
    BY <2>2, <2>5 DEF GenIInv, SidecarsAgree
  <2>8. WrappersAgree'
    BY <1>1 DEF GenIInv, WrappersAgree
  <2>9. Len(gens') <= MaxGenerations
    BY <1>0, <2>1, <2>2, Bounds
  <2>10. \A g \in Gens : cmd'[g] = "killed" => cmd[g] = "killed" \/ green \/ downs > 0
    BY <1>1
  <2>. QED  BY <1>0, <1>1, <2>2, <2>3, <2>4, <2>6, <2>7, <2>8, <2>9, <2>10, GensMove DEF GenTypeOK
<1>. QED  BY <1>2, <1>3

LEMMA ReplacePreserves ==
  ASSUME GenIInv, Replace
  PROVE  GenIInv'
<1>0. /\ sup \in Memory /\ downs \in 0 .. MaxDowns /\ downs >= downs /\ GenTypeOK /\ gens \in Seq(Generation)
      /\ Len(gens) \in Nat
  BY SupTypes, Bounds, LenProperties DEF GenIInv, GenTypeOK
<1>1. /\ Active \in 1 .. Len(gens) /\ gens[Active] \in Generation /\ Active \in ActiveSet
      /\ \A g \in ActiveSet : g = Active
      /\ ~LeaderAlive(Active) /\ gens[Active].processRef
  <2>1. sup.pc = "resolve"
    BY DEF Replace, Resolved
  <2>2. /\ Active \in 1 .. Len(gens) /\ gens[Active] \in Generation /\ Active \in ActiveSet
        /\ \A g \in ActiveSet : g = Active
    BY <2>1, StillActive DEF NeedsActive
  <2>. QED  BY <2>1, <2>2 DEF GenIInv, PcAgrees
<1>2. PICK s \in {"active", "terminated"} :
         gens' = Superseding([gens EXCEPT ![Active].state = s])
  BY DEF Replace
<1>. DEFINE e == [gens[Active] EXCEPT !.state = s]
            gs == [gens EXCEPT ![Active] = e]
<1>3. e \in Generation /\ e.processRef = gens[Active].processRef
  BY <1>1 DEF Generation
<1>4. gens' = Superseding(gs)
  BY <1>2
<1>. HIDE DEF e
<1>5. /\ gs \in Seq(Generation) /\ Len(gs) = Len(gens) /\ gs[Active] = e
      /\ \A h \in 1 .. Len(gens) : h # Active => gs[h] = gens[h]
  BY <1>0, <1>1, <1>3, ExceptSeq
<1>. HIDE DEF gs
<1>6. /\ gens' \in Seq(Generation) /\ Len(gens') = Len(gs) + 1 /\ ActiveSet' = {Len(gs) + 1}
      /\ \A g \in 1 .. Len(gs) : gens'[g].processRef = gs[g].processRef
      /\ gens'[Len(gs) + 1].processRef = FALSE
  BY <1>4, <1>5, SupersedingActive
<1>7. /\ Len(gens') = Len(gens) + 1 /\ ActiveSet' = {Len(gens) + 1}
      /\ \A g \in 1 .. Len(gens) : gens'[g].processRef = gens[g].processRef
      /\ gens'[Len(gens) + 1].processRef = FALSE
  BY <1>3, <1>5, <1>6
<1>8. cmd' = cmd
  BY <1>1 DEF Replace, Ended
<1>9. /\ sup' \in Memory /\ sup'.pc = "ensure"
      /\ UNCHANGED <<cycle, green, files, wrapper, starts, downs>>
  BY <1>0 DEF Replace, Memory, Pcs
<1>10. OneActive' /\ HasActive'
  BY <1>7 DEF OneActive, HasActive
<1>11. PcAgrees'
  BY <1>9, <1>10 DEF PcAgrees, Ending
<1>12. \A g \in 1 .. Len(gens') : g \in 1 .. Len(gens) \/ g = Len(gens) + 1
  BY <1>0, <1>7
<1>13. AdoptedIsKept'
  <2>1. \A g \in 1 .. Len(gens) : gens[g].processRef => ~LeaderAlive(g)
    BY <1>1 DEF GenIInv, AdoptedIsKept, ActiveSet
  <2>. QED  BY <1>7, <1>8, <1>12, <2>1 DEF AdoptedIsKept, LeaderAlive
<1>14. \A g \in 1 .. Len(gens') : gens'[g].processRef => files[g].identity
  BY <1>7, <1>12 DEF GenIInv, SidecarsAgree
<1>15. WrappersAgree'
  BY <1>9 DEF GenIInv, WrappersAgree
<1>16. Len(gens') <= MaxGenerations
  BY <1>0, <1>7, Bounds DEF Replace
<1>17. \A g \in Gens : cmd'[g] = "killed" => cmd[g] = "killed" \/ green \/ downs > 0
  BY <1>8
<1>. QED  BY <1>0, <1>6, <1>8, <1>9, <1>10, <1>11, <1>13, <1>14, <1>15, <1>16, <1>17, GensMove
          DEF GenTypeOK

\* COMPLETE and the end of an orderly stop: every controller on record was
\* ended on the way there.
LEMMA LastWritePreserves ==
  ASSUME GenIInv, Complete \/ Stop
  PROVE  GenIInv'
<1>0. /\ downs \in 0 .. MaxDowns /\ downs >= downs /\ GenTypeOK
      /\ Len(gens) \in Nat /\ Len(gens) <= MaxGenerations
  BY SupTypes, Bounds, LenProperties DEF GenIInv, GenTypeOK
<1>1. /\ gens' \in Seq(Generation) /\ Len(gens') = Len(gens)
      /\ \A g \in 1 .. Len(gens) : gens'[g].state \notin Held /\ gens'[g].processRef = gens[g].processRef
  <2>1. gens' = AllTerminated
    BY DEF Complete, Stop
  <2>. QED  BY <1>0, <2>1, AllTerminatedFacts
<1>2. sup' \in Memory /\ sup'.pc = "off"
  <2>1. \E b \in BOOLEAN : sup' = [Off EXCEPT !.released = b]
    BY DEF Complete, Stop
  <2>2. Off \in Memory /\ Off.pc = "off"
    BY SupTypes DEF Off
  <2>. QED  BY <2>1, <2>2 DEF Memory
<1>3. /\ cycle' \in {"IN_PROGRESS", "BLOCKED", "REQUESTS", "COMPLETE"}
      /\ UNCHANGED <<green, files, wrapper, cmd, starts, downs>>
  BY SupTypes DEF Complete, Stop
<1>4. ActiveSet' = {}
  BY <1>1 DEF ActiveSet
<1>5. OneActive' /\ PcAgrees'
  BY <1>2, <1>4 DEF OneActive, PcAgrees, NeedsActive, Ending
<1>6. AdoptedIsKept'
  <2>1. Ending /\ sup.next > 2 * Len(gens)
    <3>1. sup.next \in Nat
      BY SupTypes, Bounds
    <3>. QED  BY <1>0, <3>1 DEF Complete, Stop, MoreRefs, Ending
  <2>2. \A g \in 1 .. Len(gens) : gens[g].processRef => ~LeaderAlive(g)
    <3>. SUFFICES ASSUME NEW g \in 1 .. Len(gens), gens[g].processRef  PROVE ~LeaderAlive(g)
      OBVIOUS
    <3>1. 2 * g - 1 < sup.next
      <4>1. sup.next \in Nat /\ g \in Nat /\ g <= Len(gens)
        BY SupTypes, Bounds, <1>0
      <4>. QED  BY <1>0, <2>1, <4>1
    <3>. QED  BY <2>1, <3>1 DEF GenIInv, PcAgrees
  <2>. QED  BY <1>1, <1>3, <2>2 DEF AdoptedIsKept, LeaderAlive
<1>7. \A g \in 1 .. Len(gens') : gens'[g].processRef => files[g].identity
  BY <1>1 DEF GenIInv, SidecarsAgree
<1>8. WrappersAgree'
  BY <1>3 DEF GenIInv, WrappersAgree
<1>9. \A g \in Gens : cmd'[g] = "killed" => cmd[g] = "killed" \/ green \/ downs > 0
  BY <1>3
<1>. QED  BY <1>0, <1>1, <1>2, <1>3, <1>5, <1>6, <1>7, <1>8, <1>9, GensMove DEF GenTypeOK

LEMMA SignalPreserves ==
  ASSUME GenIInv, Signal
  PROVE  GenIInv'
<1>1. /\ sup' \in Memory /\ sup'.pc = "stop" /\ sup'.next = 1
      /\ UNCHANGED <<cycle, green, files, wrapper, cmd, starts>>
  <2>1. sup \in Memory /\ 1 \in 1 .. (2 * MaxGenerations + 1)
    BY SupTypes
  <2>. QED  BY <2>1 DEF Signal, Memory, Pcs
<1>2. downs' \in 0 .. MaxDowns /\ downs' >= downs /\ downs' > 0
  BY SupTypes, Bounds DEF Signal
<1>3. CASE HasActive /\ Identified(Active)
  <2>1. gens' = Adopted(gens, Active) /\ files[Active].identity
    BY <1>3 DEF Signal, Identified
  <2>2. Active \in ActiveSet
    BY <1>3, ActiveIs DEF GenIInv
  <2>3. /\ gens' \in Seq(Generation) /\ Len(gens') = Len(gens) /\ gens'[Active].state \in Held
        /\ \A h \in 1 .. Len(gens) : h # Active => gens'[h] = gens[h]
    BY <1>3, <2>1, <2>2, AdoptedFacts DEF ActiveSet
  <2>. QED  BY <1>1, <1>2, <1>3, <2>1, <2>3, ActiveChanges
<1>4. CASE ~(HasActive /\ Identified(Active))
  <2>1. UNCHANGED gens
    BY <1>4 DEF Signal
  <2>2. Enters(sup'.pc, sup'.stamps)
    BY <1>1 DEF Enters, NeedsActive
  <2>. QED  BY <1>1, <1>2, <2>1, <2>2, SupTypes, SupMoves
<1>. QED  BY <1>3, <1>4

LEMMA ResumeOfflinePreserves ==
  ASSUME GenIInv, ResumeOffline
  PROVE  GenIInv'
<1>0. /\ sup \in Memory /\ downs \in 0 .. MaxDowns /\ downs >= downs /\ GenTypeOK
      /\ Len(gens) \in Nat /\ Len(gens) <= MaxGenerations /\ sup.pc = "off"
      /\ UNCHANGED <<green, files, wrapper, cmd, starts, sup, downs>> /\ cycle' = "IN_PROGRESS"
  BY SupTypes, Bounds, LenProperties DEF GenIInv, GenTypeOK, ResumeOffline
<1>. DEFINE Old(g) == IF gens[g].state \in Held THEN [gens[g] EXCEPT !.state = "superseded"] ELSE gens[g]
<1>1. gens' = [g \in 1 .. Len(gens) |-> Old(g)]
  BY DEF ResumeOffline
<1>2. ASSUME NEW g \in 1 .. Len(gens)
      PROVE  Old(g) \in Generation /\ Old(g).state \notin Held /\ Old(g).processRef = gens[g].processRef
  <2>1. gens[g] \in Generation
    BY <1>0, GenerationAt
  <2>. QED  BY <2>1 DEF Generation, Held
<1>3. gens' \in [1 .. Len(gens) -> Generation]
  BY <1>1, <1>2
<1>4. gens' \in Seq(Generation) /\ Len(gens') = Len(gens)
  BY <1>0, <1>3, SeqDef, LenProperties
<1>5. \A g \in 1 .. Len(gens) : gens'[g].state \notin Held /\ gens'[g].processRef = gens[g].processRef
  BY <1>1, <1>2
<1>6. ActiveSet' = {}
  BY <1>4, <1>5 DEF ActiveSet
<1>7. OneActive' /\ PcAgrees'
  BY <1>0, <1>6 DEF OneActive, PcAgrees, NeedsActive, Ending
<1>8. AdoptedIsKept'
  BY <1>0, <1>4, <1>5 DEF ResumeOffline, AdoptedIsKept, LeaderAlive
<1>9. \A g \in 1 .. Len(gens') : gens'[g].processRef => files[g].identity
  BY <1>4, <1>5 DEF GenIInv, SidecarsAgree
<1>10. WrappersAgree'
  BY <1>0 DEF GenIInv, WrappersAgree
<1>11. \A g \in Gens : cmd'[g] = "killed" => cmd[g] = "killed" \/ green \/ downs > 0
  BY <1>0
<1>. QED  BY <1>0, <1>4, <1>7, <1>8, <1>9, <1>10, <1>11, GensMove DEF GenTypeOK

\* A new wrapper: it claims nothing yet.
LEMMA SpawnPreserves ==
  ASSUME GenIInv, NEW w \in Wrappers, Spawn(w)
  PROVE  GenIInv'
<1>0. /\ sup \in Memory /\ downs \in 0 .. MaxDowns /\ downs >= downs /\ GenTypeOK
      /\ UNCHANGED <<gens, cycle, green, files, cmd, starts, downs>> /\ sup.pc = "spawn"
  BY SupTypes, Bounds DEF GenIInv, Spawn
<1>1. Active \in Gens /\ HasActive
  BY <1>0, StillActive DEF NeedsActive
<1>2. /\ sup' \in Memory /\ sup'.pc = "record" /\ sup'.stamps = sup.stamps
  <2>1. w \in 0 .. MaxWrappers
    BY WrapperAt
  <2>. QED  BY <1>0, <2>1 DEF Spawn, Memory, Pcs
<1>3. /\ wrapper' \in [Wrappers -> [gen : 0 .. MaxGenerations, at : WrapperPhases]]
      /\ wrapper'[w].at = "starting" /\ wrapper'[w].gen = Active
      /\ \A v \in Wrappers : v # w => wrapper'[v] = wrapper[v]
  <2>1. Active \in 0 .. MaxGenerations
    BY <1>1, Bounds DEF Gens
  <2>. QED  BY <1>0, <2>1 DEF Spawn, GenTypeOK, WrapperPhases
<1>4. WrappersAgree'
  BY <1>0, <1>1, <1>3 DEF GenIInv, WrappersAgree
<1>5. ActiveSet' = ActiveSet
  BY <1>0 DEF ActiveSet
<1>6. OneActive'
  BY <1>5 DEF GenIInv, OneActive
<1>7. PcAgrees'
  <2>1. sup.stamps < MaxRelaunches
    BY <1>0 DEF GenIInv, PcAgrees
  <2>. QED  BY <1>1, <1>2, <1>5, <2>1 DEF PcAgrees, HasActive, Ending
<1>8. AdoptedIsKept' /\ \A g \in 1 .. Len(gens') : gens'[g].processRef => files[g].identity
  BY <1>0 DEF GenIInv, AdoptedIsKept, SidecarsAgree, LeaderAlive
<1>. QED  BY <1>0, <1>2, <1>3, <1>4, <1>6, <1>7, <1>8, GensMove DEF GenTypeOK

\* The reference that comes next is that of a generation.
LEMMA RefFacts ==
  ASSUME GenIInv, MoreRefs
  PROVE  /\ RefGen \in 1 .. Len(gens) /\ RefGen \in Gens /\ gens[RefGen] \in Generation
         /\ sup.next + 1 \in 1 .. (2 * MaxGenerations + 1) /\ sup.next \in Nat
         /\ \A g \in 1 .. Len(gens) :
                2 * g - 1 < sup.next + 1 => 2 * g - 1 < sup.next \/ (g = RefGen /\ RefIsCommand)
<1>1. /\ sup.next \in Nat /\ sup.next >= 1 /\ Len(gens) \in Nat /\ Len(gens) <= MaxGenerations
      /\ sup.next <= 2 * Len(gens) /\ GenTypeOK
  BY SupTypes, Bounds, LenProperties DEF GenIInv, GenTypeOK, MoreRefs
<1>2. RefGen \in 1 .. Len(gens)
  BY <1>1 DEF RefGen
<1>3. sup.next + 1 \in 1 .. (2 * MaxGenerations + 1)
  BY <1>1, Bounds
<1>4. ASSUME NEW g \in 1 .. Len(gens), 2 * g - 1 < sup.next + 1, ~(2 * g - 1 < sup.next)
      PROVE  g = RefGen /\ RefIsCommand
  <2>1. g \in Nat /\ sup.next = 2 * g - 1
    BY <1>1, <1>4
  <2>. QED  BY <1>1, <2>1 DEF RefGen, RefIsCommand
<1>. QED  BY <1>1, <1>2, <1>3, <1>4, GenerationAt

LEMMA EndStepsPreserve ==
  ASSUME GenIInv, EndCommand \/ EndWrapper
  PROVE  GenIInv'
<1>. DEFINE g == RefGen
<1>0. /\ sup \in Memory /\ downs \in 0 .. MaxDowns /\ downs >= downs /\ GenTypeOK /\ Ending /\ MoreRefs
      /\ UNCHANGED <<gens, cycle, green, files, starts, downs>>
      /\ cmd \in [Gens -> CommandStates]
      /\ wrapper \in [Wrappers -> [gen : 0 .. MaxGenerations, at : WrapperPhases]]
  BY SupTypes, Bounds DEF GenIInv, GenTypeOK, EndCommand, EndWrapper
<1>1. /\ g \in 1 .. Len(gens) /\ g \in Gens /\ gens[g] \in Generation
      /\ sup.next + 1 \in 1 .. (2 * MaxGenerations + 1)
      /\ \A h \in 1 .. Len(gens) :
            2 * h - 1 < sup.next + 1 => 2 * h - 1 < sup.next \/ (h = g /\ RefIsCommand)
  BY <1>0, RefFacts
<1>2. sup' \in Memory /\ sup'.pc = sup.pc /\ sup'.next = sup.next + 1 /\ sup'.stamps = sup.stamps
  BY <1>0, <1>1 DEF EndCommand, EndWrapper, Memory
<1>3. green \/ downs > 0
  BY <1>0 DEF GenIInv, PcAgrees, Ending
<1>4. /\ cmd' \in [Gens -> CommandStates]
      /\ \A h \in Gens : cmd'[h] = "running" => cmd[h] = "running"
      /\ RefIsCommand /\ gens[g].processRef => cmd'[g] # "running"
  <2>1. CASE EndCommand
    <3>1. cmd' = IF gens[g].processRef THEN Ended(g) ELSE cmd
      BY <2>1 DEF EndCommand
    <3>2. Ended(g) \in [Gens -> CommandStates] /\ Ended(g)[g] # "running"
          /\ \A h \in Gens : Ended(g)[h] = "running" => cmd[h] = "running"
      BY <1>0, <1>1 DEF Ended, LeaderAlive, CommandStates
    <3>. QED  BY <1>0, <3>1, <3>2
  <2>2. CASE EndWrapper
    BY <1>0, <2>2 DEF EndWrapper
  <2>. QED  BY <2>1, <2>2
<1>5. /\ wrapper' \in [Wrappers -> [gen : 0 .. MaxGenerations, at : WrapperPhases]]
      /\ \A v \in Wrappers : wrapper'[v] = wrapper[v]
                             \/ (wrapper'[v].at = "gone" /\ wrapper[v].at # "unborn"
                                 /\ wrapper'[v].gen = wrapper[v].gen)
  <2>1. CASE EndCommand
    BY <1>0, <2>1 DEF EndCommand
  <2>2. CASE EndWrapper
    <3>. DEFINE w == gens[g].wrapperRef
    <3>1. wrapper' = IF w # 0 /\ WrapperAlive(w) THEN [wrapper EXCEPT ![w].at = "gone"] ELSE wrapper
      BY <2>2 DEF EndWrapper
    <3>2. w # 0 => w \in Wrappers
      BY <1>1, Bounds DEF Generation, Wrappers
    <3>. HIDE DEF w
    <3>. QED  BY <1>0, <3>1, <3>2 DEF WrapperAlive, WrapperPhases
  <2>. QED  BY <2>1, <2>2
<1>6. WrappersAgree'
  <2>. SUFFICES ASSUME NEW v \in Wrappers
                PROVE  /\ wrapper'[v].at # "unborn" => wrapper'[v].gen \in Gens
                       /\ wrapper'[v].at \in {"claimed", "spawned", "waiting"} => files'[wrapper'[v].gen].claim = v
                       /\ wrapper'[v].at = "claimed" => starts'[wrapper'[v].gen] = 0
                       /\ wrapper'[v].at \in {"spawned", "waiting"} => starts'[wrapper'[v].gen] = 1
    BY DEF WrappersAgree
  <2>1. CASE wrapper'[v] = wrapper[v]
    BY <1>0, <2>1 DEF GenIInv, WrappersAgree
  <2>2. CASE wrapper'[v].at = "gone" /\ wrapper[v].at # "unborn" /\ wrapper'[v].gen = wrapper[v].gen
    BY <2>2, WrapperAt
  <2>. QED  BY <1>5, <2>1, <2>2
<1>7. ActiveSet' = ActiveSet
  BY <1>0 DEF ActiveSet
<1>8. OneActive'
  BY <1>7 DEF GenIInv, OneActive
<1>9. PcAgrees'
  <2>1. sup'.pc \in {"complete", "stop"}
    BY <1>0, <1>2 DEF Ending
  <2>2. (sup'.pc = "complete" => green') /\ (sup'.pc = "stop" => downs' > 0)
    BY <1>0, <1>2 DEF GenIInv, PcAgrees
  <2>3. ASSUME NEW h \in 1 .. Len(gens), gens[h].processRef, 2 * h - 1 < sup.next + 1
        PROVE  cmd'[h] # "running"
    <3>1. h \in Gens
      BY <1>0, GenerationAt
    <3>2. CASE 2 * h - 1 < sup.next
      BY <1>0, <1>4, <2>3, <3>1, <3>2 DEF GenIInv, PcAgrees, LeaderAlive
    <3>3. CASE h = g /\ RefIsCommand
      BY <1>4, <2>3, <3>3
    <3>. QED  BY <1>1, <2>3, <3>2, <3>3
  <2>. QED  BY <1>0, <1>2, <2>1, <2>2, <2>3 DEF PcAgrees, NeedsActive, LeaderAlive
<1>10. AdoptedIsKept'
  <2>1. \A h \in 1 .. Len(gens) : h \in Gens
    BY <1>0, GenerationAt
  <2>. QED  BY <1>0, <1>4, <2>1 DEF GenIInv, AdoptedIsKept, LeaderAlive
<1>11. \A h \in 1 .. Len(gens') : gens'[h].processRef => files[h].identity
  BY <1>0 DEF GenIInv, SidecarsAgree
<1>. QED  BY <1>0, <1>2, <1>3, <1>4, <1>5, <1>6, <1>8, <1>9, <1>10, <1>11, GensMove DEF GenTypeOK

-----------------------------------------------------------------------------
(* Every step *)

LEMMA EnsurePreserves ==
  ASSUME GenIInv, Ensure
  PROVE  GenIInv'
<1>1. CASE EnsureDeferred \/ EnsureKnown \/ EnsureYoungClaim
  BY <1>1, TickPreserves
<1>2. CASE EnsureExhausted \/ EnsureEnded \/ EnsureOldClaim
  BY <1>2, CustodyStepsPreserve
<1>3. CASE EnsureAdopts \/ EnsureLaunch \/ RecordWrapper
  BY <1>3, ActiveStepsPreserve
<1>4. CASE LaunchFails
  BY <1>4, LoopPreserves
<1>5. CASE \E w \in Wrappers : Spawn(w)
  BY <1>5, SpawnPreserves
<1>. QED  BY <1>1, <1>2, <1>3, <1>4, <1>5 DEF Ensure

LEMMA SupervisePreserves ==
  ASSUME GenIInv, Supervise
  PROVE  GenIInv'
<1>1. CASE SuperviseDeferred \/ SuperviseDead
  BY <1>1, TickPreserves
<1>2. CASE SuperviseHealthy \/ SuperviseSuspects
  BY <1>2, ActiveStepsPreserve
<1>3. CASE SuperviseSilence \/ ResolveUnconfirmed \/ ResolveNotAdmitted
  BY <1>3, CustodyStepsPreserve
<1>4. CASE Replace
  BY <1>4, ReplacePreserves
<1>. QED  BY <1>1, <1>2, <1>3, <1>4 DEF Supervise

LEMMA EndOfTickPreserves ==
  ASSUME GenIInv, EndOfTick
  PROVE  GenIInv'
<1>1. CASE GateRed
  BY <1>1, TickPreserves
<1>2. CASE GateGreen \/ StopRetains
  BY <1>2, LoopPreserves
<1>3. CASE EndCommand \/ EndWrapper
  BY <1>3, EndStepsPreserve
<1>4. CASE CompleteUnconfirmed
  BY <1>4, CustodyStepsPreserve
<1>5. CASE Complete \/ Stop
  BY <1>5, LastWritePreserves
<1>. QED  BY <1>1, <1>2, <1>3, <1>4, <1>5 DEF EndOfTick

LEMMA WrapperStepsPreserve ==
  ASSUME GenIInv, NEW w \in Wrappers, WrapperStep(w) \/ WrapperDies(w)
  PROVE  GenIInv'
<1>1. CASE Claim(w)
  BY <1>1, ClaimPreserves
<1>2. CASE StartCommand(w)
  BY <1>2, StartCommandPreserves
<1>3. CASE CommandMissing(w) \/ Identify(w) \/ Finish(w) \/ WrapperDies(w)
  BY <1>3, QuietWorldPreserves
<1>. QED  BY <1>1, <1>2, <1>3 DEF WrapperStep

LEMMA StepPreserves == GenIInv /\ [Next]_vars => GenIInv'
<1>. SUFFICES ASSUME GenIInv, [Next]_vars  PROVE GenIInv'
  OBVIOUS
<1>1. CASE \E w \in Wrappers : WrapperStep(w) \/ WrapperDies(w)
  BY <1>1, WrapperStepsPreserve
<1>2. CASE \E g \in Gens : CommandStep(g)
  BY <1>2, QuietWorldPreserves
<1>3. CASE TurnGreen \/ Start \/ BackoffPasses \/ HourPasses \/ Crash
  BY <1>3, LoopPreserves
<1>4. CASE TickBlocks
  BY <1>4, CustodyStepsPreserve
<1>5. CASE BeginTick
  BY <1>5, BeginTickPreserves
<1>6. CASE Ensure
  BY <1>6, EnsurePreserves
<1>7. CASE Supervise
  BY <1>7, SupervisePreserves
<1>8. CASE EndOfTick
  BY <1>8, EndOfTickPreserves
<1>9. CASE Signal
  BY <1>9, SignalPreserves
<1>10. CASE ResumeOffline
  BY <1>10, ResumeOfflinePreserves
<1>11. CASE UNCHANGED vars
  BY <1>11 DEF vars, GenIInv, GenTypeOK, OneActive, ActiveSet, PcAgrees, HasActive, Ending,
               LeaderAlive, WrappersAgree, SidecarsAgree, StartedOnce, AdoptedIsKept,
               SilenceKillsNobody
<1>. QED  BY <1>1, <1>2, <1>3, <1>4, <1>5, <1>6, <1>7, <1>8, <1>9, <1>10, <1>11 DEF Next

LEMMA GenIInvHolds == Spec => []GenIInv
  BY InitAgrees, StepPreserves, PTL DEF Spec

-----------------------------------------------------------------------------
(* Theorems *)

\* Journal, sidecars, processes and the supervisor's memory keep their types:
\* in particular no generation is recorded beyond the bound and the counter of
\* relaunches never passes its limit.
THEOREM GenerationsTypeCorrect == Spec => []GenTypeOK
<1>1. GenIInv => GenTypeOK
  BY DEF GenIInv
<1>. QED  BY <1>1, GenIInvHolds, PTL

\* The controller of a generation is started at most once, though a supervisor
\* that crashed between the intent and the wrapper's reference spawns another
\* wrapper of the same nonce: only the one that created the claim goes on.
THEOREM ControllerStartsOnce == Spec => []StartedOnce
<1>1. GenIInv => StartedOnce
  BY DEF GenIInv
<1>. QED  BY <1>1, GenIInvHolds, PTL

\* While an adopted controller lives its generation keeps the token: neither a
\* replacement, nor COMPLETE, nor a stop, nor the offline lane takes it away.
THEOREM AdoptedKeepsToken == Spec => []AdoptedIsKept
<1>1. GenIInv => AdoptedIsKept
  BY DEF GenIInv
<1>. QED  BY <1>1, GenIInvHolds, PTL

\* The supervisor never kills a controller because its heartbeat or activity
\* stopped: one that was killed, the gate or the operator ended.
THEOREM NoDeathBySilence == Spec => []SilenceKillsNobody
<1>1. GenIInv => SilenceKillsNobody
  BY DEF GenIInv
<1>. QED  BY <1>1, GenIInvHolds, PTL
=============================================================================
