------------------------- MODULE TextEnginesProofs -------------------------
(***************************************************************************)
(* Proofs about TextEngines for every finite set of callers, however they  *)
(* overlap and whichever of them are cancelled.                            *)
(***************************************************************************)
EXTENDS TextEngines, FiniteSetTheorems, SequenceTheorems, TLAPS

CpuPlaces == {"CPU_LOAD", "CPU_BUILD", "CPU_RUN"}

(* What holds of one caller: it has something to do while it is in the     *)
(* engine, it is on the CPU only once the app has switched and runs there  *)
(* only with a model, and it throws for a reason.                          *)
CallerOK(d) ==
    /\ call[d].at \notin {"IDLE", "DONE", "ERROR"} => call[d].todo # <<>>
    /\ At(d, "CPU_RUN") => module
    /\ call[d].at \in CpuPlaces => degraded
    /\ call[d].cancelled => cancelled
    /\ At(d, "THROWN") => degraded \/ npuFailed \/ cancelled

Sound ==
    /\ TypeOK
    /\ \A d \in Callers : CallerOK(d)
    /\ DegradedByFailure

(* The flags a caller relies on are never taken back.                      *)
Monotone ==
    /\ module => module'
    /\ degraded => degraded'
    /\ npuFailed => npuFailed'
    /\ cancelled => cancelled'

(* A step of one caller concerns the others only through the flags.        *)
LEMMA OneCaller ==
    ASSUME Sound, NEW c \in Callers, NEW s \in Calls,
           call' = [call EXCEPT ![c] = s], Monotone, CallerOK(c)'
    PROVE  /\ call' \in [Callers -> Calls]
           /\ \A d \in Callers : CallerOK(d)'
<1>1. call' \in [Callers -> Calls]
  BY DEF Sound, TypeOK
<1>2. ASSUME NEW d \in Callers PROVE CallerOK(d)'
  <2>1. CASE d = c
    BY <2>1
  <2>2. CASE d # c
    <3>1. call'[d] = call[d]
      BY <2>2 DEF Sound, TypeOK
    <3> QED
      BY <3>1 DEF Sound, CallerOK, Monotone, At
  <2> QED
    BY <2>1, <2>2
<1> QED
  BY <1>1, <1>2

(* What a caller still has to do, and what remains after one operation.    *)
LEMMA TodoType ==
    ASSUME Sound, NEW c \in Callers, call[c].at \notin {"IDLE", "DONE", "ERROR"}
    PROVE  /\ call[c] \in Calls
           /\ Op(c) \in Ops
           /\ Tail(call[c].todo) \in Seq(Ops)
           /\ Len(call[c].todo) # 1 => Tail(call[c].todo) # <<>>
<1>1. call[c] \in Calls /\ call[c].todo \in Seq(Ops) /\ call[c].todo # <<>>
  BY DEF Sound, TypeOK, CallerOK, Calls
<1>2. Head(call[c].todo) \in Ops /\ Tail(call[c].todo) \in Seq(Ops)
  BY <1>1, HeadTailProperties
<1>3. Len(Tail(call[c].todo)) = Len(call[c].todo) - 1 /\ Len(call[c].todo) \in Nat \ {0}
  BY <1>1, HeadTailProperties, EmptySeq
<1>4. ASSUME Len(call[c].todo) # 1 PROVE Tail(call[c].todo) # <<>>
  <2>1. Len(Tail(call[c].todo)) # 0
    BY <1>3, <1>4
  <2>2. Len(<<>>) = 0
    BY EmptySeq
  <2> QED
    BY <2>1, <2>2, Zenon
<1> QED
  BY <1>1, <1>2, <1>4 DEF Op

(* The initial state.                                                      *)
LEMMA InitSound == Init => Sound
<1> SUFFICES ASSUME Init PROVE Sound
  OBVIOUS
<1>1. Idle \in Calls
  BY EmptySeq DEF Idle, Calls, Places
<1>2. TypeOK
  BY <1>1, TextEnginesAssumption DEF Init, TypeOK, Labels
<1>3. \A d \in Callers : CallerOK(d)
  BY DEF Init, CallerOK, Idle, At, CpuPlaces
<1> QED
  BY <1>2, <1>3 DEF Sound, DegradedByFailure, Init

(* Entering the engine.                                                    *)
LEMMA BeginSound ==
    ASSUME Sound, NEW c \in Callers, NEW task \in {"warmup", "attribute", "notes"},
           Begin(c, task)
    PROVE  Sound'
<1> DEFINE s == [Idle EXCEPT !.at = "ENTER", !.task = task, !.todo = Program(task)]
<1>1. Program(task) \in Seq(Ops) /\ Program(task) # <<>>
  <2>1. Program(task) \in {<<"warmup">>, <<"load", "generate">>, <<"generate">>}
    BY DEF Program
  <2>2. <<"warmup">> # <<>> /\ <<"load", "generate">> # <<>> /\ <<"generate">> # <<>>
    OBVIOUS
  <2>3. /\ <<"warmup">> \in Seq(Ops)
        /\ <<"load", "generate">> \in Seq(Ops)
        /\ <<"generate">> \in Seq(Ops)
    BY DEF Ops
  <2> QED
    BY <2>1, <2>2, <2>3, Zenon
<1>2. s \in Calls
  BY <1>1 DEF Idle, Calls, Places
<1>3. call' = [call EXCEPT ![c] = s]
  BY DEF Begin
<1>4. Monotone /\ UNCHANGED <<engines, npuFailed, cancelled>> /\ overlapped' \in BOOLEAN
  BY DEF Begin, Monotone, engines
<1>5. CallerOK(c)'
  <2>1. call'[c] = s
    BY <1>3 DEF Sound, TypeOK
  <2>2. s.at = "ENTER" /\ s.todo # <<>> /\ ~s.cancelled
    BY <1>1 DEF Idle
  <2> QED
    BY <2>1, <2>2 DEF CallerOK, At, CpuPlaces
<1>6. call' \in [Callers -> Calls] /\ \A d \in Callers : CallerOK(d)'
  BY <1>2, <1>3, <1>4, <1>5, OneCaller
<1> QED
  BY <1>4, <1>6 DEF Sound, TypeOK, DegradedByFailure, engines

(* The types of everything but the callers.                                *)
FlagsType ==
    /\ degraded \in BOOLEAN /\ npuLoaded \in BOOLEAN /\ module \in BOOLEAN
    /\ npuFailed \in BOOLEAN /\ overlapped \in BOOLEAN /\ cancelled \in BOOLEAN
    /\ out \in Callers \cup {None}
    /\ builds \in Nat
    /\ label \in Labels

(* A caller in the engine changes in a way that leaves its operations      *)
(* alone: what is then left to show.                                       *)
LEMMA Moves ==
    ASSUME Sound, NEW c \in Callers, NEW s \in Calls,
           call' = [call EXCEPT ![c] = s], Monotone, FlagsType', DegradedByFailure',
           s.at \notin {"IDLE", "DONE", "ERROR"} => s.todo # <<>>,
           s.at = "CPU_RUN" => module',
           s.at \in CpuPlaces => degraded',
           s.cancelled => cancelled',
           s.at = "THROWN" => degraded' \/ npuFailed' \/ cancelled'
    PROVE  Sound'
<1>1. call'[c] = s
  BY DEF Sound, TypeOK
<1>2. CallerOK(c)'
  BY <1>1 DEF CallerOK, At
<1>3. call' \in [Callers -> Calls] /\ \A d \in Callers : CallerOK(d)'
  BY <1>2, OneCaller
<1> QED
  BY <1>3 DEF Sound, TypeOK, FlagsType

(* The places where a caller is in the engine.                             *)
LEMMA EnterSound ==
    ASSUME Sound, NEW c \in Callers, Enter(c)
    PROVE  Sound'
<1> DEFINE p == IF call[c].cancelled THEN "THROWN"
                ELSE IF degraded
                  THEN IF Op(c) = "load" \/ ~module THEN "CPU_LOAD" ELSE "CPU_RUN"
                  ELSE IF Op(c) = "load" \/ ~npuLoaded THEN "NPU_LOAD" ELSE "NPU_START"
           s == [call[c] EXCEPT !.at = p,
                                !.triedCpu = @ \/ (degraded /\ ~call[c].cancelled)]
<1>1. call[c] \in Calls /\ CallerOK(c) /\ call[c].at = "ENTER"
  BY DEF Enter, At, Sound, TypeOK
<1>2. s \in Calls /\ s.at = p /\ s.todo = call[c].todo /\ s.cancelled = call[c].cancelled
  BY <1>1, ZenonT(60) DEF Calls, Places
<1>3. call' = [call EXCEPT ![c] = s] /\ UNCHANGED <<engines, history>>
  BY DEF Enter, Sound, TypeOK
<1>4. Monotone /\ FlagsType' /\ DegradedByFailure'
  BY <1>3 DEF Monotone, FlagsType, DegradedByFailure, Sound, TypeOK, engines, history
<1>5. /\ p = "CPU_RUN" => module
      /\ p \in CpuPlaces => degraded
      /\ p = "THROWN" => cancelled
  BY <1>1 DEF CallerOK, CpuPlaces
<1>6. /\ p = "CPU_RUN" => module'
      /\ p \in CpuPlaces => degraded'
      /\ p = "THROWN" => cancelled'
      /\ s.cancelled => cancelled'
      /\ s.todo # <<>>
  BY <1>1, <1>2, <1>3, <1>5 DEF CallerOK, engines, history
<1> HIDE DEF s, p
<1> QED
  BY <1>2, <1>3, <1>4, <1>6, Moves

(* A caller only goes to another place.                                    *)
LEMMA GotoSound ==
    ASSUME Sound, NEW c \in Callers, NEW p \in Places, Goto(c, p),
           call[c].at \notin {"IDLE", "DONE", "ERROR"},
           Monotone, FlagsType', DegradedByFailure',
           p = "CPU_RUN" => module',
           p \in CpuPlaces => degraded',
           p = "THROWN" => degraded' \/ npuFailed' \/ cancelled'
    PROVE  Sound'
<1> DEFINE s == [call[c] EXCEPT !.at = p]
<1>1. call[c] \in Calls /\ CallerOK(c)
  BY DEF Sound, TypeOK
<1>2. s \in Calls /\ s.at = p /\ s.todo = call[c].todo /\ s.cancelled = call[c].cancelled
  BY <1>1 DEF Calls
<1>3. call' = [call EXCEPT ![c] = s]
  BY DEF Goto, Sound, TypeOK
<1>4. s.todo # <<>> /\ (s.cancelled => cancelled')
  BY <1>1, <1>2 DEF CallerOK, Monotone
<1> HIDE DEF s
<1> QED
  BY <1>2, <1>3, <1>4, Moves

(* The NPU runner.                                                         *)
LEMMA NpuSound ==
    ASSUME Sound, NEW c \in Callers,
           NpuLoad(c) \/ NpuStart(c) \/ RunnerEnds(c) \/ NpuRead(c)
    PROVE  Sound'
<1> USE DEF At
<1>0. FlagsType /\ DegradedByFailure /\ call[c] \in Calls /\ CallerOK(c)
  BY DEF Sound, TypeOK, FlagsType
<1>1. CASE NpuLoad(c)
  <2>1. Monotone /\ FlagsType' /\ DegradedByFailure'
    BY <1>0, <1>1, ZenonT(60) DEF NpuLoad, Monotone, FlagsType, DegradedByFailure, Labels
  <2>2. CASE Goto(c, "OK")
    BY <1>1, <2>1, <2>2, GotoSound DEF NpuLoad, Places, CpuPlaces
  <2>3. CASE Goto(c, "NPU_START")
    BY <1>1, <2>1, <2>3, GotoSound DEF NpuLoad, Places, CpuPlaces
  <2>4. CASE Goto(c, "THROWN") /\ npuFailed'
    BY <1>1, <2>1, <2>4, GotoSound DEF NpuLoad, Places, CpuPlaces
  <2> QED
    BY <1>1, <2>2, <2>3, <2>4 DEF NpuLoad
<1>2. CASE NpuStart(c)
  <2>1. Monotone /\ FlagsType' /\ DegradedByFailure'
    BY <1>0, <1>2 DEF NpuStart, Monotone, FlagsType, DegradedByFailure, history
  <2> QED
    BY <1>2, <2>1, GotoSound DEF NpuStart, Places, CpuPlaces
<1>3. CASE RunnerEnds(c)
  <2>1. Monotone /\ FlagsType' /\ DegradedByFailure'
    BY <1>0, <1>3 DEF RunnerEnds, Monotone, FlagsType, DegradedByFailure, history
  <2> QED
    BY <1>3, <2>1, GotoSound DEF RunnerEnds, Places, CpuPlaces
<1>4. CASE NpuRead(c)
  <2>1. Monotone /\ FlagsType' /\ DegradedByFailure'
    BY <1>0, <1>4 DEF NpuRead, Monotone, FlagsType, DegradedByFailure, engines
  <2>2. CASE out = None
    <3>1. Goto(c, "THROWN") /\ npuFailed'
      BY <1>4, <2>2 DEF NpuRead
    <3> QED
      BY <1>4, <2>1, <3>1, GotoSound DEF NpuRead, Places, CpuPlaces
  <2>3. CASE out # None
    <3> DEFINE s == [call[c] EXCEPT !.at = "OK", !.answer = out, !.by = "NPU"]
    <3>1. /\ s \in Calls /\ s.at = "OK"
          /\ s.todo = call[c].todo /\ s.cancelled = call[c].cancelled
      BY <1>0, ZenonT(60) DEF Calls, Places, FlagsType
    <3>2. call' = [call EXCEPT ![c] = s]
      BY <1>4, <2>3 DEF NpuRead, Sound, TypeOK
    <3>3. s.todo # <<>> /\ (s.cancelled => cancelled')
      BY <1>0, <1>4, <3>1, <2>1 DEF CallerOK, NpuRead, Monotone
    <3> HIDE DEF s
    <3> QED
      BY <2>1, <3>1, <3>2, <3>3, Moves DEF CpuPlaces
  <2> QED
    BY <2>2, <2>3
<1> QED
  BY <1>1, <1>2, <1>3, <1>4

(* The CPU engine.                                                         *)
LEMMA CpuSound ==
    ASSUME Sound, NEW c \in Callers, CpuLoad(c) \/ CpuBuilt(c) \/ CpuRun(c)
    PROVE  Sound'
<1> USE DEF At
<1>0. FlagsType /\ DegradedByFailure /\ call[c] \in Calls /\ CallerOK(c)
  BY DEF Sound, TypeOK, FlagsType
<1>d. degraded
  BY <1>0 DEF CpuLoad, CpuBuilt, CpuRun, CallerOK, CpuPlaces
<1>1. CASE CpuLoad(c)
  <2>1. Monotone /\ FlagsType' /\ DegradedByFailure' /\ degraded' /\ (module => module')
    BY <1>0, <1>1, <1>d
       DEF CpuLoad, Monotone, FlagsType, DegradedByFailure, engines, history
  <2>2. CASE Goto(c, "OK")
    BY <1>1, <2>1, <2>2, GotoSound DEF CpuLoad, Places, CpuPlaces
  <2>3. CASE Goto(c, "CPU_RUN") /\ module
    BY <1>1, <2>1, <2>3, GotoSound DEF CpuLoad, Places, CpuPlaces
  <2>4. CASE Goto(c, "CPU_BUILD")
    BY <1>1, <2>1, <2>4, GotoSound DEF CpuLoad, Places, CpuPlaces
  <2> QED
    BY <1>1, <2>2, <2>3, <2>4 DEF CpuLoad, AfterCpuLoad
<1>2. CASE CpuBuilt(c)
  <2>1. Monotone /\ FlagsType' /\ DegradedByFailure' /\ degraded'
    <3>1. builds' \in Nat /\ label' \in Labels
      BY <1>0, <1>2 DEF CpuBuilt, FlagsType, Labels
    <3>2. module' \in BOOLEAN /\ (module => module')
      <4>1. module' = TRUE \/ module' = module
        BY <1>2 DEF CpuBuilt
      <4> QED
        BY <1>0, <4>1 DEF FlagsType
    <3>3. /\ degraded' = degraded /\ npuLoaded' = npuLoaded /\ out' = out
          /\ npuFailed' = npuFailed /\ overlapped' = overlapped /\ cancelled' = cancelled
      BY <1>2 DEF CpuBuilt, history
    <3> QED
      BY <1>0, <1>d, <3>1, <3>2, <3>3 DEF Monotone, FlagsType, DegradedByFailure
  <2>2. CASE Goto(c, "OK")
    BY <1>2, <2>1, <2>2, GotoSound DEF CpuBuilt, Places, CpuPlaces
  <2>3. CASE Goto(c, "CPU_RUN") /\ module'
    BY <1>2, <2>1, <2>3, GotoSound DEF CpuBuilt, Places, CpuPlaces
  <2>4. CASE Goto(c, "THROWN")
    BY <1>2, <2>1, <2>4, GotoSound DEF CpuBuilt, Places, CpuPlaces
  <2> QED
    BY <1>2, <2>2, <2>3, <2>4 DEF CpuBuilt, AfterCpuLoad
<1>3. CASE CpuRun(c)
  <2>1. Monotone /\ FlagsType' /\ DegradedByFailure' /\ degraded'
    BY <1>0, <1>3, <1>d
       DEF CpuRun, Monotone, FlagsType, DegradedByFailure, engines, history
  <2>2. CASE Goto(c, "THROWN")
    BY <1>3, <2>1, <2>2, GotoSound DEF CpuRun, Places, CpuPlaces
  <2>3. CASE ~Goto(c, "THROWN")
    <3> DEFINE s == [call[c] EXCEPT !.at = "OK", !.answer = c, !.by = "CPU"]
    <3>1. /\ s \in Calls /\ s.at = "OK"
          /\ s.todo = call[c].todo /\ s.cancelled = call[c].cancelled
      BY <1>0, ZenonT(60) DEF Calls, Places
    <3>2. call' = [call EXCEPT ![c] = s]
      BY <1>3, <2>3 DEF CpuRun, Sound, TypeOK
    <3>3. s.todo # <<>> /\ (s.cancelled => cancelled')
      BY <1>0, <1>3, <3>1, <2>1 DEF CallerOK, CpuRun, Monotone
    <3> HIDE DEF s
    <3> QED
      BY <2>1, <3>1, <3>2, <3>3, Moves DEF CpuPlaces
  <2> QED
    BY <2>2, <2>3
<1> QED
  BY <1>1, <1>2, <1>3

(* Back on the main thread.                                                *)
LEMMA MainThreadSound ==
    ASSUME Sound, NEW c \in Callers,
           Resume(c) \/ Guard(c) \/ Return(c) \/ Cancel(c)
    PROVE  Sound'
<1> USE DEF At
<1>0. FlagsType /\ DegradedByFailure /\ call[c] \in Calls /\ CallerOK(c)
  BY DEF Sound, TypeOK, FlagsType
<1>1. CASE Resume(c)
  <2>1. Monotone /\ FlagsType' /\ DegradedByFailure' /\ cancelled' = cancelled
    BY <1>0, <1>1 DEF Resume, Monotone, FlagsType, DegradedByFailure, engines, history
  <2>2. CASE call[c].cancelled
    <3>1. Goto(c, "THROWN") /\ cancelled'
      BY <1>0, <1>1, <2>1, <2>2 DEF Resume, CallerOK
    <3> QED
      BY <1>1, <2>1, <3>1, GotoSound DEF Resume, Places, CpuPlaces
  <2>3. CASE ~call[c].cancelled
    <3> DEFINE p == IF Len(call[c].todo) = 1 THEN "DONE" ELSE "ENTER"
               b == IF SeedsReadNow(c) THEN SeedsAssistantTurn ELSE call[c].seeds
               s == [call[c] EXCEPT !.at = p, !.todo = Tail(@), !.seeds = b]
    <3>1. Tail(call[c].todo) \in Seq(Ops) /\ (p # "DONE" => Tail(call[c].todo) # <<>>)
      BY <1>1, TodoType DEF Resume
    <3>2. p \in Places /\ p \in {"DONE", "ENTER"}
      BY DEF Places
    <3>3. b \in BOOLEAN
      BY <1>0 DEF SeedsAssistantTurn, FlagsType, Calls
    <3>4. call' = [call EXCEPT ![c] = s]
      BY <1>1, <2>3 DEF Resume, Sound, TypeOK
    <3> HIDE DEF p, b
    <3>5. /\ s \in Calls /\ s.at = p
          /\ s.todo = Tail(call[c].todo) /\ s.cancelled = call[c].cancelled
      BY <1>0, <3>1, <3>2, <3>3 DEF Calls
    <3> HIDE DEF s
    <3> QED
      BY <2>1, <2>3, <3>1, <3>2, <3>4, <3>5, Moves DEF CpuPlaces
  <2> QED
    BY <2>2, <2>3
<1>2. CASE Guard(c)
  <2>1. degraded' /\ (npuFailed' \/ cancelled')
    BY <1>0, <1>2 DEF Guard, CallerOK, DegradedByFailure, history
  <2>2. Monotone /\ FlagsType' /\ DegradedByFailure'
    BY <1>0, <1>2, <2>1, ZenonT(60) DEF Guard, Monotone, FlagsType, DegradedByFailure, history, Labels
  <2>3. CASE Goto(c, "ERROR")
    BY <1>2, <2>2, <2>3, GotoSound DEF Guard, Places, CpuPlaces
  <2>4. CASE Goto(c, "ENTER")
    BY <1>2, <2>2, <2>4, GotoSound DEF Guard, Places, CpuPlaces
  <2> QED
    BY <1>2, <2>3, <2>4 DEF Guard
<1>3. CASE Return(c)
  <2>1. Monotone /\ FlagsType' /\ DegradedByFailure'
    BY <1>0, <1>3 DEF Return, Monotone, FlagsType, DegradedByFailure, engines, history
  <2>2. Idle \in Calls /\ Idle.at = "IDLE" /\ ~Idle.cancelled
    BY EmptySeq DEF Idle, Calls, Places
  <2>3. call' = [call EXCEPT ![c] = Idle]
    BY <1>3 DEF Return
  <2> QED
    BY <2>1, <2>2, <2>3, Moves DEF CpuPlaces
<1>4. CASE Cancel(c)
  <2>1. Monotone /\ FlagsType' /\ DegradedByFailure' /\ cancelled'
    BY <1>0, <1>4 DEF Cancel, Monotone, FlagsType, DegradedByFailure, engines
  <2> DEFINE s == [call[c] EXCEPT !.cancelled = TRUE]
  <2>2. s \in Calls /\ s.at = call[c].at /\ s.todo = call[c].todo
    BY <1>0 DEF Calls
  <2>3. call' = [call EXCEPT ![c] = s]
    BY <1>4 DEF Cancel, Sound, TypeOK
  <2>4. /\ s.at \notin {"IDLE", "DONE", "ERROR"} => s.todo # <<>>
        /\ s.at = "CPU_RUN" => module'
        /\ s.at \in CpuPlaces => degraded'
    BY <1>0, <2>1, <2>2 DEF CallerOK, Monotone
  <2> HIDE DEF s
  <2> QED
    BY <2>1, <2>2, <2>3, <2>4, Moves
<1> QED
  BY <1>1, <1>2, <1>3, <1>4

(* Every step keeps the callers sound.                                     *)
LEMMA NextSound == Sound /\ [Next]_vars => Sound'
<1> SUFFICES ASSUME Sound, [Next]_vars PROVE Sound'
  OBVIOUS
<1>1. ASSUME NEW c \in Callers, Step(c) \/ Cancel(c) PROVE Sound'
  BY <1>1, EnterSound, NpuSound, CpuSound, MainThreadSound DEF Step
<1>2. ASSUME NEW c \in Callers, NEW task \in {"warmup", "attribute", "notes"}, Begin(c, task)
      PROVE  Sound'
  BY <1>2, BeginSound
<1>3. CASE MetricsReset
  BY <1>3 DEF MetricsReset, Sound, TypeOK, Labels, CallerOK, At, DegradedByFailure, history
<1>4. CASE UNCHANGED vars
  BY <1>4 DEF vars, engines, history, Sound, TypeOK, CallerOK, At, DegradedByFailure
<1> QED
  BY <1>1, <1>2, <1>3, <1>4 DEF Next

-----------------------------------------------------------------------------
(* Builds of the CPU model.  A caller builds only if it saw no model, and  *)
(* from the first build on there is one: what has been built and what is   *)
(* being built never exceeds the callers.                                  *)
Building == {c \in Callers : At(c, "CPU_BUILD")}

BuildCount ==
    /\ builds # 0 => module
    /\ builds + Cardinality(Building) <= Cardinality(Callers)

LEMMA CountBuilding ==
    ASSUME NEW B \in SUBSET Callers
    PROVE  /\ IsFiniteSet(B)
           /\ Cardinality(B) \in Nat /\ Cardinality(Callers) \in Nat
           /\ Cardinality(B) <= Cardinality(Callers)
BY TextEnginesAssumption, FS_Subset, FS_CardinalityType

LEMMA InitBuildCount == Init => BuildCount
<1> SUFFICES ASSUME Init PROVE BuildCount
  OBVIOUS
<1>1. Cardinality(Building) \in Nat /\ Cardinality(Building) <= Cardinality(Callers)
  BY CountBuilding DEF Building
<1> QED
  BY <1>1, CountBuilding DEF Init, BuildCount

(* Nobody starts or ends a build in a step of another kind.                *)
LEMMA OtherSteps ==
    ASSUME Sound, NEW c \in Callers,
           \/ Enter(c) \/ NpuLoad(c) \/ NpuStart(c) \/ RunnerEnds(c) \/ NpuRead(c)
           \/ CpuRun(c) \/ Resume(c) \/ Guard(c) \/ Return(c) \/ Cancel(c)
           \/ \E task \in {"warmup", "attribute", "notes"} : Begin(c, task)
    PROVE  Building' = Building /\ builds' = builds /\ module' = module
<1>0. call \in [Callers -> Calls] /\ call[c] \in Calls
  BY DEF Sound, TypeOK
<1>1. builds' = builds /\ module' = module
  BY DEF Enter, NpuLoad, NpuStart, RunnerEnds, NpuRead, CpuRun, Resume, Guard, Return,
         Cancel, Begin, engines
<1>2. \A d \in Callers \ {c} : call'[d] = call[d]
  BY <1>0 DEF Enter, NpuLoad, NpuStart, RunnerEnds, NpuRead, CpuRun, Resume, Guard, Return,
              Cancel, Begin, Goto
<1>3. (call'[c].at = "CPU_BUILD") <=> (call[c].at = "CPU_BUILD")
  <2>1. CASE Enter(c) \/ Return(c) \/ Cancel(c)
    BY <1>0, <2>1 DEF Enter, Return, Cancel, At, Calls, Idle
  <2>2. CASE NpuLoad(c) \/ NpuStart(c) \/ RunnerEnds(c) \/ NpuRead(c)
    BY <1>0, <2>2 DEF NpuLoad, NpuStart, RunnerEnds, NpuRead, At, Calls, Goto
  <2>3. CASE CpuRun(c) \/ Resume(c) \/ Guard(c)
    BY <1>0, <2>3 DEF CpuRun, Resume, Guard, At, Calls, Goto
  <2>4. ASSUME NEW task \in {"warmup", "attribute", "notes"}, Begin(c, task)
        PROVE  (call'[c].at = "CPU_BUILD") <=> (call[c].at = "CPU_BUILD")
    BY <1>0, <2>4 DEF Begin, At, Calls, Idle
  <2> QED
    BY <2>1, <2>2, <2>3, <2>4
<1> QED
  BY <1>1, <1>2, <1>3 DEF Building, At

LEMMA NextBuildCount == Sound /\ BuildCount /\ [Next]_vars => BuildCount'
<1> SUFFICES ASSUME Sound, BuildCount, [Next]_vars PROVE BuildCount'
  OBVIOUS
<1>0. /\ call \in [Callers -> Calls] /\ builds \in Nat /\ module \in BOOLEAN
      /\ Cardinality(Building) \in Nat /\ Cardinality(Callers) \in Nat
  BY CountBuilding DEF Sound, TypeOK, Building
<1>1. ASSUME Building' = Building, builds' = builds, module' = module PROVE BuildCount'
  BY <1>1 DEF BuildCount
<1>2. ASSUME NEW c \in Callers, CpuLoad(c) PROVE BuildCount'
  <2>1. builds' = builds /\ module' = module
    BY <1>2 DEF CpuLoad, engines
  <2>2. CASE module
    <3>1. Building' = Building
      BY <1>0, <1>2, <2>2 DEF CpuLoad, AfterCpuLoad, Goto, Building, At, Calls
    <3> QED
      BY <1>1, <2>1, <3>1
  <2>3. CASE ~module
    <3>1. Cardinality(Building') \in Nat /\ Cardinality(Building') <= Cardinality(Callers)
      BY CountBuilding DEF Building
    <3>2. builds' = 0
      BY <2>1, <2>3 DEF BuildCount
    <3> QED
      BY <1>0, <3>1, <3>2 DEF BuildCount
  <2> QED
    BY <2>2, <2>3
<1>3. ASSUME NEW c \in Callers, CpuBuilt(c) PROVE BuildCount'
  <2>1. c \in Building /\ Building' = Building \ {c}
    BY <1>0, <1>3 DEF CpuBuilt, AfterCpuLoad, Goto, Building, At, Calls
  <2>2. IsFiniteSet(Building)
    BY CountBuilding DEF Building
  <2>3. Cardinality(Building') = Cardinality(Building) - 1
    BY <2>1, <2>2, FS_RemoveElement
  <2>4. \/ builds' = builds + 1 /\ module' = TRUE
        \/ builds' = builds /\ module' = module
    BY <1>3 DEF CpuBuilt
  <2> QED
    BY <1>0, <2>3, <2>4 DEF BuildCount
<1>4. CASE MetricsReset \/ UNCHANGED vars
  <2>1. call' = call /\ builds' = builds /\ module' = module
    BY <1>4 DEF MetricsReset, vars, engines
  <2> QED
    BY <1>1, <2>1 DEF Building, At
<1>5. ASSUME NEW c \in Callers, ~CpuLoad(c), ~CpuBuilt(c),
             \/ Step(c) \/ Cancel(c)
             \/ \E task \in {"warmup", "attribute", "notes"} : Begin(c, task)
      PROVE  BuildCount'
  BY <1>1, <1>5, OtherSteps DEF Step
<1> QED
  BY <1>2, <1>3, <1>4, <1>5 DEF Next

-----------------------------------------------------------------------------
(* Callers that take turns.  The one in the engine is then alone there: no *)
(* other changes the engine under it, what its runner leaves is its own,   *)
(* and it fails for good only on the CPU or because it was cancelled.      *)
NpuPlaces == {"NPU_LOAD", "NPU_START", "NPU_RUN", "NPU_READ"}

Tasks(task) == IF task = "warmup" THEN {<<"warmup">>} ELSE {<<"load", "generate">>, <<"generate">>}

Turn(c) ==
    /\ call[c].at \notin {"IDLE", "DONE", "ERROR"} => call[c].todo \in Tasks(call[c].task)
    /\ call[c].at \in NpuPlaces => ~degraded
    /\ At(c, "NPU_RUN") => out = None
    /\ At(c, "NPU_READ") => out \in {None, c}
    /\ call[c].at \in CpuPlaces => call[c].triedCpu
    /\ At(c, "OK") /\ Op(c) # "load" =>
           call[c].answer = c /\ call[c].by = IF degraded THEN "CPU" ELSE "NPU"
    /\ At(c, "THROWN") /\ degraded => call[c].cancelled \/ call[c].triedCpu
    /\ At(c, "ERROR") => call[c].cancelled \/ call[c].triedCpu
    /\ At(c, "DONE") =>
           /\ call[c].answer = c
           /\ call[c].task = "notes" => call[c].seeds = (call[c].by = "CPU")

Alone == \A c, d \in Callers : c # d => At(c, "IDLE") \/ At(d, "IDLE")

InTurn == ~overlapped => Alone /\ ChipNeverLies /\ \A c \in Callers : Turn(c)

(* What is left to show of a step of the caller in the engine.             *)
LEMMA TurnStep ==
    ASSUME Sound, InTurn, NEW c \in Callers, ~At(c, "IDLE"), overlapped' = overlapped,
           ~overlapped => Turn(c)' /\ ChipNeverLies',
           \A d \in Callers \ {c} : call'[d] = call[d]
    PROVE  InTurn'
<1> SUFFICES ASSUME ~overlapped PROVE InTurn'
  BY DEF InTurn
<1>1. \A d \in Callers \ {c} : call[d].at = "IDLE" /\ call'[d].at = "IDLE"
  BY DEF InTurn, Alone, At
<1>2. \A d \in Callers \ {c} : Turn(d)'
  BY <1>1 DEF Turn, At, NpuPlaces, CpuPlaces
<1> QED
  BY <1>1, <1>2 DEF InTurn, Alone, At

(* The operations of a task.                                               *)
LEMMA TaskOps ==
    ASSUME NEW task, NEW todo \in Tasks(task)
    PROVE  /\ Len(todo) = 1 => Head(todo) # "load" /\ (task # "warmup" => Head(todo) = "generate")
           /\ Len(todo) # 1 => Tail(todo) \in Tasks(task)
<1>1. CASE todo = <<"warmup">>
  BY <1>1 DEF Tasks
<1>2. CASE todo = <<"generate">>
  BY <1>2
<1>3. CASE todo = <<"load", "generate">> /\ task # "warmup"
  <2>1. Len(todo) = 2 /\ Tail(todo) = <<"generate">>
    BY <1>3
  <2> QED
    BY <1>3, <2>1 DEF Tasks
<1> QED
  BY <1>1, <1>2, <1>3 DEF Tasks

LEMMA BeginTurn ==
    ASSUME Sound, InTurn, NEW c \in Callers, NEW task \in {"warmup", "attribute", "notes"},
           Begin(c, task)
    PROVE  InTurn'
<1> SUFFICES ASSUME ~overlapped' PROVE InTurn'
  BY DEF InTurn
<1>1. /\ overlapped' = (overlapped \/ \E d \in Callers : ~At(d, "IDLE"))
      /\ UNCHANGED engines
      /\ call' = [call EXCEPT ![c] = [Idle EXCEPT !.at = "ENTER", !.task = task,
                                                  !.todo = Program(task)]]
      /\ call \in [Callers -> Calls]
  BY DEF Begin, Sound, TypeOK
<1>2. ~overlapped /\ \A d \in Callers : call[d].at = "IDLE"
  BY <1>1 DEF At
<1>3. \A d \in Callers \ {c} : call'[d].at = "IDLE"
  BY <1>1, <1>2
<1>4. call'[c].at = "ENTER" /\ call'[c].todo = Program(task) /\ call'[c].task = task
  BY <1>1 DEF Idle
<1>5. Program(task) \in Tasks(task)
  BY DEF Program, Tasks
<1>6. \A d \in Callers : Turn(d)'
  BY <1>3, <1>4, <1>5 DEF Turn, At, NpuPlaces, CpuPlaces
<1>7. Alone' /\ ChipNeverLies'
  BY <1>1, <1>2, <1>3 DEF Alone, At, ChipNeverLies, engines, InTurn
<1> QED
  BY <1>6, <1>7 DEF InTurn

LEMMA NpuTurn ==
    ASSUME Sound, InTurn, NEW c \in Callers,
           Enter(c) \/ NpuLoad(c) \/ NpuStart(c) \/ RunnerEnds(c) \/ NpuRead(c)
    PROVE  InTurn'
<1> DEFINE s == call[c]
<1> USE DEF At
<1>1. s \in Calls /\ call \in [Callers -> Calls]
  BY DEF Sound, TypeOK
<1>2. /\ overlapped' = overlapped /\ s.at # "IDLE"
      /\ \A d \in Callers \ {c} : call'[d] = call[d]
  BY <1>1 DEF Enter, NpuLoad, NpuStart, RunnerEnds, NpuRead, Goto, history
<1>3. ASSUME ~overlapped PROVE Turn(c)' /\ ChipNeverLies'
  <2>1. Turn(c) /\ (degraded => label # "NPU")
    BY <1>3 DEF InTurn, ChipNeverLies
  <2>2. CASE Enter(c)
    <3>1. /\ call'[c].todo = s.todo /\ call'[c].task = s.task /\ call'[c].cancelled = s.cancelled
          /\ call'[c].triedCpu = (s.triedCpu \/ (degraded /\ ~s.cancelled))
          /\ call'[c].at = IF s.cancelled THEN "THROWN"
                           ELSE IF degraded
                             THEN IF Op(c) = "load" \/ ~module THEN "CPU_LOAD" ELSE "CPU_RUN"
                             ELSE IF Op(c) = "load" \/ ~npuLoaded THEN "NPU_LOAD" ELSE "NPU_START"
      BY <1>1, <2>2 DEF Enter, Calls
    <3>2. s.at = "ENTER" /\ UNCHANGED engines
      BY <2>2 DEF Enter
    <3> QED
      BY <2>1, <3>1, <3>2 DEF Turn, NpuPlaces, CpuPlaces, engines, ChipNeverLies
  <2>3. CASE NpuLoad(c)
    <3>1. PICK p \in {"OK", "NPU_START", "THROWN"} : Goto(c, p) /\ (p = "OK" => Op(c) = "load")
      BY <2>3 DEF NpuLoad
    <3>2. call'[c] = [s EXCEPT !.at = p]
      BY <1>1, <3>1 DEF Goto
    <3>3. call'[c].at = p /\ call'[c].todo = s.todo /\ call'[c].task = s.task
      BY <1>1, <3>2 DEF Calls
    <3>4. s.at = "NPU_LOAD" /\ ~degraded /\ ~degraded'
      BY <2>1, <2>3 DEF NpuLoad, Turn, NpuPlaces
    <3> QED
      BY <2>1, <3>1, <3>3, <3>4 DEF Turn, NpuPlaces, CpuPlaces, ChipNeverLies, Op
  <2>4. CASE NpuStart(c)
    <3>1. call'[c].at = "NPU_RUN" /\ call'[c].todo = s.todo /\ call'[c].task = s.task
      BY <1>1, <2>4 DEF NpuStart, Goto, Calls
    <3>2. s.at = "NPU_START" /\ out' = None /\ UNCHANGED <<degraded, label>>
      BY <2>4 DEF NpuStart
    <3> QED
      BY <2>1, <3>1, <3>2 DEF Turn, NpuPlaces, CpuPlaces, ChipNeverLies
  <2>5. CASE RunnerEnds(c)
    <3>1. call'[c].at = "NPU_READ" /\ call'[c].todo = s.todo /\ call'[c].task = s.task
      BY <1>1, <2>5 DEF RunnerEnds, Goto, Calls
    <3>2. s.at = "NPU_RUN" /\ out' \in {out, c} /\ UNCHANGED <<degraded, label>>
      BY <2>5 DEF RunnerEnds
    <3> QED
      BY <2>1, <3>1, <3>2 DEF Turn, NpuPlaces, CpuPlaces, ChipNeverLies
  <2>6. CASE NpuRead(c)
    <3>1. s.at = "NPU_READ" /\ UNCHANGED engines /\ ~degraded /\ out \in {None, c}
      BY <2>1, <2>6 DEF NpuRead, Turn, NpuPlaces
    <3>2. CASE out = None
      <4>1. call'[c].at = "THROWN" /\ call'[c].todo = s.todo /\ call'[c].task = s.task
        BY <1>1, <2>6, <3>2 DEF NpuRead, Goto, Calls
      <4> QED
        BY <2>1, <3>1, <4>1 DEF Turn, NpuPlaces, CpuPlaces, ChipNeverLies, engines
    <3>3. CASE out # None
      <4>1. /\ call'[c].at = "OK" /\ call'[c].todo = s.todo /\ call'[c].task = s.task
            /\ call'[c].answer = out /\ call'[c].by = "NPU"
        BY <1>1, <2>6, <3>3 DEF NpuRead, Calls
      <4> QED
        BY <2>1, <3>1, <3>3, <4>1 DEF Turn, NpuPlaces, CpuPlaces, ChipNeverLies, engines
    <3> QED
      BY <3>2, <3>3
  <2> QED
    BY <2>2, <2>3, <2>4, <2>5, <2>6
<1> QED
  BY <1>2, <1>3, TurnStep

LEMMA CpuTurn ==
    ASSUME Sound, InTurn, NEW c \in Callers,
           CpuLoad(c) \/ CpuBuilt(c) \/ CpuRun(c)
    PROVE  InTurn'
<1> DEFINE s == call[c]
<1> USE DEF At
<1>1. s \in Calls /\ call \in [Callers -> Calls] /\ degraded
  BY DEF Sound, TypeOK, CallerOK, CpuPlaces, CpuLoad, CpuBuilt, CpuRun
<1>2. /\ overlapped' = overlapped /\ s.at \in CpuPlaces /\ degraded' = degraded
      /\ \A d \in Callers \ {c} : call'[d] = call[d]
  BY <1>1 DEF CpuLoad, CpuBuilt, CpuRun, Goto, history, engines, CpuPlaces
<1>3. ASSUME ~overlapped PROVE Turn(c)' /\ ChipNeverLies'
  <2>1. Turn(c) /\ label # "NPU" /\ s.triedCpu
    BY <1>1, <1>2, <1>3 DEF InTurn, ChipNeverLies, Turn
  <2>2. label' \in {label, "CPU"}
    BY DEF CpuLoad, CpuBuilt, CpuRun, engines
  <2>3. ChipNeverLies'
    BY <2>1, <2>2 DEF ChipNeverLies
  <2>4. CASE \E p \in {"OK", "CPU_RUN", "CPU_BUILD", "THROWN"} :
                 Goto(c, p) /\ (p = "OK" => Op(c) = "load")
    <3>1. PICK p \in {"OK", "CPU_RUN", "CPU_BUILD", "THROWN"} :
              Goto(c, p) /\ (p = "OK" => Op(c) = "load")
      BY <2>4
    <3>2. call'[c] = [s EXCEPT !.at = p]
      BY <1>1, <3>1 DEF Goto
    <3>3. /\ call'[c].at = p /\ call'[c].todo = s.todo /\ call'[c].task = s.task
          /\ call'[c].triedCpu = s.triedCpu
      BY <1>1, <3>2 DEF Calls
    <3>4. s.todo \in Tasks(s.task)
      BY <1>2, <2>1 DEF Turn, CpuPlaces
    <3> QED
      BY <2>1, <2>3, <3>1, <3>3, <3>4 DEF Turn, NpuPlaces, Op
  <2>5. CASE call' = [call EXCEPT ![c].at = "OK", ![c].answer = c, ![c].by = "CPU"]
    <3>1. /\ call'[c].at = "OK" /\ call'[c].todo = s.todo /\ call'[c].task = s.task
          /\ call'[c].answer = c /\ call'[c].by = "CPU"
      BY <1>1, <2>5 DEF Calls
    <3>2. s.todo \in Tasks(s.task)
      BY <1>2, <2>1 DEF Turn, CpuPlaces
    <3> QED
      BY <1>1, <1>2, <2>3, <3>1, <3>2 DEF Turn, NpuPlaces, CpuPlaces
  <2> QED
    BY <2>4, <2>5 DEF CpuLoad, CpuBuilt, CpuRun, AfterCpuLoad
<1> QED
  BY <1>2, <1>3, TurnStep DEF CpuPlaces

LEMMA MainThreadTurn ==
    ASSUME Sound, InTurn, NEW c \in Callers,
           Resume(c) \/ Guard(c) \/ Return(c) \/ Cancel(c)
    PROVE  InTurn'
<1> DEFINE s == call[c]
<1> USE DEF At
<1>1. s \in Calls /\ call \in [Callers -> Calls] /\ degraded \in BOOLEAN
  BY DEF Sound, TypeOK
<1>2. /\ overlapped' = overlapped /\ s.at # "IDLE"
      /\ \A d \in Callers \ {c} : call'[d] = call[d]
  BY <1>1 DEF Resume, Guard, Return, Cancel, Goto, history
<1>3. ASSUME ~overlapped PROVE Turn(c)' /\ ChipNeverLies'
  <2>1. Turn(c) /\ (degraded => label # "NPU")
    BY <1>3 DEF InTurn, ChipNeverLies
  <2>2. CASE Resume(c)
    <3>1. s.at = "OK" /\ UNCHANGED engines /\ s.todo \in Tasks(s.task)
      BY <2>1, <2>2 DEF Resume, Turn
    <3>2. CASE s.cancelled
      <4>1. /\ call'[c].at = "THROWN" /\ call'[c].todo = s.todo /\ call'[c].task = s.task
            /\ call'[c].cancelled
        BY <1>1, <2>2, <3>2 DEF Resume, Goto, Calls
      <4> QED
        BY <2>1, <3>1, <4>1 DEF Turn, NpuPlaces, CpuPlaces, engines, ChipNeverLies
    <3>3. CASE ~s.cancelled
      <4>1. /\ call'[c].at = IF Len(s.todo) = 1 THEN "DONE" ELSE "ENTER"
            /\ call'[c].todo = Tail(s.todo) /\ call'[c].task = s.task
            /\ call'[c].answer = s.answer /\ call'[c].by = s.by
            /\ call'[c].seeds = IF SeedsReadNow(c) THEN degraded ELSE s.seeds
        BY <1>1, <2>2, <3>3 DEF Resume, Calls, SeedsAssistantTurn
      <4>2. CASE Len(s.todo) # 1
        <5>1. call'[c].at = "ENTER" /\ call'[c].todo \in Tasks(call'[c].task)
          BY <3>1, <4>1, <4>2, TaskOps
        <5> QED
          BY <2>1, <3>1, <5>1 DEF Turn, NpuPlaces, CpuPlaces, engines, ChipNeverLies
      <4>3. CASE Len(s.todo) = 1
        <5>1. call'[c].at = "DONE" /\ Op(c) # "load" /\ (s.task # "warmup" => Op(c) = "generate")
          BY <3>1, <4>1, <4>3, TaskOps DEF Op
        <5>2. s.answer = c /\ s.by = IF degraded THEN "CPU" ELSE "NPU"
          BY <2>1, <3>1, <5>1 DEF Turn
        <5>3. s.task = "notes" => call'[c].seeds = degraded
          BY <4>1, <5>1 DEF SeedsReadNow
        <5>4. s.task = "notes" => call'[c].seeds = (call'[c].by = "CPU")
          BY <1>1, <4>1, <5>2, <5>3
        <5> QED
          BY <2>1, <3>1, <4>1, <5>1, <5>2, <5>4 DEF Turn, NpuPlaces, CpuPlaces, engines, ChipNeverLies
      <4> QED
        BY <4>2, <4>3
    <3> QED
      BY <3>2, <3>3
  <2>3. CASE Guard(c)
    <3>1. s.at = "THROWN" /\ s.todo \in Tasks(s.task) /\ degraded'
      BY <1>1, <2>1, <2>3 DEF Guard, Turn
    <3>2. PICK p \in {"ERROR", "ENTER"} : Goto(c, p) /\ (p = "ERROR" => degraded)
      BY <2>3 DEF Guard
    <3>3. /\ call'[c].at = p /\ call'[c].todo = s.todo /\ call'[c].task = s.task
          /\ call'[c].cancelled = s.cancelled /\ call'[c].triedCpu = s.triedCpu
      BY <1>1, <3>2 DEF Goto, Calls
    <3>4. label' # "NPU"
      BY <2>1, <2>3 DEF Guard
    <3> QED
      BY <2>1, <3>1, <3>2, <3>3, <3>4 DEF Turn, NpuPlaces, CpuPlaces, ChipNeverLies
  <2>4. CASE Return(c)
    <3>1. call'[c].at = "IDLE" /\ UNCHANGED engines
      BY <1>1, <2>4 DEF Return, Idle
    <3> QED
      BY <2>1, <3>1 DEF Turn, NpuPlaces, CpuPlaces, engines, ChipNeverLies
  <2>5. CASE Cancel(c)
    <3>1. call'[c] = [s EXCEPT !.cancelled = TRUE] /\ UNCHANGED engines
      BY <1>1, <2>5 DEF Cancel
    <3>2. /\ call'[c].at = s.at /\ call'[c].todo = s.todo /\ call'[c].task = s.task
          /\ call'[c].cancelled /\ call'[c].triedCpu = s.triedCpu
          /\ call'[c].answer = s.answer /\ call'[c].by = s.by /\ call'[c].seeds = s.seeds
      BY <1>1, <3>1 DEF Calls
    <3> QED
      BY <2>1, <3>1, <3>2 DEF Turn, engines, ChipNeverLies, Op
  <2> QED
    BY <2>2, <2>3, <2>4, <2>5
<1> QED
  BY <1>2, <1>3, TurnStep

LEMMA InitInTurn == Init => InTurn
<1> SUFFICES ASSUME Init PROVE InTurn
  OBVIOUS
<1>1. \A c \in Callers : call[c].at = "IDLE"
  BY DEF Init, Idle
<1> QED
  BY <1>1 DEF InTurn, Alone, Turn, At, NpuPlaces, CpuPlaces, ChipNeverLies, Init

LEMMA NextInTurn == Sound /\ InTurn /\ [Next]_vars => InTurn'
<1> SUFFICES ASSUME Sound, InTurn, [Next]_vars PROVE InTurn'
  OBVIOUS
<1>1. ASSUME NEW c \in Callers, Step(c) \/ Cancel(c) PROVE InTurn'
  BY <1>1, NpuTurn, CpuTurn, MainThreadTurn DEF Step
<1>2. ASSUME NEW c \in Callers, NEW task \in {"warmup", "attribute", "notes"}, Begin(c, task)
      PROVE  InTurn'
  BY <1>2, BeginTurn
<1>3. CASE MetricsReset \/ UNCHANGED vars
  <2>1. /\ UNCHANGED <<degraded, out, overlapped, call>> /\ label' \in {label, "NONE"}
    BY <1>3 DEF MetricsReset, vars, engines, history
  <2> QED
    BY <2>1 DEF InTurn, Alone, Turn, At, Op, ChipNeverLies
<1> QED
  BY <1>1, <1>2, <1>3 DEF Next

-----------------------------------------------------------------------------
(* The engine's state is well typed, however callers overlap.              *)
THEOREM EngineTypeCorrect == Spec => []TypeOK
<1>1. Sound => TypeOK
  BY DEF Sound
<1> QED
  BY InitSound, NextSound, <1>1, PTL DEF Spec

(* FallbackTextEngine never makes the CPU engine generate without a model. *)
THEOREM CpuAlwaysLoaded == Spec => []CpuGeneratesLoaded
<1>1. Sound => CpuGeneratesLoaded
  BY DEF Sound, CallerOK, CpuGeneratesLoaded
<1> QED
  BY InitSound, NextSound, <1>1, PTL DEF Spec

(* guard's switch to the CPU is final, so it matters that it is made only  *)
(* for a failure of the NPU or a cancellation.                             *)
THEOREM NpuGivenUpForCause == Spec => []DegradedByFailure
<1>1. Sound => DegradedByFailure
  BY DEF Sound
<1> QED
  BY InitSound, NextSound, <1>1, PTL DEF Spec

(* LlmEngine.load's check before it builds, although not atomic, bounds    *)
(* the models ever built by the number of callers.                         *)
THEOREM BuildsAreBounded == Spec => []BuildsBounded
<1>1. Sound /\ BuildCount => BuildsBounded
  <2> SUFFICES ASSUME Sound, BuildCount PROVE builds <= Cardinality(Callers)
    BY DEF BuildsBounded
  <2>1. builds \in Nat /\ Cardinality(Building) \in Nat /\ Cardinality(Callers) \in Nat
    BY CountBuilding DEF Sound, TypeOK, Building
  <2> QED
    BY <2>1 DEF BuildCount
<1> QED
  BY InitSound, NextSound, InitBuildCount, NextBuildCount, <1>1, PTL DEF Spec

(* As long as callers take turns, each is given the answer to its own      *)
(* prompt, although all runs of the runner share one out.txt, and the      *)
(* notes generator prepends the JSON prefill exactly when it has to.       *)
THEOREM AnswersInTurn == Spec => []OwnAnswerInTurn
<1>1. InTurn => OwnAnswerInTurn
  BY DEF InTurn, Turn, OwnAnswerInTurn, AnswerIsOwnInTurn, AnswerIsOwn, SeedsMatchAnswer
<1> QED
  BY InitSound, NextSound, InitInTurn, NextInTurn, <1>1, PTL DEF Spec

(* A call that fails although nobody cancelled it has been tried on the    *)
(* CPU: guard never gives up on a failure of the NPU alone.                *)
THEOREM FailuresAreRetried == Spec => []FailureIsRetried
<1>1. InTurn => FailureIsRetried
  BY DEF InTurn, Turn, FailureIsRetried
<1> QED
  BY InitSound, NextSound, InitInTurn, NextInTurn, <1>1, PTL DEF Spec

(* Once the app has switched to the CPU, no late label of the NPU comes    *)
(* after the one guard sets.                                               *)
THEOREM ChipIsTrue == Spec => []ChipNeverLies
<1>1. InTurn => ChipNeverLies
  BY DEF InTurn, ChipNeverLies
<1> QED
  BY InitSound, NextSound, InitInTurn, NextInTurn, <1>1, PTL DEF Spec
=============================================================================
