--------------------------- MODULE Poller_proofs ----------------------------
(* Proofs of the safety properties of Poller, for every capacity, every    *)
(* finite set of deliveries and both polling modes.                        *)
EXTENDS Poller, FiniteSetTheorems, TLAPS

-----------------------------------------------------------------------------
(* The inductive invariant.                                                *)

ReleasedStages == {"released"}

SemBound == ~Once => sem <= Capacity

WgAccounted == ~Once => wg = Cardinality(In(GoroutineStages))

\* PollOnce touches neither the semaphore nor the wait group, and its only
\* task lives while the loop is inside it.
OnceInv ==
    /\ Once => /\ sem = 0 /\ wg = 0
               /\ loop \notin {"acquire", "drain"}
               /\ In(ReleasedStages) = {}
               /\ loop # "run" => In(GoroutineStages) = {}
               /\ loop = "run" => \E d \in Deliveries : In(GoroutineStages) = {d}
    /\ ~Once => loop # "run"

ClosedInv == ~Once /\ loop = "closed" => wg = 0

DaemonInv ==
    /\ daemon # "select" => pollingCtx = "cancelled"
    /\ daemon = "select" => shutdownCtx = "live"
    /\ shutdownCtx = "late" => loop = "closed"
    /\ daemon = "recheck" => shutdownCtx # "live"
    /\ daemon \in {"force", "forced"} => shutdownCtx = "overdue"
    /\ JobsCancelledOnlyWhenOverdue
    /\ daemon = "stopped" => loop = "closed"

IInv ==
    /\ TypeOK
    /\ SlotsAccounted /\ SemBound /\ WgAccounted
    /\ OnceInv /\ ClosedInv
    /\ NoDuplicateRun /\ RunningBookkeeping
    /\ DaemonInv

-----------------------------------------------------------------------------
(* How a single stage change moves the sets of deliveries.                 *)

\* Deliveries at any set of stages are finitely many, in this state and the next.
LEMMA StagesFinite ==
    ASSUME NEW f, NEW S
    PROVE  /\ IsFiniteSet(AtStage(f, S))
           /\ Cardinality(AtStage(f, S)) \in Nat
<1>1. AtStage(f, S) \subseteq Deliveries
  BY DEF AtStage
<1>2. QED
  BY <1>1, DeliveriesAssumption, FS_Subset, FS_CardinalityType

\* Losing an answer in flight touches no stage inside the runner.
LEMMA LoseAnswerStays ==
    ASSUME TypeOK, LoseAnswer, NEW S, "assigned" \notin S, "lost" \notin S
    PROVE  In(S)' = In(S)
BY DEF TypeOK, LoseAnswer, In, AtStage, Stage

\* What one stage change of a delivery does to any set of deliveries.
LEMMA AtMoves ==
    ASSUME TypeOK, NEW d \in Deliveries, NEW from \in Stage, NEW to \in Stage, At(d, from, to), NEW S
    PROVE  /\ work' \in [Deliveries -> Stage]
           /\ from \notin S /\ to \in S => /\ In(S)' = In(S) \cup {d}
                                         /\ Cardinality(In(S))' = Cardinality(In(S)) + 1
           /\ from \in S /\ to \notin S => /\ In(S)' = In(S) \ {d}
                                         /\ d \in In(S)
                                         /\ Cardinality(In(S))' = Cardinality(In(S)) - 1
                                         /\ Cardinality(In(S)) >= 1
           /\ (from \in S <=> to \in S) => In(S)' = In(S)
<1>1. /\ work \in [Deliveries -> Stage] /\ work[d] = from
      /\ work' = [work EXCEPT ![d] = to]
  BY DEF At, TypeOK
<1>2. work' \in [Deliveries -> Stage]
  BY <1>1
<1>3. ASSUME from \notin S, to \in S
      PROVE  /\ In(S)' = In(S) \cup {d}
             /\ Cardinality(In(S))' = Cardinality(In(S)) + 1
  <2>1. AtStage(work', S) = AtStage(work, S) \cup {d} /\ d \notin AtStage(work, S)
    BY <1>1, <1>3 DEF AtStage
  <2>2. QED
    BY <2>1, StagesFinite, FS_AddElement DEF In
<1>4. ASSUME from \in S, to \notin S
      PROVE  /\ In(S)' = In(S) \ {d} /\ d \in In(S)
             /\ Cardinality(In(S))' = Cardinality(In(S)) - 1
             /\ Cardinality(In(S)) >= 1
  <2>1. AtStage(work', S) = AtStage(work, S) \ {d} /\ d \in AtStage(work, S)
    BY <1>1, <1>4 DEF AtStage
  <2>2. Cardinality(AtStage(work', S)) = Cardinality(AtStage(work, S)) - 1
    <3>1. Cardinality(AtStage(work, S) \ {d}) = Cardinality(AtStage(work, S)) - 1
      BY <2>1, StagesFinite, FS_RemoveElement
    <3>2. QED
      BY <2>1, <3>1
  <2>3. Cardinality(AtStage(work', S)) \in Nat /\ Cardinality(AtStage(work, S)) \in Nat
    BY StagesFinite
  <2>4. Cardinality(AtStage(work, S)) >= 1
    BY <2>2, <2>3
  <2>5. QED
    BY <2>1, <2>2, <2>4 DEF In
<1>5. ASSUME from \in S <=> to \in S PROVE In(S)' = In(S)
  BY <1>1, <1>5 DEF In, AtStage
<1>6. QED
  BY <1>2, <1>3, <1>4, <1>5

-----------------------------------------------------------------------------
\* The invariant holds when the poller is created (New).
LEMMA InitInv == Init => IInv
<1> SUFFICES ASSUME Init PROVE IInv
  OBVIOUS
<1>1. ASSUME NEW S, "new" \notin S PROVE In(S) = {}
  BY <1>1 DEF Init, In, AtStage
<1>2. In(HolderStages) = {} /\ In(GoroutineStages) = {} /\ In(BodyStages) = {}
      /\ In(CountedStages) = {} /\ In(ReleasedStages) = {}
  BY <1>1 DEF HolderStages, GoroutineStages, BodyStages, CountedStages, ReleasedStages
<1>3. Cardinality({}) = 0
  BY FS_EmptySet
<1>4. TypeOK
  BY DEF Init, TypeOK, LoopStart, LoopPc, DaemonPc, Stage, Context, Rejection, Verdict
<1>5. QED
  BY <1>2, <1>3, <1>4, CapacityAssumption
     DEF Init, IInv, SlotsAccounted, SemBound, WgAccounted, OnceInv, ClosedInv,
         NoDuplicateRun, RunningBookkeeping, DaemonInv, LoopHolds, LoopStart,
         JobsCancelledOnlyWhenOverdue, Once

-----------------------------------------------------------------------------
(* Steps that move a delivery: one step per action, first what it does to  *)
(* the five sets of deliveries, then the invariant.                        *)

\* The number of deliveries at any set of stages is a natural number.
LEMMA CardNat ==
    /\ Cardinality(In(HolderStages)) \in Nat /\ Cardinality(In(GoroutineStages)) \in Nat
    /\ Cardinality(In(CountedStages)) \in Nat
BY StagesFinite DEF In

\* Poll's hand-over of a task and a token to a new goroutine keeps the invariant.
LEMMA FetchTaskPollInv == ASSUME IInv, NEW d \in Deliveries, FetchTaskPoll(d) PROVE IInv'
<1>1. TypeOK /\ At(d, "assigned", "spawned") /\ "assigned" \in Stage /\ "spawned" \in Stage
  BY DEF IInv, FetchTaskPoll, Stage
<1>2. /\ "assigned" \notin HolderStages /\ "spawned" \in HolderStages
      /\ "assigned" \notin GoroutineStages /\ "spawned" \in GoroutineStages
      /\ "assigned" \notin BodyStages /\ "spawned" \notin BodyStages
      /\ "assigned" \notin CountedStages /\ "spawned" \notin CountedStages
      /\ "assigned" \notin ReleasedStages /\ "spawned" \notin ReleasedStages
  BY DEF HolderStages, GoroutineStages, BodyStages, CountedStages, ReleasedStages
<1>3. In(HolderStages)' = In(HolderStages) \cup {d} /\ Cardinality(In(HolderStages))' = Cardinality(In(HolderStages)) + 1
  BY <1>1, <1>2, AtMoves
<1>4. In(GoroutineStages)' = In(GoroutineStages) \cup {d} /\ Cardinality(In(GoroutineStages))' = Cardinality(In(GoroutineStages)) + 1
  BY <1>1, <1>2, AtMoves
<1>5. In(BodyStages)' = In(BodyStages)
  BY <1>1, <1>2, AtMoves
<1>6. In(CountedStages)' = In(CountedStages)
  BY <1>1, <1>2, AtMoves
<1>7. In(ReleasedStages)' = In(ReleasedStages)
  BY <1>1, <1>2, AtMoves
<1>8. work' \in [Deliveries -> Stage]
  BY <1>1, AtMoves
<1>9. QED
  BY <1>1, <1>3, <1>4, <1>5, <1>6, <1>7, <1>8, CardNat,
     CapacityAssumption, TaskOfAssumption
     DEF IInv, SlotsAccounted, SemBound, WgAccounted, OnceInv, ClosedInv, Once, NoDuplicateRun,
           RunningBookkeeping, DaemonInv, JobsCancelledOnlyWhenOverdue, LoopHolds,
         FetchTaskPoll, TypeOK, loopVars, ctxVars, fetchVars, runVars, daemonVars, KeptVersion, VersionAfterTask, Swapped, LoopPc

\* PollOnce's start of its one task keeps the invariant.
LEMMA FetchTaskOnceInv == ASSUME IInv, NEW d \in Deliveries, FetchTaskOnce(d) PROVE IInv'
<1>1. TypeOK /\ At(d, "assigned", "spawned") /\ "assigned" \in Stage /\ "spawned" \in Stage
  BY DEF IInv, FetchTaskOnce, Stage
<1>2. /\ "assigned" \notin HolderStages /\ "spawned" \in HolderStages
      /\ "assigned" \notin GoroutineStages /\ "spawned" \in GoroutineStages
      /\ "assigned" \notin BodyStages /\ "spawned" \notin BodyStages
      /\ "assigned" \notin CountedStages /\ "spawned" \notin CountedStages
      /\ "assigned" \notin ReleasedStages /\ "spawned" \notin ReleasedStages
  BY DEF HolderStages, GoroutineStages, BodyStages, CountedStages, ReleasedStages
<1>3. In(HolderStages)' = In(HolderStages) \cup {d} /\ Cardinality(In(HolderStages))' = Cardinality(In(HolderStages)) + 1
  BY <1>1, <1>2, AtMoves
<1>4. In(GoroutineStages)' = In(GoroutineStages) \cup {d} /\ Cardinality(In(GoroutineStages))' = Cardinality(In(GoroutineStages)) + 1
  BY <1>1, <1>2, AtMoves
<1>5. In(BodyStages)' = In(BodyStages)
  BY <1>1, <1>2, AtMoves
<1>6. In(CountedStages)' = In(CountedStages)
  BY <1>1, <1>2, AtMoves
<1>7. In(ReleasedStages)' = In(ReleasedStages)
  BY <1>1, <1>2, AtMoves
<1>8. work' \in [Deliveries -> Stage]
  BY <1>1, AtMoves
<1>9. QED
  BY <1>1, <1>3, <1>4, <1>5, <1>6, <1>7, <1>8, CardNat,
     CapacityAssumption, TaskOfAssumption
     DEF IInv, SlotsAccounted, SemBound, WgAccounted, OnceInv, ClosedInv, Once, NoDuplicateRun,
           RunningBookkeeping, DaemonInv, JobsCancelledOnlyWhenOverdue, LoopHolds,
         FetchTaskOnce, TypeOK, loopVars, ctxVars, fetchVars, runVars, daemonVars, KeptVersion, VersionAfterTask, Swapped, RemoveRegistration, LoopPc

\* Storing a new task id in runningTasks keeps the invariant.
LEMMA RunAdmitInv == ASSUME IInv, NEW d \in Deliveries, RunAdmit(d) PROVE IInv'
<1>1. TypeOK /\ At(d, "spawned", "admitted") /\ "spawned" \in Stage /\ "admitted" \in Stage
  BY DEF IInv, RunAdmit, Stage
<1>2. /\ "spawned" \in HolderStages /\ "admitted" \in HolderStages
      /\ "spawned" \in GoroutineStages /\ "admitted" \in GoroutineStages
      /\ "spawned" \notin BodyStages /\ "admitted" \in BodyStages
      /\ "spawned" \notin CountedStages /\ "admitted" \notin CountedStages
      /\ "spawned" \notin ReleasedStages /\ "admitted" \notin ReleasedStages
  BY DEF HolderStages, GoroutineStages, BodyStages, CountedStages, ReleasedStages
<1>3. In(HolderStages)' = In(HolderStages)
  BY <1>1, <1>2, AtMoves
<1>4. In(GoroutineStages)' = In(GoroutineStages)
  BY <1>1, <1>2, AtMoves
<1>5. In(BodyStages)' = In(BodyStages) \cup {d} /\ Cardinality(In(BodyStages))' = Cardinality(In(BodyStages)) + 1
  BY <1>1, <1>2, AtMoves
<1>6. In(CountedStages)' = In(CountedStages)
  BY <1>1, <1>2, AtMoves
<1>7. In(ReleasedStages)' = In(ReleasedStages)
  BY <1>1, <1>2, AtMoves
<1>8. work' \in [Deliveries -> Stage]
  BY <1>1, AtMoves
<1>9. QED
  BY <1>1, <1>3, <1>4, <1>5, <1>6, <1>7, <1>8, CardNat,
     CapacityAssumption, TaskOfAssumption
     DEF IInv, SlotsAccounted, SemBound, WgAccounted, OnceInv, ClosedInv, Once, NoDuplicateRun,
           RunningBookkeeping, DaemonInv, JobsCancelledOnlyWhenOverdue, LoopHolds,
         RunAdmit, TypeOK, loopVars, ctxVars, fetchVars, runVars, daemonVars

\* Refusing a task id that is already running keeps the invariant.
LEMMA RunRefuseInv == ASSUME IInv, NEW d \in Deliveries, RunRefuse(d) PROVE IInv'
<1>1. TypeOK /\ At(d, "spawned", "exit") /\ "spawned" \in Stage /\ "exit" \in Stage
  BY DEF IInv, RunRefuse, Stage
<1>2. /\ "spawned" \in HolderStages /\ "exit" \in HolderStages
      /\ "spawned" \in GoroutineStages /\ "exit" \in GoroutineStages
      /\ "spawned" \notin BodyStages /\ "exit" \notin BodyStages
      /\ "spawned" \notin CountedStages /\ "exit" \notin CountedStages
      /\ "spawned" \notin ReleasedStages /\ "exit" \notin ReleasedStages
  BY DEF HolderStages, GoroutineStages, BodyStages, CountedStages, ReleasedStages
<1>3. In(HolderStages)' = In(HolderStages)
  BY <1>1, <1>2, AtMoves
<1>4. In(GoroutineStages)' = In(GoroutineStages)
  BY <1>1, <1>2, AtMoves
<1>5. In(BodyStages)' = In(BodyStages)
  BY <1>1, <1>2, AtMoves
<1>6. In(CountedStages)' = In(CountedStages)
  BY <1>1, <1>2, AtMoves
<1>7. In(ReleasedStages)' = In(ReleasedStages)
  BY <1>1, <1>2, AtMoves
<1>8. work' \in [Deliveries -> Stage]
  BY <1>1, AtMoves
<1>9. QED
  BY <1>1, <1>3, <1>4, <1>5, <1>6, <1>7, <1>8, CardNat,
     CapacityAssumption, TaskOfAssumption
     DEF IInv, SlotsAccounted, SemBound, WgAccounted, OnceInv, ClosedInv, Once, NoDuplicateRun,
           RunningBookkeeping, DaemonInv, JobsCancelledOnlyWhenOverdue, LoopHolds,
         RunRefuse, TypeOK, loopVars, ctxVars, fetchVars, runVars, daemonVars

\* Counting an admitted task keeps the invariant.
LEMMA RunCountInv == ASSUME IInv, NEW d \in Deliveries, RunCount(d) PROVE IInv'
<1>1. TypeOK /\ At(d, "admitted", "running") /\ "admitted" \in Stage /\ "running" \in Stage
  BY DEF IInv, RunCount, Stage
<1>2. /\ "admitted" \in HolderStages /\ "running" \in HolderStages
      /\ "admitted" \in GoroutineStages /\ "running" \in GoroutineStages
      /\ "admitted" \in BodyStages /\ "running" \in BodyStages
      /\ "admitted" \notin CountedStages /\ "running" \in CountedStages
      /\ "admitted" \notin ReleasedStages /\ "running" \notin ReleasedStages
  BY DEF HolderStages, GoroutineStages, BodyStages, CountedStages, ReleasedStages
<1>3. In(HolderStages)' = In(HolderStages)
  BY <1>1, <1>2, AtMoves
<1>4. In(GoroutineStages)' = In(GoroutineStages)
  BY <1>1, <1>2, AtMoves
<1>5. In(BodyStages)' = In(BodyStages)
  BY <1>1, <1>2, AtMoves
<1>6. In(CountedStages)' = In(CountedStages) \cup {d} /\ Cardinality(In(CountedStages))' = Cardinality(In(CountedStages)) + 1
  BY <1>1, <1>2, AtMoves
<1>7. In(ReleasedStages)' = In(ReleasedStages)
  BY <1>1, <1>2, AtMoves
<1>8. work' \in [Deliveries -> Stage]
  BY <1>1, AtMoves
<1>9. QED
  BY <1>1, <1>3, <1>4, <1>5, <1>6, <1>7, <1>8, CardNat,
     CapacityAssumption, TaskOfAssumption
     DEF IInv, SlotsAccounted, SemBound, WgAccounted, OnceInv, ClosedInv, Once, NoDuplicateRun,
           RunningBookkeeping, DaemonInv, JobsCancelledOnlyWhenOverdue, LoopHolds,
         RunCount, TypeOK, loopVars, ctxVars, fetchVars, runVars, daemonVars

\* Uncounting a finished task keeps the invariant.
LEMMA RunFinishInv == ASSUME IInv, NEW d \in Deliveries, RunFinish(d) PROVE IInv'
<1>1. TypeOK /\ At(d, "running", "finishing") /\ "running" \in Stage /\ "finishing" \in Stage
  BY DEF IInv, RunFinish, Stage
<1>2. /\ "running" \in HolderStages /\ "finishing" \in HolderStages
      /\ "running" \in GoroutineStages /\ "finishing" \in GoroutineStages
      /\ "running" \in BodyStages /\ "finishing" \in BodyStages
      /\ "running" \in CountedStages /\ "finishing" \notin CountedStages
      /\ "running" \notin ReleasedStages /\ "finishing" \notin ReleasedStages
  BY DEF HolderStages, GoroutineStages, BodyStages, CountedStages, ReleasedStages
<1>3. In(HolderStages)' = In(HolderStages)
  BY <1>1, <1>2, AtMoves
<1>4. In(GoroutineStages)' = In(GoroutineStages)
  BY <1>1, <1>2, AtMoves
<1>5. In(BodyStages)' = In(BodyStages)
  BY <1>1, <1>2, AtMoves
<1>6. /\ In(CountedStages)' = In(CountedStages) \ {d} /\ d \in In(CountedStages)
      /\ Cardinality(In(CountedStages))' = Cardinality(In(CountedStages)) - 1 /\ Cardinality(In(CountedStages)) >= 1
  BY <1>1, <1>2, AtMoves
<1>7. In(ReleasedStages)' = In(ReleasedStages)
  BY <1>1, <1>2, AtMoves
<1>8. work' \in [Deliveries -> Stage]
  BY <1>1, AtMoves
<1>9. QED
  BY <1>1, <1>3, <1>4, <1>5, <1>6, <1>7, <1>8, CardNat,
     CapacityAssumption, TaskOfAssumption
     DEF IInv, SlotsAccounted, SemBound, WgAccounted, OnceInv, ClosedInv, Once, NoDuplicateRun,
           RunningBookkeeping, DaemonInv, JobsCancelledOnlyWhenOverdue, LoopHolds,
         RunFinish, TypeOK, loopVars, ctxVars, fetchVars, runVars, daemonVars

\* Deleting the task id keeps the invariant: no other body has this id.
LEMMA RunForgetInv == ASSUME IInv, NEW d \in Deliveries, RunForget(d) PROVE IInv'
<1>1. TypeOK /\ At(d, "finishing", "exit") /\ "finishing" \in Stage /\ "exit" \in Stage
  BY DEF IInv, RunForget, Stage
<1>2. /\ "finishing" \in HolderStages /\ "exit" \in HolderStages
      /\ "finishing" \in GoroutineStages /\ "exit" \in GoroutineStages
      /\ "finishing" \in BodyStages /\ "exit" \notin BodyStages
      /\ "finishing" \notin CountedStages /\ "exit" \notin CountedStages
      /\ "finishing" \notin ReleasedStages /\ "exit" \notin ReleasedStages
  BY DEF HolderStages, GoroutineStages, BodyStages, CountedStages, ReleasedStages
<1>3. In(HolderStages)' = In(HolderStages)
  BY <1>1, <1>2, AtMoves
<1>4. In(GoroutineStages)' = In(GoroutineStages)
  BY <1>1, <1>2, AtMoves
<1>5. /\ In(BodyStages)' = In(BodyStages) \ {d} /\ d \in In(BodyStages)
      /\ Cardinality(In(BodyStages))' = Cardinality(In(BodyStages)) - 1 /\ Cardinality(In(BodyStages)) >= 1
  BY <1>1, <1>2, AtMoves
<1>6. In(CountedStages)' = In(CountedStages)
  BY <1>1, <1>2, AtMoves
<1>7. In(ReleasedStages)' = In(ReleasedStages)
  BY <1>1, <1>2, AtMoves
<1>8. work' \in [Deliveries -> Stage]
  BY <1>1, AtMoves
<1>9. QED
  BY <1>1, <1>3, <1>4, <1>5, <1>6, <1>7, <1>8, CardNat,
     CapacityAssumption, TaskOfAssumption
     DEF IInv, SlotsAccounted, SemBound, WgAccounted, OnceInv, ClosedInv, Once, NoDuplicateRun,
           RunningBookkeeping, DaemonInv, JobsCancelledOnlyWhenOverdue, LoopHolds,
         RunForget, TypeOK, loopVars, ctxVars, fetchVars, runVars, daemonVars

\* A goroutine's deferred receive from the semaphore keeps the invariant.
LEMMA ReleaseTokenInv == ASSUME IInv, NEW d \in Deliveries, ReleaseToken(d) PROVE IInv'
<1>1. TypeOK /\ At(d, "exit", "released") /\ "exit" \in Stage /\ "released" \in Stage
  BY DEF IInv, ReleaseToken, Stage
<1>2. /\ "exit" \in HolderStages /\ "released" \notin HolderStages
      /\ "exit" \in GoroutineStages /\ "released" \in GoroutineStages
      /\ "exit" \notin BodyStages /\ "released" \notin BodyStages
      /\ "exit" \notin CountedStages /\ "released" \notin CountedStages
      /\ "exit" \notin ReleasedStages /\ "released" \in ReleasedStages
  BY DEF HolderStages, GoroutineStages, BodyStages, CountedStages, ReleasedStages
<1>3. /\ In(HolderStages)' = In(HolderStages) \ {d} /\ d \in In(HolderStages)
      /\ Cardinality(In(HolderStages))' = Cardinality(In(HolderStages)) - 1 /\ Cardinality(In(HolderStages)) >= 1
  BY <1>1, <1>2, AtMoves
<1>4. In(GoroutineStages)' = In(GoroutineStages)
  BY <1>1, <1>2, AtMoves
<1>5. In(BodyStages)' = In(BodyStages)
  BY <1>1, <1>2, AtMoves
<1>6. In(CountedStages)' = In(CountedStages)
  BY <1>1, <1>2, AtMoves
<1>7. In(ReleasedStages)' = In(ReleasedStages) \cup {d} /\ Cardinality(In(ReleasedStages))' = Cardinality(In(ReleasedStages)) + 1
  BY <1>1, <1>2, AtMoves
<1>8. work' \in [Deliveries -> Stage]
  BY <1>1, AtMoves
<1>9. QED
  BY <1>1, <1>3, <1>4, <1>5, <1>6, <1>7, <1>8, CardNat,
     CapacityAssumption, TaskOfAssumption
     DEF IInv, SlotsAccounted, SemBound, WgAccounted, OnceInv, ClosedInv, Once, NoDuplicateRun,
           RunningBookkeeping, DaemonInv, JobsCancelledOnlyWhenOverdue, LoopHolds,
         ReleaseToken, TypeOK, loopVars, ctxVars, fetchVars, runVars, daemonVars

\* A goroutine's deferred wg.Done keeps the invariant.
LEMMA GoroutineDoneInv == ASSUME IInv, NEW d \in Deliveries, GoroutineDone(d) PROVE IInv'
<1>1. TypeOK /\ At(d, "released", "ended") /\ "released" \in Stage /\ "ended" \in Stage
  BY DEF IInv, GoroutineDone, Stage
<1>2. /\ "released" \notin HolderStages /\ "ended" \notin HolderStages
      /\ "released" \in GoroutineStages /\ "ended" \notin GoroutineStages
      /\ "released" \notin BodyStages /\ "ended" \notin BodyStages
      /\ "released" \notin CountedStages /\ "ended" \notin CountedStages
      /\ "released" \in ReleasedStages /\ "ended" \notin ReleasedStages
  BY DEF HolderStages, GoroutineStages, BodyStages, CountedStages, ReleasedStages
<1>3. In(HolderStages)' = In(HolderStages)
  BY <1>1, <1>2, AtMoves
<1>4. /\ In(GoroutineStages)' = In(GoroutineStages) \ {d} /\ d \in In(GoroutineStages)
      /\ Cardinality(In(GoroutineStages))' = Cardinality(In(GoroutineStages)) - 1 /\ Cardinality(In(GoroutineStages)) >= 1
  BY <1>1, <1>2, AtMoves
<1>5. In(BodyStages)' = In(BodyStages)
  BY <1>1, <1>2, AtMoves
<1>6. In(CountedStages)' = In(CountedStages)
  BY <1>1, <1>2, AtMoves
<1>7. /\ In(ReleasedStages)' = In(ReleasedStages) \ {d} /\ d \in In(ReleasedStages)
      /\ Cardinality(In(ReleasedStages))' = Cardinality(In(ReleasedStages)) - 1 /\ Cardinality(In(ReleasedStages)) >= 1
  BY <1>1, <1>2, AtMoves
<1>8. work' \in [Deliveries -> Stage]
  BY <1>1, AtMoves
<1>9. QED
  BY <1>1, <1>3, <1>4, <1>5, <1>6, <1>7, <1>8, CardNat,
     CapacityAssumption, TaskOfAssumption
     DEF IInv, SlotsAccounted, SemBound, WgAccounted, OnceInv, ClosedInv, Once, NoDuplicateRun,
           RunningBookkeeping, DaemonInv, JobsCancelledOnlyWhenOverdue, LoopHolds,
         GoroutineDone, TypeOK, loopVars, ctxVars, fetchVars, runVars, daemonVars

\* PollOnce's return after its task keeps the invariant.
LEMMA OnceReturnInv == ASSUME IInv, NEW d \in Deliveries, OnceReturn(d) PROVE IInv'
<1>1. TypeOK /\ At(d, "exit", "ended") /\ "exit" \in Stage /\ "ended" \in Stage
  BY DEF IInv, OnceReturn, Stage
<1>2. /\ "exit" \in HolderStages /\ "ended" \notin HolderStages
      /\ "exit" \in GoroutineStages /\ "ended" \notin GoroutineStages
      /\ "exit" \notin BodyStages /\ "ended" \notin BodyStages
      /\ "exit" \notin CountedStages /\ "ended" \notin CountedStages
      /\ "exit" \notin ReleasedStages /\ "ended" \notin ReleasedStages
  BY DEF HolderStages, GoroutineStages, BodyStages, CountedStages, ReleasedStages
<1>3. /\ In(HolderStages)' = In(HolderStages) \ {d} /\ d \in In(HolderStages)
      /\ Cardinality(In(HolderStages))' = Cardinality(In(HolderStages)) - 1 /\ Cardinality(In(HolderStages)) >= 1
  BY <1>1, <1>2, AtMoves
<1>4. /\ In(GoroutineStages)' = In(GoroutineStages) \ {d} /\ d \in In(GoroutineStages)
      /\ Cardinality(In(GoroutineStages))' = Cardinality(In(GoroutineStages)) - 1 /\ Cardinality(In(GoroutineStages)) >= 1
  BY <1>1, <1>2, AtMoves
<1>5. In(BodyStages)' = In(BodyStages)
  BY <1>1, <1>2, AtMoves
<1>6. In(CountedStages)' = In(CountedStages)
  BY <1>1, <1>2, AtMoves
<1>7. In(ReleasedStages)' = In(ReleasedStages)
  BY <1>1, <1>2, AtMoves
<1>8. work' \in [Deliveries -> Stage]
  BY <1>1, AtMoves
<1>9. QED
  BY <1>1, <1>3, <1>4, <1>5, <1>6, <1>7, <1>8, CardNat,
     CapacityAssumption, TaskOfAssumption
     DEF IInv, SlotsAccounted, SemBound, WgAccounted, OnceInv, ClosedInv, Once, NoDuplicateRun,
           RunningBookkeeping, DaemonInv, JobsCancelledOnlyWhenOverdue, LoopHolds,
         OnceReturn, TypeOK, loopVars, ctxVars, fetchVars, runVars, daemonVars, LoopPc

\* A new task in the server's queue keeps the invariant.
LEMMA SrvEnqueueInv == ASSUME IInv, NEW d \in Deliveries, SrvEnqueue(d) PROVE IInv'
<1>1. TypeOK /\ At(d, "new", "queued") /\ "new" \in Stage /\ "queued" \in Stage
  BY DEF IInv, SrvEnqueue, Stage
<1>2. /\ "new" \notin HolderStages /\ "queued" \notin HolderStages
      /\ "new" \notin GoroutineStages /\ "queued" \notin GoroutineStages
      /\ "new" \notin BodyStages /\ "queued" \notin BodyStages
      /\ "new" \notin CountedStages /\ "queued" \notin CountedStages
      /\ "new" \notin ReleasedStages /\ "queued" \notin ReleasedStages
  BY DEF HolderStages, GoroutineStages, BodyStages, CountedStages, ReleasedStages
<1>3. In(HolderStages)' = In(HolderStages)
  BY <1>1, <1>2, AtMoves
<1>4. In(GoroutineStages)' = In(GoroutineStages)
  BY <1>1, <1>2, AtMoves
<1>5. In(BodyStages)' = In(BodyStages)
  BY <1>1, <1>2, AtMoves
<1>6. In(CountedStages)' = In(CountedStages)
  BY <1>1, <1>2, AtMoves
<1>7. In(ReleasedStages)' = In(ReleasedStages)
  BY <1>1, <1>2, AtMoves
<1>8. work' \in [Deliveries -> Stage]
  BY <1>1, AtMoves
<1>9. QED
  BY <1>1, <1>3, <1>4, <1>5, <1>6, <1>7, <1>8, CardNat,
     CapacityAssumption, TaskOfAssumption
     DEF IInv, SlotsAccounted, SemBound, WgAccounted, OnceInv, ClosedInv, Once, NoDuplicateRun,
           RunningBookkeeping, DaemonInv, JobsCancelledOnlyWhenOverdue, LoopHolds,
         SrvEnqueue, TypeOK, loopVars, ctxVars, fetchVars, runVars, daemonVars

-----------------------------------------------------------------------------
(* Steps that leave every delivery inside the runner where it is.          *)

\* A failed fetch, with the answer it loses, keeps the invariant.
LEMMA FetchFailedInv == ASSUME IInv, FetchFailed PROVE IInv'
<1>1. TypeOK /\ LoseAnswer
  BY DEF IInv, FetchFailed
<1>2. /\ In(HolderStages)' = In(HolderStages) /\ In(GoroutineStages)' = In(GoroutineStages)
      /\ In(BodyStages)' = In(BodyStages) /\ In(CountedStages)' = In(CountedStages)
      /\ In(ReleasedStages)' = In(ReleasedStages)
  <2>1. ASSUME NEW S, "assigned" \notin S, "lost" \notin S PROVE In(S)' = In(S)
    BY <1>1, <2>1, LoseAnswerStays
  <2>2. QED
    BY <2>1 DEF HolderStages, GoroutineStages, BodyStages, CountedStages, ReleasedStages
<1>3. work' \in [Deliveries -> Stage]
  BY <1>1 DEF LoseAnswer, TypeOK, Stage
<1>4. QED
  BY <1>1, <1>2, <1>3, CardNat, CapacityAssumption
     DEF IInv, SlotsAccounted, SemBound, WgAccounted, OnceInv, ClosedInv, Once, NoDuplicateRun,
           RunningBookkeeping, DaemonInv, JobsCancelledOnlyWhenOverdue, LoopHolds,
         FetchFailed, TypeOK, LoopPc, loopVars, ctxVars, fetchVars, runVars, daemonVars

\* The server's answer to a fetch keeps the invariant.
LEMMA SrvAnswerInv == ASSUME IInv, SrvAnswer PROVE IInv'
<1>1. TypeOK
  BY DEF IInv
<1>2. /\ In(HolderStages)' = In(HolderStages) /\ In(GoroutineStages)' = In(GoroutineStages)
      /\ In(BodyStages)' = In(BodyStages) /\ In(CountedStages)' = In(CountedStages)
      /\ In(ReleasedStages)' = In(ReleasedStages)
      /\ work' \in [Deliveries -> Stage]
  <2>1. CASE UNCHANGED work
    BY <1>1, <2>1 DEF TypeOK, In
  <2>2. CASE \E d \in Deliveries : At(d, "queued", "assigned")
    <3>1. PICK d \in Deliveries : At(d, "queued", "assigned")
      BY <2>2
    <3>2. ASSUME NEW S, "queued" \notin S, "assigned" \notin S
          PROVE  In(S)' = In(S) /\ work' \in [Deliveries -> Stage]
      BY <1>1, <3>1, <3>2, AtMoves DEF Stage
    <3>3. QED
      BY <3>2 DEF HolderStages, GoroutineStages, BodyStages, CountedStages, ReleasedStages
  <2>3. QED
    BY <2>1, <2>2 DEF SrvAnswer
<1>3. QED
  BY <1>1, <1>2, CardNat, CapacityAssumption
     DEF IInv, SlotsAccounted, SemBound, WgAccounted, OnceInv, ClosedInv, Once, NoDuplicateRun,
           RunningBookkeeping, DaemonInv, JobsCancelledOnlyWhenOverdue, LoopHolds,
         SrvAnswer, TypeOK, loopVars, ctxVars, fetchVars, runVars, daemonVars

-----------------------------------------------------------------------------
(* All steps.                                                              *)

\* Every step of the Poll or PollOnce goroutine keeps the invariant.
LEMMA LoopStepInv == ASSUME IInv, LoopStep PROVE IInv'
<1> USE CapacityAssumption, CardNat
<1> USE DEF IInv, SlotsAccounted, SemBound, WgAccounted, OnceInv, ClosedInv, Once, NoDuplicateRun,
           RunningBookkeeping, DaemonInv, JobsCancelledOnlyWhenOverdue, LoopHolds,
            TypeOK, LoopPc, In, loopVars, ctxVars, fetchVars, runVars, daemonVars
<1>1. CASE Acquire
  BY <1>1 DEF Acquire
<1>2. CASE AcquireCancelled
  BY <1>2 DEF AcquireCancelled
<1>3. ASSUME NEW v \in Verdict, CheckAvailability(v) PROVE IInv'
  BY <1>3 DEF CheckAvailability, CanAcceptTask, Verdict
<1>4. CASE IdleRelease
  BY <1>4 DEF IdleRelease
<1>5. CASE BackoffOver
  BY <1>5 DEF BackoffOver, LoopStart, Once
<1>6. CASE BackoffCancelled
  BY <1>6 DEF BackoffCancelled, LoopEnd, Once
<1>7. CASE Drain
  BY <1>7 DEF Drain
<1>8. CASE FetchSend
  BY <1>8 DEF FetchSend
<1>9. CASE FetchEmpty
  BY <1>9 DEF FetchEmpty, KeptVersion, Swapped
<1>10. ASSUME NEW how \in Rejection, FetchUnregistered(how) PROVE IInv'
  BY <1>10 DEF FetchUnregistered, Context, Rejection
<1>11. QED
  BY <1>1, <1>2, <1>3, <1>4, <1>5, <1>6, <1>7, <1>8, <1>9, <1>10,
     FetchFailedInv, FetchTaskPollInv, FetchTaskOnceInv DEF LoopStep

\* Every step of runDaemon and Shutdown, the signal and the timeout keep it.
LEMMA DaemonStepInv == ASSUME IInv, DaemonStep \/ Signal \/ ShutdownTimeout \/ UNCHANGED vars PROVE IInv'
<1> USE CapacityAssumption, CardNat
<1> USE DEF IInv, SlotsAccounted, SemBound, WgAccounted, OnceInv, ClosedInv, Once, NoDuplicateRun,
           RunningBookkeeping, DaemonInv, JobsCancelledOnlyWhenOverdue, LoopHolds,
            TypeOK, DaemonPc, Context, In, loopVars, ctxVars, fetchVars, runVars, daemonVars
<1>1. CASE BeginShutdown
  BY <1>1 DEF BeginShutdown
<1>2. CASE ShutdownGraceful
  BY <1>2 DEF ShutdownGraceful, Stop, RemoveRegistration
<1>3. CASE ShutdownExpired
  BY <1>3 DEF ShutdownExpired
<1>4. CASE ShutdownRecheck
  BY <1>4 DEF ShutdownRecheck, Stop, RemoveRegistration
<1>5. CASE ShutdownJobs
  BY <1>5 DEF ShutdownJobs
<1>6. CASE ShutdownForced
  BY <1>6 DEF ShutdownForced, Stop, RemoveRegistration
<1>7. CASE Signal
  BY <1>7 DEF Signal
<1>8. CASE ShutdownTimeout
  BY <1>8 DEF ShutdownTimeout
<1>9. CASE UNCHANGED vars
  BY <1>9 DEF vars
<1>10. QED
  BY <1>1, <1>2, <1>3, <1>4, <1>5, <1>6, <1>7, <1>8, <1>9 DEF DaemonStep

\* Every step of the system keeps the invariant.
LEMMA StepInv == IInv /\ [Next]_vars => IInv'
<1> SUFFICES ASSUME IInv, [Next]_vars PROVE IInv'
  OBVIOUS
<1>1. CASE LoopStep
  BY <1>1, LoopStepInv
<1>2. ASSUME NEW d \in Deliveries, JobStep(d) PROVE IInv'
  BY <1>2, RunAdmitInv, RunRefuseInv, RunCountInv, RunFinishInv, RunForgetInv, ReleaseTokenInv,
     GoroutineDoneInv, OnceReturnInv DEF JobStep
<1>3. CASE DaemonStep
  BY <1>3, DaemonStepInv
<1>4. CASE Environment
  BY <1>4, SrvEnqueueInv, SrvAnswerInv, DaemonStepInv DEF Environment
<1>5. CASE UNCHANGED vars
  BY <1>5, DaemonStepInv
<1>6. QED
  BY <1>1, <1>2, <1>3, <1>4, <1>5 DEF Next, Terminated

\* The inductive invariant holds in every reachable state.
LEMMA Invariance == Spec => []IInv
BY InitInv, StepInv, PTL DEF Spec

-----------------------------------------------------------------------------
(* What a run-once daemon has taken, and the verdict a fetch relies on.    *)

\* The loop of PollOnce has not taken a task before it is at "run", and never
\* takes a second one.
TakenInv ==
    /\ Once => \A d, e \in In(ReceivedStages) : d = e
    /\ Once /\ loop \notin {"run", "closed"} => In(ReceivedStages) = {}
    /\ SpentBeforeRun

\* No task arrives before the first health check, so that the cached verdict
\* the gate falls back to while jobs run is one that was really given.
HealthInv ==
    HealthEnabled =>
        /\ health = "unset" => In(ReceivedStages) = {} /\ loop # "rpc"
        /\ loop = "fetch" => health = "ready"

\* Tasks reach the runner only by the two actions that take one from an answer.
LEMMA ReceivedMoves ==
    ASSUME TypeOK, [Next]_vars
    PROVE  \/ In(ReceivedStages)' = In(ReceivedStages)
           \/ \E d \in Deliveries : /\ FetchTaskPoll(d) \/ FetchTaskOnce(d)
                                    /\ In(ReceivedStages)' = In(ReceivedStages) \cup {d}
<1> DEFINE R == ReceivedStages
<1>1. ASSUME NEW d \in Deliveries, NEW from \in R, NEW to \in R, At(d, from, to)
      PROVE  In(R)' = In(R)
  <2>1. from \in Stage /\ to \in Stage
    BY <1>1 DEF ReceivedStages, GoroutineStages, Stage
  <2>2. QED
    BY <1>1, <2>1, AtMoves
<1>2. ASSUME NEW d \in Deliveries, JobStep(d) PROVE In(R)' = In(R)
  <2>1. \E from, to \in R : At(d, from, to)
    BY <1>2 DEF JobStep, RunAdmit, RunRefuse, RunCount, RunFinish, RunForget, ReleaseToken,
                GoroutineDone, OnceReturn, ReceivedStages, GoroutineStages
  <2>2. QED
    BY <1>1, <2>1
<1>3. ASSUME NEW d \in Deliveries, FetchTaskPoll(d) \/ FetchTaskOnce(d)
      PROVE  In(R)' = In(R) \cup {d}
  <2>1. At(d, "assigned", "spawned") /\ "assigned" \in Stage /\ "spawned" \in Stage
    BY <1>3 DEF FetchTaskPoll, FetchTaskOnce, Stage
  <2>2. "assigned" \notin R /\ "spawned" \in R
    BY DEF ReceivedStages, GoroutineStages
  <2>3. QED
    BY <2>1, <2>2, AtMoves
<1>4. ASSUME NEW d \in Deliveries, At(d, "new", "queued") \/ At(d, "queued", "assigned")
      PROVE  In(R)' = In(R)
  <2>1. "new" \in Stage /\ "queued" \in Stage /\ "assigned" \in Stage
        /\ "new" \notin R /\ "queued" \notin R /\ "assigned" \notin R
    BY DEF ReceivedStages, GoroutineStages, Stage
  <2>2. QED
    BY <1>4, <2>1, AtMoves
<1>5. CASE FetchFailed
  <2>1. "assigned" \notin R /\ "lost" \notin R
    BY DEF ReceivedStages, GoroutineStages
  <2>2. In(R)' = In(R)
    BY <1>5, <2>1, LoseAnswerStays DEF FetchFailed
  <2>3. QED
    BY <2>2
<1>6. ASSUME UNCHANGED work PROVE In(R)' = In(R)
  BY <1>6 DEF In
<1>7. CASE LoopStep
  <2>1. \/ UNCHANGED work \/ FetchFailed
        \/ \E d \in Deliveries : FetchTaskPoll(d) \/ FetchTaskOnce(d)
    BY <1>7 DEF LoopStep, Acquire, AcquireCancelled, CheckAvailability, IdleRelease, BackoffOver,
                BackoffCancelled, Drain, FetchSend, FetchEmpty, FetchUnregistered
  <2>2. QED
    BY <2>1, <1>3, <1>5, <1>6
<1>8. CASE DaemonStep \/ Signal \/ ShutdownTimeout \/ UNCHANGED vars
  <2>1. UNCHANGED work
    BY <1>8 DEF DaemonStep, BeginShutdown, ShutdownGraceful, ShutdownExpired, ShutdownRecheck,
                ShutdownJobs, ShutdownForced, Signal, ShutdownTimeout, vars
  <2>2. QED
    BY <2>1, <1>6
<1>9. CASE SrvAnswer
  <2>1. UNCHANGED work \/ \E d \in Deliveries : At(d, "queued", "assigned")
    BY <1>9 DEF SrvAnswer
  <2>2. QED
    BY <2>1, <1>4, <1>6
<1>10. ASSUME NEW d \in Deliveries, SrvEnqueue(d) PROVE In(R)' = In(R)
  BY <1>4, <1>10 DEF SrvEnqueue
<1>11. QED
  BY <1>2, <1>7, <1>8, <1>9, <1>10 DEF Next, Environment, Terminated

\* The loop leaves its states before "run" only by taking a task, and it ends
\* there: it never goes back to them.
LEMMA LoopMoves ==
    ASSUME IInv, [Next]_vars, Once, loop \in {"run", "closed"}
    PROVE  loop' \in {"run", "closed"}
<1> USE DEF IInv, OnceInv, loopVars
<1>1. CASE LoopStep
  BY <1>1 DEF LoopStep, Acquire, AcquireCancelled, CheckAvailability, IdleRelease, BackoffOver,
              BackoffCancelled, Drain, FetchSend, FetchFailed, FetchEmpty, FetchUnregistered,
              FetchTaskPoll, FetchTaskOnce
<1>2. ASSUME NEW d \in Deliveries, JobStep(d) PROVE loop' \in {"run", "closed"}
  BY <1>2 DEF JobStep, RunAdmit, RunRefuse, RunCount, RunFinish, RunForget, ReleaseToken,
              GoroutineDone, OnceReturn
<1>3. CASE DaemonStep \/ Environment \/ UNCHANGED vars
  BY <1>3 DEF DaemonStep, BeginShutdown, ShutdownGraceful, ShutdownExpired, ShutdownRecheck,
              ShutdownJobs, ShutdownForced, Environment, SrvEnqueue, SrvAnswer, Signal,
              ShutdownTimeout, vars
<1>4. QED
  BY <1>1, <1>2, <1>3 DEF Next, Terminated

\* The mode never changes, and a registration that was given up does not come back.
LEMMA RegistrationMoves ==
    ASSUME [Next]_vars
    PROVE  mode' = mode /\ (regFile # "present" => regFile' # "present")
<1> USE DEF loopVars, ctxVars, fetchVars, runVars, daemonVars
<1>1. CASE LoopStep
  BY <1>1 DEF LoopStep, Acquire, AcquireCancelled, CheckAvailability, IdleRelease, BackoffOver,
              BackoffCancelled, Drain, FetchSend, FetchFailed, FetchEmpty, FetchUnregistered,
              FetchTaskPoll, FetchTaskOnce, RemoveRegistration
<1>2. ASSUME NEW d \in Deliveries, JobStep(d) PROVE UNCHANGED <<mode, regFile>>
  BY <1>2 DEF JobStep, RunAdmit, RunRefuse, RunCount, RunFinish, RunForget, ReleaseToken,
              GoroutineDone, OnceReturn
<1>3. CASE DaemonStep \/ Environment \/ UNCHANGED vars
  BY <1>3 DEF DaemonStep, BeginShutdown, ShutdownGraceful, ShutdownExpired, ShutdownRecheck,
              ShutdownJobs, ShutdownForced, Stop, RemoveRegistration, Environment, SrvEnqueue,
              SrvAnswer, Signal, ShutdownTimeout, vars
<1>4. QED
  BY <1>1, <1>2, <1>3 DEF Next, Terminated

\* Every step keeps what a run-once daemon has taken to one task.
LEMMA TakenStep == IInv /\ TakenInv /\ [Next]_vars => TakenInv'
<1> SUFFICES ASSUME IInv, TakenInv, [Next]_vars PROVE TakenInv'
  OBVIOUS
<1>1. mode' = mode /\ (regFile # "present" => regFile' # "present")
  BY RegistrationMoves
<1>2. Once /\ loop \in {"run", "closed"} => loop' \in {"run", "closed"}
  BY LoopMoves
<1>3. TypeOK
  BY DEF IInv
<1>4. CASE In(ReceivedStages)' = In(ReceivedStages)
  BY <1>1, <1>2, <1>4 DEF TakenInv, SpentBeforeRun, Once, Ephemeral
<1>5. ASSUME NEW d \in Deliveries, FetchTaskPoll(d),
             In(ReceivedStages)' = In(ReceivedStages) \cup {d}
      PROVE  TakenInv'
  BY <1>1, <1>5 DEF TakenInv, SpentBeforeRun, Once, Ephemeral, FetchTaskPoll
<1>6. ASSUME NEW d \in Deliveries, FetchTaskOnce(d),
             In(ReceivedStages)' = In(ReceivedStages) \cup {d}
      PROVE  TakenInv'
  <2>1. Once /\ loop = "rpc" /\ loop' = "run" /\ RemoveRegistration
    BY <1>6 DEF FetchTaskOnce
  <2>2. In(ReceivedStages)' = {d}
    BY <1>6, <2>1 DEF TakenInv
  <2>3. Ephemeral => regFile' # "present"
    BY <2>1 DEF RemoveRegistration
  <2>4. QED
    BY <1>1, <2>1, <2>2, <2>3 DEF TakenInv, SpentBeforeRun, Ephemeral
<1>7. QED
  BY <1>3, <1>4, <1>5, <1>6, ReceivedMoves

\* While a job is counted a task has been received.
LEMMA CountedMeansReceived ==
    ASSUME IInv, runningCount > 0
    PROVE  In(ReceivedStages) # {}
<1>1. Cardinality(In(CountedStages)) > 0
  BY DEF IInv, RunningBookkeeping
<1>2. In(CountedStages) # {}
  BY <1>1, FS_EmptySet
<1>3. In(CountedStages) \subseteq In(ReceivedStages)
  BY DEF In, AtStage, CountedStages, ReceivedStages, GoroutineStages
<1>4. QED
  BY <1>2, <1>3

\* Every step keeps the cached verdict one that a fetch may rely on.
LEMMA HealthStep == IInv /\ HealthInv /\ [Next]_vars => HealthInv'
<1> SUFFICES ASSUME IInv, HealthInv, [Next]_vars, HealthEnabled PROVE HealthInv'
  BY DEF HealthInv
<1>1. \/ In(ReceivedStages)' = In(ReceivedStages)
      \/ \E d \in Deliveries : FetchTaskPoll(d) \/ FetchTaskOnce(d)
  BY ReceivedMoves DEF IInv
<1>2. ASSUME NEW v \in Verdict, CheckAvailability(v) PROVE HealthInv'
  <2>1. PICK answer \in Verdict : /\ CanAcceptTask(v, answer)
                                  /\ loop' = IF answer = "ready" THEN "fetch" ELSE "idle"
    BY <1>2 DEF CheckAvailability
  <2>2. UNCHANGED work
    BY <1>2 DEF CheckAvailability
  <2>3. In(ReceivedStages)' = In(ReceivedStages)
    BY <2>2 DEF In
  <2>4. CASE runningCount > 0
    <3>1. health # "unset"
      BY <2>4, CountedMeansReceived DEF HealthInv
    <3>2. answer = health /\ health' = health
      BY <2>1, <2>4, <3>1 DEF CanAcceptTask, IInv, TypeOK
    <3>3. QED
      BY <2>1, <3>1, <3>2 DEF HealthInv
  <2>5. CASE ~(runningCount > 0)
    <3>1. answer = v /\ health' = v
      BY <2>1, <2>5 DEF CanAcceptTask
    <3>2. QED
      BY <2>1, <3>1 DEF HealthInv, Verdict
  <2>6. QED
    BY <2>4, <2>5
<1>3. ASSUME UNCHANGED health, loop' # "fetch" \/ loop' = loop, loop' = "rpc" => loop \in {"fetch", "rpc"}
      PROVE  HealthInv'
  <2>1. health = "unset" => In(ReceivedStages)' = In(ReceivedStages)
    BY <1>1 DEF HealthInv, FetchTaskPoll, FetchTaskOnce
  <2>2. QED
    BY <1>3, <2>1 DEF HealthInv
<1>4. \/ \E v \in Verdict : CheckAvailability(v)
      \/ /\ UNCHANGED health /\ (loop' # "fetch" \/ loop' = loop)
         /\ loop' = "rpc" => loop \in {"fetch", "rpc"}
  <2> USE DEF loopVars
  <2>1. CASE LoopStep
    BY <2>1 DEF LoopStep, Acquire, AcquireCancelled, IdleRelease, BackoffOver, BackoffCancelled,
                Drain, FetchSend, FetchFailed, FetchEmpty, FetchUnregistered, FetchTaskPoll,
                FetchTaskOnce, LoopStart, LoopEnd
  <2>2. ASSUME NEW d \in Deliveries, JobStep(d) PROVE UNCHANGED health /\ (loop' = loop \/ loop' = "closed")
    BY <2>2 DEF JobStep, RunAdmit, RunRefuse, RunCount, RunFinish, RunForget, ReleaseToken,
                GoroutineDone, OnceReturn
  <2>3. CASE DaemonStep \/ Environment \/ UNCHANGED vars
    BY <2>3 DEF DaemonStep, BeginShutdown, ShutdownGraceful, ShutdownExpired, ShutdownRecheck,
                ShutdownJobs, ShutdownForced, Environment, SrvEnqueue, SrvAnswer, Signal,
                ShutdownTimeout, vars
  <2>4. QED
    BY <2>1, <2>2, <2>3 DEF Next, Terminated
<1>5. QED
  BY <1>2, <1>3, <1>4

\* Both hold when the poller is created, and in every reachable state.
LEMMA TakenInvariance == Spec => [](TakenInv /\ HealthInv)
<1>1. Init => TakenInv /\ HealthInv
  <2> SUFFICES ASSUME Init PROVE TakenInv /\ HealthInv
    OBVIOUS
  <2>1. In(ReceivedStages) = {}
    BY DEF Init, In, AtStage, ReceivedStages, GoroutineStages
  <2>2. QED
    BY <2>1 DEF Init, TakenInv, HealthInv, SpentBeforeRun, LoopStart
<1>2. QED
  BY <1>1, TakenStep, HealthStep, Invariance, PTL DEF Spec

-----------------------------------------------------------------------------
(* The theorems.                                                           *)

\* The state of the poller, the runner's admission and the daemon keeps its
\* types; sem and wg in particular never become negative.
THEOREM TypeCorrect == Spec => []TypeOK
<1>1. IInv => TypeOK
  BY DEF IInv
<1>2. QED
  BY <1>1, Invariance, PTL

\* No path through Poll leaks a semaphore token or returns one twice.
THEOREM SlotAccounting == Spec => []SlotsAccounted
<1>1. IInv => SlotsAccounted
  BY DEF IInv
<1>2. QED
  BY <1>1, Invariance, PTL

\* Never more than runner.capacity jobs execute, and one under PollOnce.
THEOREM CapacityTheorem == Spec => []CapacityRespected
<1>1. ASSUME IInv PROVE CapacityRespected
  <2>1. /\ IsFiniteSet(In(HolderStages)) /\ IsFiniteSet(In(GoroutineStages))
        /\ Cardinality(In(HolderStages)) \in Nat /\ Cardinality(In(BodyStages)) \in Nat
        /\ Cardinality(In(GoroutineStages)) \in Nat
    BY StagesFinite DEF In
  <2>2. In(BodyStages) \subseteq In(HolderStages) /\ In(BodyStages) \subseteq In(GoroutineStages)
    BY DEF In, AtStage, BodyStages, HolderStages, GoroutineStages
  <2>3. /\ Cardinality(In(BodyStages)) <= Cardinality(In(HolderStages))
        /\ Cardinality(In(BodyStages)) <= Cardinality(In(GoroutineStages))
    BY <2>1, <2>2, FS_Subset
  <2>4. CASE ~Once
    BY <1>1, <2>1, <2>3, <2>4, CapacityAssumption
       DEF IInv, SlotsAccounted, SemBound, CapacityRespected, TypeOK
  <2>5. CASE Once
    <3>1. Cardinality(In(GoroutineStages)) <= 1
      <4>1. CASE In(GoroutineStages) = {}
        <5>1. Cardinality({}) = 0
          BY FS_EmptySet
        <5>2. QED
          BY <4>1, <5>1
      <4>2. CASE \E d \in Deliveries : In(GoroutineStages) = {d}
        <5>1. PICK d \in Deliveries : In(GoroutineStages) = {d}
          BY <4>2
        <5>2. Cardinality({d}) = 1
          BY FS_Singleton
        <5>3. QED
          BY <5>1, <5>2
      <4>3. QED
        BY <1>1, <2>5, <4>1, <4>2 DEF IInv, OnceInv
    <3>2. QED
      BY <2>1, <2>3, <2>5, <3>1 DEF CapacityRespected
  <2>6. QED
    BY <2>4, <2>5
<1>2. QED
  BY <1>1, Invariance, PTL

\* Two deliveries of one task are never executed at the same time.
THEOREM NoDuplicateTheorem == Spec => []NoDuplicateRun
<1>1. IInv => NoDuplicateRun
  BY DEF IInv
<1>2. QED
  BY <1>1, Invariance, PTL

\* runningTasks and runningCount always describe the jobs that execute.
THEOREM BookkeepingTheorem == Spec => []RunningBookkeeping
<1>1. IInv => RunningBookkeeping
  BY DEF IInv
<1>2. QED
  BY <1>1, Invariance, PTL

\* A closed done channel, and a stopped process, mean that no job is left.
THEOREM DrainTheorem == Spec => []DoneMeansDrained
<1>1. ASSUME IInv PROVE DoneMeansDrained
  <2>1. ASSUME loop = "closed", ~Once PROVE In(GoroutineStages) = {}
    <3>1. Cardinality(In(GoroutineStages)) = 0
      BY <1>1, <2>1 DEF IInv, ClosedInv, WgAccounted
    <3>2. IsFiniteSet(In(GoroutineStages))
      BY StagesFinite DEF In
    <3>3. QED
      BY <3>1, <3>2, FS_EmptySet
  <2>2. ASSUME loop = "closed", Once PROVE In(GoroutineStages) = {}
    BY <1>1, <2>2 DEF IInv, OnceInv
  <2>3. QED
    BY <1>1, <2>1, <2>2 DEF IInv, DaemonInv, DoneMeansDrained
<1>2. QED
  BY <1>1, Invariance, PTL

\* Jobs are cancelled only by a shutdown that ran out of time before the
\* graceful one had completed.
THEOREM CancelTheorem == Spec => []JobsCancelledOnlyWhenOverdue
<1>1. IInv => JobsCancelledOnlyWhenOverdue
  BY DEF IInv, DaemonInv
<1>2. QED
  BY <1>1, Invariance, PTL

\* Slots, capacity, duplicates and books are right, for every capacity and any
\* number of deliveries.
THEOREM AdmissionTheorem == Spec => []AdmissionIsRight
BY SlotAccounting, CapacityTheorem, NoDuplicateTheorem, BookkeepingTheorem, PTL
   DEF AdmissionIsRight

\* A shutdown waits for the jobs, or cancels them because it is overdue.
THEOREM ShutdownTheorem == Spec => []ShutdownIsOrderly
BY DrainTheorem, CancelTheorem, PTL DEF ShutdownIsOrderly

\* A run-once daemon takes at most one task, and has tried to remove an
\* ephemeral registration before that task starts.
THEOREM OnceTheorem == Spec => []OnceIsSpent
<1>1. ASSUME TakenInv PROVE OneTaskOnly
  <2> SUFFICES ASSUME Once PROVE Cardinality(In(ReceivedStages)) <= 1
    BY DEF OneTaskOnly
  <2>1. CASE In(ReceivedStages) = {}
    <3>1. Cardinality({}) = 0
      BY FS_EmptySet
    <3>2. QED
      BY <2>1, <3>1
  <2>2. ASSUME NEW d \in In(ReceivedStages) PROVE Cardinality(In(ReceivedStages)) <= 1
    <3>1. In(ReceivedStages) = {d}
      BY <1>1, <2>2 DEF TakenInv
    <3>2. Cardinality({d}) = 1
      BY FS_Singleton
    <3>3. QED
      BY <3>1, <3>2
  <2>3. QED
    BY <2>1, <2>2
<1>2. TakenInv => OnceIsSpent
  BY <1>1 DEF OnceIsSpent, TakenInv
<1>3. QED
  BY <1>2, TakenInvariance, PTL

\* No step issues a fetch unless the last health check that was made passed.
THEOREM HealthGateTheorem == Spec => NoFetchWhileUnhealthy
<1>1. ASSUME HealthInv, [Next]_vars
      PROVE  [rpc = "none" /\ rpc' # "none" => (HealthEnabled => health = "ready")]_vars
  <2> SUFFICES ASSUME rpc = "none", rpc' # "none", HealthEnabled PROVE health = "ready"
    OBVIOUS
  <2> USE DEF fetchVars
  <2>1. CASE LoopStep
    BY <1>1, <2>1 DEF HealthInv, LoopStep, Acquire, AcquireCancelled, CheckAvailability, IdleRelease,
                BackoffOver, BackoffCancelled, Drain, FetchSend, FetchFailed, FetchEmpty,
                FetchUnregistered, FetchTaskPoll, FetchTaskOnce
  <2>2. ASSUME NEW d \in Deliveries, JobStep(d) PROVE UNCHANGED rpc
    BY <2>2 DEF JobStep, RunAdmit, RunRefuse, RunCount, RunFinish, RunForget, ReleaseToken,
                GoroutineDone, OnceReturn
  <2>3. CASE DaemonStep \/ Environment \/ UNCHANGED vars
    BY <2>3 DEF DaemonStep, BeginShutdown, ShutdownGraceful, ShutdownExpired, ShutdownRecheck,
                ShutdownJobs, ShutdownForced, Environment, SrvEnqueue, SrvAnswer, Signal,
                ShutdownTimeout, vars
  <2>4. QED
    BY <1>1, <2>1, <2>2, <2>3 DEF Next, Terminated
<1>2. QED
  BY <1>1, TakenInvariance, PTL DEF Spec, NoFetchWhileUnhealthy

=============================================================================
