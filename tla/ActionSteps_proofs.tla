------------------------- MODULE ActionSteps_proofs --------------------------
(* Proofs of the safety properties of ActionSteps, for every choice of     *)
(* steps, composite actions, conditions and writers, and of ActionFetch,   *)
(* for every number of jobs, processes, commits and events.                *)
EXTENDS ActionSteps, ActionFetch, Integers, SequenceTheorems, TLAPS

-----------------------------------------------------------------------------
(* Steps and their places.                                                 *)

\* Every scope is a sequence of steps.
LEMMA ScopesAreSequences ==
    ASSUME NEW sc \in Scope
    PROVE  StepsOf(sc) \in Seq(Step)
BY StepsAssumption DEF StepsAssumption

\* A step of a scope has that scope as its parent and its place there as ID.
LEMMA PlaceOfStep ==
    ASSUME NEW sc \in Scope, NEW k \in DOMAIN StepsOf(sc)
    PROVE  /\ StepsOf(sc)[k] \in Step
           /\ Parent(StepsOf(sc)[k]) = sc
           /\ ID(StepsOf(sc)[k]) = k
<1> DEFINE s == StepsOf(sc)[k]
<1>1. s \in ToSet(StepsOf(sc))
  BY DEF ToSet
<1>2. s \in Step
  BY ScopesAreSequences
<1>3. Parent(s) = sc
  <2>1. CASE sc = "job"
    BY <1>1, <2>1 DEF Parent, StepsOf
  <2>2. CASE sc # "job"
    <3>1. sc \in Composites /\ s \in ToSet(Children[sc])
      BY <1>1, <2>2 DEF Scope, StepsOf
    <3>2. s \notin ToSet(Top)
      BY <1>1, <2>2, StepsAssumption DEF StepsAssumption, Scope, StepsOf
    <3>3. ASSUME NEW c \in Composites, s \in ToSet(Children[c]) PROVE c = sc
      <4>1. c # "job" /\ c \in Scope
        BY StepsAssumption DEF StepsAssumption, Step, Scope
      <4>2. s \in ToSet(StepsOf(c))
        BY <3>3, <4>1 DEF StepsOf
      <4>3. QED
        BY <1>1, <4>1, <4>2, StepsAssumption DEF StepsAssumption
    <3>4. QED
      BY <3>1, <3>2, <3>3 DEF Parent
  <2>3. QED
    BY <2>1, <2>2
<1>4. ID(s) = k
  <2>1. \A i \in DOMAIN StepsOf(sc) : StepsOf(sc)[i] = s => i = k
    BY StepsAssumption DEF StepsAssumption, IsInjective
  <2>2. QED
    BY <1>3, <2>1 DEF ID
<1>5. QED
  BY <1>2, <1>3, <1>4

\* Every step has a place in its scope.
LEMMA StepHasPlace ==
    ASSUME NEW s \in Step
    PROVE  /\ Parent(s) \in Scope
           /\ ID(s) \in DOMAIN StepsOf(Parent(s))
           /\ StepsOf(Parent(s))[ID(s)] = s
<1>1. PICK sc \in Scope : s \in ToSet(StepsOf(sc))
  <2>1. CASE s \in ToSet(Top)
    BY <2>1 DEF Scope, StepsOf
  <2>2. CASE s \notin ToSet(Top)
    <3>1. PICK c \in Composites : s \in ToSet(Children[c])
      BY <2>2 DEF Step
    <3>2. c # "job" /\ c \in Scope
      BY StepsAssumption DEF StepsAssumption, Step, Scope
    <3>3. QED
      BY <3>1, <3>2 DEF StepsOf
  <2>3. QED
    BY <2>1, <2>2
<1>2. PICK k \in DOMAIN StepsOf(sc) : StepsOf(sc)[k] = s
  BY <1>1 DEF ToSet
<1>3. QED
  BY <1>2, PlaceOfStep

\* Two steps with the same parent and the same ID are one.
LEMMA PlacesAreUnique ==
    ASSUME NEW s \in Step, NEW t \in Step, Parent(s) = Parent(t), ID(s) = ID(t)
    PROVE  s = t
BY StepHasPlace

\* Composite actions are steps of the job; the parent of any other scope's step is one.
LEMMA TwoLevels ==
    ASSUME NEW s \in Step
    PROVE  /\ s \in Composites => Parent(s) = "job"
           /\ Parent(s) # "job" => Parent(s) \in Composites /\ Parent(s) \in Step /\ s \notin Composites
           /\ Parent(s) = "job" => StepsOf(Parent(s)) = Top
           /\ Parent(s) # "job" => StepsOf(Parent(s)) = Children[Parent(s)]
           /\ Parent(s) # s
<1>1. s \in Composites => Parent(s) = "job"
  BY StepsAssumption DEF StepsAssumption, Parent
<1>2. Parent(s) # "job" => Parent(s) \in Composites
  BY StepHasPlace DEF Scope
<1>3. Parent(s) # s
  BY <1>1, <1>2, StepsAssumption DEF StepsAssumption
<1>4. Composites \subseteq Step
  BY StepsAssumption DEF StepsAssumption
<1>5. QED
  BY <1>1, <1>2, <1>3, <1>4 DEF StepsOf

-----------------------------------------------------------------------------
(* Positions.                                                              *)

\* The turn of a step in a stage.
Rank(stage, s) == IF stage = "post" THEN Len(StepsOf(Parent(s))) + 1 - ID(s) ELSE ID(s)

TopAt(p) == Nth(p.stage, Top, p.i)

\* At position p the composite action c has been entered.
Inside(p, c) == p.j >= 1 /\ TopAt(p) = c

\* At position p step s has not ended in the current stage.
Ahead(p, s) ==
    IF Parent(s) = "job" THEN Rank(p.stage, s) >= p.i
    ELSE \/ Rank(p.stage, Parent(s)) > p.i
         \/ Rank(p.stage, Parent(s)) = p.i /\ Rank(p.stage, s) >= p.j

PositionOK(p) ==
    /\ p \in [stage : Stage \cup {"setup", "end"}, i : 1 .. Len(Top) + 1, j : Nat]
    /\ p.stage = "setup" => p.i = 1
    /\ p.stage = "end" => p.i = Len(Top) + 1
    /\ p.j # 0 => /\ p.stage \in Stage /\ p.i <= Len(Top)
                  /\ TopAt(p) \in Composites /\ p.j <= Len(Children[TopAt(p)]) + 1

\* Ranks number the steps of a scope.
LEMMA RankNumbers ==
    ASSUME NEW s \in Step, NEW stage
    PROVE  /\ Rank(stage, s) \in 1 .. Len(StepsOf(Parent(s)))
           /\ Len(StepsOf(Parent(s))) \in Nat
           /\ \A t \in Step : Parent(t) = Parent(s) /\ Rank(stage, t) = Rank(stage, s) => t = s
           /\ \A t \in Step : Parent(t) = Parent(s) =>
                (ID(s) < ID(t) <=> IF stage = "post" THEN Rank(stage, t) < Rank(stage, s)
                                   ELSE Rank(stage, s) < Rank(stage, t))
<1>1. \A t \in Step : ID(t) \in 1 .. Len(StepsOf(Parent(t))) /\ Len(StepsOf(Parent(t))) \in Nat
  BY StepHasPlace, ScopesAreSequences
<1>2. QED
  BY <1>1, PlacesAreUnique DEF Rank

\* The step that is k-th in a stage has rank k.
LEMMA NthHasRank ==
    ASSUME NEW sc \in Scope, NEW stage, NEW k \in 1 .. Len(StepsOf(sc))
    PROVE  /\ Nth(stage, StepsOf(sc), k) \in Step
           /\ Parent(Nth(stage, StepsOf(sc), k)) = sc
           /\ Rank(stage, Nth(stage, StepsOf(sc), k)) = k
<1>1. DOMAIN StepsOf(sc) = 1 .. Len(StepsOf(sc)) /\ Len(StepsOf(sc)) \in Nat
  BY ScopesAreSequences
<1> DEFINE m == IF stage = "post" THEN Len(StepsOf(sc)) + 1 - k ELSE k
<1>2. m \in DOMAIN StepsOf(sc) /\ Nth(stage, StepsOf(sc), k) = StepsOf(sc)[m]
  BY <1>1 DEF Nth
<1>3. QED
  BY <1>1, <1>2, PlaceOfStep DEF Rank

\* The step of the job at a position.
LEMMA TopHasRank ==
    ASSUME NEW p, PositionOK(p), p.i <= Len(Top)
    PROVE  TopAt(p) \in Step /\ Parent(TopAt(p)) = "job" /\ Rank(p.stage, TopAt(p)) = p.i
<1>1. "job" \in Scope /\ StepsOf("job") = Top
  BY DEF Scope, StepsOf
<1>2. p.i \in 1 .. Len(StepsOf("job"))
  BY <1>1, ScopesAreSequences DEF PositionOK
<1>3. QED
  BY <1>1, <1>2, NthHasRank DEF TopAt

\* A step that the position is at: of the job, or of the composite action that is open.
LEMMA StepAtPosition ==
    ASSUME NEW s, PositionOK(pc), At(pc.stage, "step", s)
    PROVE  /\ s \in Step \ Composites /\ pc.stage \in Stage /\ pc.i <= Len(Top)
           /\ \/ Parent(s) = "job" /\ pc.j = 0 /\ Rank(pc.stage, s) = pc.i
              \/ /\ Parent(s) = TopAt(pc) /\ Parent(s) \in Composites /\ Parent(s) # "job"
                 /\ Rank(pc.stage, Parent(s)) = pc.i
                 /\ pc.j \in 1 .. Len(Children[Parent(s)]) /\ Rank(pc.stage, s) = pc.j
<1>1. pc.stage \in Stage /\ pc.i <= Len(Top) /\ Entry = <<"step", s>>
  BY DEF At
<1>2. TopAt(pc) = TopStep /\ TopAt(pc) \in Step /\ Parent(TopAt(pc)) = "job" /\ Rank(pc.stage, TopAt(pc)) = pc.i
  BY <1>1, TopHasRank DEF TopAt, TopStep
<1>3. CASE pc.j = 0
  BY <1>1, <1>2, <1>3 DEF Entry
<1>4. CASE pc.j # 0
  <2>1. TopAt(pc) \in Composites /\ TopAt(pc) \in Scope /\ TopAt(pc) # "job"
    BY <1>2, <1>4, StepsAssumption DEF PositionOK, Scope, StepsAssumption
  <2>2. StepsOf(TopAt(pc)) = Children[TopAt(pc)] /\ Len(Children[TopAt(pc)]) \in Nat
    BY <2>1, ScopesAreSequences DEF StepsOf
  <2>3. pc.j \in 1 .. Len(Children[TopAt(pc)]) /\ s = Nth(pc.stage, Children[TopAt(pc)], pc.j)
    BY <1>1, <1>2, <1>4, <2>2 DEF Entry, PositionOK
  <2>4. s \in Step /\ Parent(s) = TopAt(pc) /\ Rank(pc.stage, s) = pc.j
    BY <2>1, <2>2, <2>3, NthHasRank
  <2>5. QED
    BY <1>1, <1>2, <2>1, <2>3, <2>4, TwoLevels
<1>5. QED
  BY <1>3, <1>4

\* A composite action that the position is at the start of.
LEMMA OpenAtPosition ==
    ASSUME NEW c, PositionOK(pc), At(pc.stage, "open", c)
    PROVE  /\ c \in Composites /\ c \in Step /\ pc.stage \in Stage /\ pc.i <= Len(Top)
           /\ Parent(c) = "job" /\ pc.j = 0 /\ Rank(pc.stage, c) = pc.i /\ TopAt(pc) = c
<1>1. pc.stage \in Stage /\ pc.i <= Len(Top) /\ Entry = <<"open", c>>
  BY DEF At
<1>2. TopAt(pc) = TopStep /\ TopAt(pc) \in Step /\ Parent(TopAt(pc)) = "job" /\ Rank(pc.stage, TopAt(pc)) = pc.i
  BY <1>1, TopHasRank DEF TopAt, TopStep
<1>3. pc.j = 0 /\ c = TopStep /\ c \in Composites
  BY <1>1 DEF Entry
<1>4. QED
  BY <1>1, <1>2, <1>3

\* A composite action that the position is at the end of.
LEMMA CloseAtPosition ==
    ASSUME NEW c, PositionOK(pc), At(pc.stage, "close", c)
    PROVE  /\ c \in Composites /\ c \in Step /\ pc.stage \in Stage /\ pc.i <= Len(Top)
           /\ Parent(c) = "job" /\ Rank(pc.stage, c) = pc.i /\ TopAt(pc) = c
           /\ Inside(pc, c) /\ pc.j = Len(Children[c]) + 1
<1>1. pc.stage \in Stage /\ pc.i <= Len(Top) /\ Entry = <<"close", c>>
  BY DEF At
<1>2. TopAt(pc) = TopStep /\ TopAt(pc) \in Step /\ Parent(TopAt(pc)) = "job" /\ Rank(pc.stage, TopAt(pc)) = pc.i
  BY <1>1, TopHasRank DEF TopAt, TopStep
<1>3. pc.j # 0 /\ ~(pc.j <= Len(Children[TopStep])) /\ c = TopStep
  BY <1>1 DEF Entry
<1>4. c \in Composites /\ pc.j <= Len(Children[c]) + 1
  BY <1>2, <1>3 DEF PositionOK
<1>5. Len(Children[c]) \in Nat
  BY <1>4, ScopesAreSequences, StepsAssumption DEF StepsOf, Scope, StepsAssumption
<1>6. pc.j \in Nat
  BY DEF PositionOK
<1>7. pc.j = Len(Children[c]) + 1 /\ pc.j >= 1
  BY <1>2, <1>3, <1>4, <1>5, <1>6
<1>8. QED
  BY <1>1, <1>2, <1>3, <1>4, <1>7 DEF Inside


\* The position moves past step s.
Passes(s) ==
    /\ PositionOK(pc') /\ pc'.stage = pc.stage
    /\ Ahead(pc, s) /\ ~Ahead(pc', s)
    /\ \A t \in Step : Ahead(pc', t) => Ahead(pc, t)
    /\ \A t \in Step : Parent(t) = "job" /\ Ahead(pc, t) /\ ~Ahead(pc', t) /\ pc.stage # "pre" => t = s
    /\ \A t \in Step : /\ Ahead(pc, t) /\ ~Ahead(pc', t)
                       /\ pc.stage = "post" \/ (pc.stage = "main" /\ CtxErr = "none")
                       => t = s \/ Parent(t) = s
    /\ \A c \in Composites : Inside(pc', c) => Inside(pc, c) /\ Parent(s) = c
    /\ Parent(s) # "job" => Inside(pc', Parent(s)) /\ Inside(pc, Parent(s)) /\ pc'.i = pc.i
    /\ Parent(s) = "job" => pc'.j = 0

\* No step is ahead once the last one has been passed.
LEMMA NoneAhead ==
    ASSUME NEW p, PositionOK(p), p.i > Len(Top), NEW s \in Step
    PROVE  ~Ahead(p, s)
<1>1. Len(Top) \in Nat /\ p.i \in Nat
  BY ScopesAreSequences DEF PositionOK, Scope, StepsOf
<1>2. Parent(s) = "job" => Rank(p.stage, s) \in 1 .. Len(Top)
  BY RankNumbers, TwoLevels
<1>3. Parent(s) # "job" => Rank(p.stage, Parent(s)) \in 1 .. Len(Top)
  BY RankNumbers, TwoLevels
<1>4. QED
  BY <1>1, <1>2, <1>3 DEF Ahead

\* Every step is ahead at the start of a stage.
LEMMA AllAhead ==
    ASSUME NEW p, p.i = 1, p.j = 0, NEW s \in Step
    PROVE  Ahead(p, s)
<1>1. Rank(p.stage, s) \in Nat /\ Rank(p.stage, s) >= 1
  BY RankNumbers
<1>2. Parent(s) # "job" => Rank(p.stage, Parent(s)) \in Nat /\ Rank(p.stage, Parent(s)) >= 1
  BY RankNumbers, TwoLevels
<1>3. QED
  BY <1>1, <1>2 DEF Ahead

\* A step of a composite action is ahead only if the composite action is.
LEMMA ParentAhead ==
    ASSUME NEW p, NEW s \in Step, Parent(s) # "job", Ahead(p, s), PositionOK(p)
    PROVE  Ahead(p, Parent(s))
<1>1. Parent(s) \in Step /\ Parent(Parent(s)) = "job"
  BY TwoLevels
<1>2. Rank(p.stage, Parent(s)) \in Nat /\ p.i \in Nat
  BY <1>1, RankNumbers DEF PositionOK
<1>3. QED
  BY <1>1, <1>2 DEF Ahead

\* Steps that come after an unfinished one of the same scope are ahead too.
LEMMA AheadUpwards ==
    ASSUME NEW p, PositionOK(p), NEW s \in Step, NEW t \in Step, Ahead(p, s),
           IF p.stage = "post" THEN Before(t, s) ELSE Before(s, t)
    PROVE  Ahead(p, t)
<1>1. Parent(s) = Parent(t) /\ Rank(p.stage, s) < Rank(p.stage, t)
  BY RankNumbers DEF Before
<1>2. Rank(p.stage, s) \in Nat /\ Rank(p.stage, t) \in Nat /\ p.i \in Nat /\ p.j \in Nat
  BY RankNumbers DEF PositionOK
<1>3. QED
  BY <1>1, <1>2 DEF Ahead

\* Going on after a step of the job, or after the end of a composite action.
LEMMA JobStepPasses ==
    ASSUME PositionOK(pc), NEW s \in Step, NEW e, Parent(s) = "job", Rank(pc.stage, s) = pc.i,
           pc.stage \in Stage, pc.i <= Len(Top), TopAt(pc) = s, Proceed(e)
    PROVE  Passes(s)
<1>1. Len(Top) \in Nat /\ pc.i \in Nat /\ pc.j \in Nat
  BY ScopesAreSequences DEF PositionOK, Scope, StepsOf
<1>2. /\ pc'.stage = pc.stage /\ pc'.j = 0
      /\ pc'.i = pc.i + 1 \/ (pc.stage = "pre" /\ pc'.i = Len(Top) + 1)
      /\ pc' \in [stage : Stage \cup {"setup", "end"}, i : 1 .. Len(Top) + 1, j : Nat]
  <2> DEFINE k == IF pc.stage = "pre" /\ (e # "none" \/ CtxErr # "none") THEN Len(Top) + 1 ELSE pc.i + 1
  <2>1. k \in 1 .. Len(Top) + 1 /\ (k = pc.i + 1 \/ (pc.stage = "pre" /\ k = Len(Top) + 1))
    BY <1>1
  <2>2. pc' = [pc EXCEPT !.i = k, !.j = 0]
    BY DEF Proceed, Goto
  <2>3. pc \in [stage : Stage \cup {"setup", "end"}, i : 1 .. Len(Top) + 1, j : Nat]
    BY DEF PositionOK
  <2> HIDE DEF k
  <2>4. pc'.stage = pc.stage /\ pc'.i = k /\ pc'.j = 0
    BY <2>1, <2>2, <2>3
  <2>5. pc' \in [stage : Stage \cup {"setup", "end"}, i : 1 .. Len(Top) + 1, j : Nat]
    BY <2>1, <2>2, <2>3
  <2>6. QED
    BY <2>1, <2>4, <2>5
<1>3. PositionOK(pc')
  BY <1>1, <1>2 DEF PositionOK, Stage
<1>4. \A t \in Step : Rank(pc.stage, t) \in Nat /\ Rank(pc.stage, t) >= 1
  BY RankNumbers
<1>5. \A t \in Step : Parent(t) = "job" => Rank(pc.stage, t) <= Len(Top)
  BY RankNumbers, TwoLevels
<1>6. \A t \in Step : Parent(t) # "job" => Parent(t) \in Step /\ Parent(Parent(t)) = "job"
  BY TwoLevels
<1>7. \A t \in Step : Parent(t) = "job" /\ Rank(pc.stage, t) = pc.i => t = s
  BY RankNumbers
<1>8. Ahead(pc, s) /\ ~Ahead(pc', s)
  BY <1>1, <1>2, <1>4 DEF Ahead
<1>9. ASSUME NEW t \in Step, Ahead(pc', t) PROVE Ahead(pc, t)
  <2>1. CASE Parent(t) = "job"
    BY <1>1, <1>2, <1>4, <1>5, <1>9, <2>1 DEF Ahead
  <2>2. CASE Parent(t) # "job"
    BY <1>1, <1>2, <1>4, <1>5, <1>6, <1>9, <2>2 DEF Ahead
  <2>3. QED
    BY <2>1, <2>2
<1>10. ASSUME NEW t \in Step, Ahead(pc, t), ~Ahead(pc', t), pc.stage # "pre"
       PROVE  t = s \/ Parent(t) = s
  <2>1. CASE Parent(t) = "job"
    BY <1>1, <1>2, <1>4, <1>7, <1>10, <2>1 DEF Ahead
  <2>2. CASE Parent(t) # "job"
    BY <1>1, <1>2, <1>4, <1>6, <1>7, <1>10, <2>2 DEF Ahead
  <2>3. QED
    BY <2>1, <2>2
<1>11. \A c \in Composites : ~Inside(pc', c)
  BY <1>2 DEF Inside
<1>12. s # "job"
  BY StepsAssumption DEF StepsAssumption
<1>13. QED
  BY <1>2, <1>3, <1>8, <1>9, <1>10, <1>11, <1>12 DEF Passes


\* Going on after a step of a composite action.
LEMMA ChildPasses ==
    ASSUME PositionOK(pc), NEW s \in Step, NEW e, Parent(s) # "job", Parent(s) = TopAt(pc),
           Rank(pc.stage, Parent(s)) = pc.i, pc.stage \in Stage, pc.i <= Len(Top),
           pc.j \in 1 .. Len(Children[Parent(s)]), Rank(pc.stage, s) = pc.j, AfterChild(s, e)
    PROVE  Passes(s)
<1> DEFINE L == Len(Children[Parent(s)])
           k == IF CtxErr # "none" /\ pc.stage # "post" THEN L + 1 ELSE pc.j + 1
<1>1. Parent(s) \in Composites /\ Parent(s) \in Step /\ Parent(Parent(s)) = "job" /\ StepsOf(Parent(s)) = Children[Parent(s)]
  BY TwoLevels
<1>2. L \in Nat /\ pc.i \in Nat /\ pc.j \in Nat
  BY <1>1, RankNumbers DEF PositionOK
<1>3. k \in 1 .. L + 1 /\ k > pc.j /\ (pc.stage = "post" \/ CtxErr = "none" => k = pc.j + 1)
  BY <1>2
<1>4. pc' = [pc EXCEPT !.i = pc.i, !.j = k]
  BY DEF AfterChild, Goto
<1> HIDE DEF k, L
<1>5. pc \in [stage : Stage \cup {"setup", "end"}, i : 1 .. Len(Top) + 1, j : Nat]
  BY DEF PositionOK
<1>6. pc'.stage = pc.stage /\ pc'.i = pc.i /\ pc'.j = k
  BY <1>4, <1>5
<1>7. k \in Nat
  BY <1>2, <1>3
<1>8. pc' \in [stage : Stage \cup {"setup", "end"}, i : 1 .. Len(Top) + 1, j : Nat]
  BY <1>4, <1>5, <1>7
<1>9. TopAt(pc') = Parent(s)
  BY <1>6 DEF TopAt
<1>10. PositionOK(pc')
  BY <1>1, <1>2, <1>3, <1>6, <1>8, <1>9 DEF PositionOK, Stage, L
<1>11. \A t \in Step : Rank(pc.stage, t) \in Nat /\ Rank(pc.stage, t) >= 1
  BY RankNumbers
<1>12. Ahead(pc, s) /\ ~Ahead(pc', s)
  BY <1>1, <1>2, <1>3, <1>6, <1>7, <1>11 DEF Ahead
<1>13. \A t \in Step : Parent(t) # "job" => Parent(t) \in Step /\ Parent(Parent(t)) = "job"
  BY TwoLevels
<1>14. ASSUME NEW t \in Step, Ahead(pc', t) PROVE Ahead(pc, t)
  BY <1>2, <1>3, <1>6, <1>7, <1>11, <1>13, <1>14 DEF Ahead
<1>15. ASSUME NEW t \in Step, Ahead(pc, t), ~Ahead(pc', t)
       PROVE  /\ Parent(t) # "job"
              /\ pc.stage = "post" \/ CtxErr = "none" => t = s
  <2>1. Parent(t) # "job" /\ Rank(pc.stage, Parent(t)) = pc.i /\ Rank(pc.stage, t) >= pc.j /\ ~(Rank(pc.stage, t) >= k)
    BY <1>2, <1>6, <1>7, <1>11, <1>13, <1>15 DEF Ahead
  <2>2. Parent(t) = Parent(s)
    BY <2>1, <1>1, <1>13, RankNumbers
  <2>3. pc.stage = "post" \/ CtxErr = "none" => Rank(pc.stage, t) = Rank(pc.stage, s)
    BY <2>1, <1>2, <1>3, <1>11
  <2>4. QED
    BY <2>1, <2>2, <2>3, RankNumbers
<1>16. \A c \in Composites : Inside(pc', c) <=> c = Parent(s)
  BY <1>2, <1>3, <1>6, <1>7, <1>9 DEF Inside
<1>17. Inside(pc, Parent(s))
  BY <1>2 DEF Inside
<1>18. QED
  BY <1>1, <1>6, <1>10, <1>12, <1>14, <1>15, <1>16, <1>17 DEF Passes

\* The end of a stage of a step moves the position past it.
LEMMA AfterPasses ==
    ASSUME PositionOK(pc), NEW s, NEW e, Here(s), After(s, e)
    PROVE  s \in Step /\ pc.stage \in Stage /\ pc.i <= Len(Top) /\ Passes(s)
<1>1. CASE At(pc.stage, "step", s)
  <2>1. /\ s \in Step \ Composites /\ pc.stage \in Stage /\ pc.i <= Len(Top)
        /\ \/ Parent(s) = "job" /\ pc.j = 0 /\ Rank(pc.stage, s) = pc.i
           \/ /\ Parent(s) = TopAt(pc) /\ Parent(s) \in Composites /\ Parent(s) # "job"
              /\ Rank(pc.stage, Parent(s)) = pc.i
              /\ pc.j \in 1 .. Len(Children[Parent(s)]) /\ Rank(pc.stage, s) = pc.j
    BY <1>1, StepAtPosition
  <2>2. CASE Parent(s) = "job"
    <3>1. TopAt(pc) = s
      BY <2>1, <2>2, TopHasRank, RankNumbers
    <3>2. Proceed(e)
      BY <2>2 DEF After
    <3>3. Passes(s)
      BY <2>1, <2>2, <3>1, <3>2, JobStepPasses
    <3>4. QED
      BY <2>1, <3>3
  <2>3. CASE Parent(s) # "job"
    <3>1. AfterChild(s, e)
      BY <2>3 DEF After
    <3>2. QED
      BY <2>1, <2>3, <3>1, ChildPasses
  <2>4. QED
    BY <2>2, <2>3
<1>2. CASE At(pc.stage, "open", s)
  <2>1. /\ s \in Step /\ pc.stage \in Stage /\ pc.i <= Len(Top)
        /\ Parent(s) = "job" /\ Rank(pc.stage, s) = pc.i /\ TopAt(pc) = s
    BY <1>2, OpenAtPosition
  <2>2. Proceed(e)
    BY <2>1 DEF After
  <2>3. QED
    BY <2>1, <2>2, JobStepPasses
<1>3. QED
  BY <1>1, <1>2 DEF Here

\* The end of a composite action moves the position past it, and past it alone.
LEMMA ClosePasses ==
    ASSUME PositionOK(pc), NEW c, NEW e, At(pc.stage, "close", c), Proceed(e)
    PROVE  /\ Passes(c)
           /\ \A t \in Step : Parent(t) = c => ~Ahead(pc, t)
<1>1. /\ c \in Composites /\ c \in Step /\ pc.stage \in Stage /\ pc.i <= Len(Top)
      /\ Parent(c) = "job" /\ Rank(pc.stage, c) = pc.i /\ TopAt(pc) = c
      /\ Inside(pc, c) /\ pc.j = Len(Children[c]) + 1
  BY CloseAtPosition
<1>2. ASSUME NEW t \in Step, Parent(t) = c PROVE ~Ahead(pc, t)
  <2>1. c # "job"
    BY <1>1, StepsAssumption DEF StepsAssumption
  <2>2. Rank(pc.stage, t) \in 1 .. Len(Children[c]) /\ Len(Children[c]) \in Nat
    BY <1>2, <2>1, RankNumbers, TwoLevels
  <2>3. pc.i \in Nat
    BY DEF PositionOK
  <2>4. QED
    BY <1>1, <1>2, <2>1, <2>2, <2>3 DEF Ahead
<1>3. QED
  BY <1>1, <1>2, JobStepPasses

\* Entering a composite action passes no step.
LEMMA EnterPasses ==
    ASSUME PositionOK(pc), NEW c, At(pc.stage, "open", c), Goto(pc.i, 1)
    PROVE  /\ PositionOK(pc') /\ pc'.stage = pc.stage
           /\ \A t \in Step : Ahead(pc', t) <=> Ahead(pc, t)
           /\ \A t \in Step : Parent(t) = c => Ahead(pc, t)
           /\ \A d \in Composites : ~Inside(pc, d) /\ (Inside(pc', d) <=> d = c)
           /\ pc'.j = 1
<1>1. /\ c \in Composites /\ c \in Step /\ pc.stage \in Stage /\ pc.i <= Len(Top)
      /\ Parent(c) = "job" /\ pc.j = 0 /\ Rank(pc.stage, c) = pc.i /\ TopAt(pc) = c
  BY OpenAtPosition
<1>2. pc \in [stage : Stage \cup {"setup", "end"}, i : 1 .. Len(Top) + 1, j : Nat]
  BY DEF PositionOK
<1>3. pc' = [pc EXCEPT !.i = pc.i, !.j = 1]
  BY DEF Goto
<1>4. /\ pc'.stage = pc.stage /\ pc'.i = pc.i /\ pc'.j = 1
      /\ pc' \in [stage : Stage \cup {"setup", "end"}, i : 1 .. Len(Top) + 1, j : Nat]
  BY <1>2, <1>3
<1>5. TopAt(pc') = c
  BY <1>1, <1>4 DEF TopAt
<1>6. Len(Children[c]) \in Nat
  BY <1>1, ScopesAreSequences, StepsAssumption DEF Scope, StepsOf, StepsAssumption
<1>7. PositionOK(pc')
  BY <1>1, <1>4, <1>5, <1>6 DEF PositionOK, Stage
<1>8. \A t \in Step : Rank(pc.stage, t) \in Nat /\ Rank(pc.stage, t) >= 1
  BY RankNumbers
<1>9. \A t \in Step : Ahead(pc', t) <=> Ahead(pc, t)
  BY <1>1, <1>4, <1>8 DEF Ahead
<1>10. c # "job"
  BY <1>1, StepsAssumption DEF StepsAssumption
<1>11. \A t \in Step : Parent(t) = c => Ahead(pc, t)
  BY <1>1, <1>8, <1>10 DEF Ahead
<1>12. \A d \in Composites : ~Inside(pc, d) /\ (Inside(pc', d) <=> d = c)
  BY <1>1, <1>4, <1>5 DEF Inside
<1>13. QED
  BY <1>4, <1>7, <1>9, <1>11, <1>12


-----------------------------------------------------------------------------
(* Types.                                                                  *)

Errs == {"none", "error", "cancel", "timeout"}
JobMarks == [cancelled : BOOLEAN, failed : BOOLEAN, err : BOOLEAN]

TypeOK ==
    /\ PositionOK(pc)
    /\ ctx \in [job : {"live", "cancel", "timeout"}, fresh : {"live", "expired"}, used : {"job", "fresh"}]
    /\ job \in JobMarks
    /\ cond \in [Step -> {"success", "failure", "always"}]
    /\ result \in [Step -> {"none", "success", "failure", "skipped"}]
    /\ opened \subseteq Composites /\ preStarted \subseteq Step /\ barred \subseteq Composites
    /\ childErr \in [Composites -> Errs]
    /\ download \in [NotPrepared -> {"ok", "fails"}]
    /\ ran \in Seq(Stage \X Step) /\ erred \subseteq Stage \X Step

\* The error of a context, and those a body may have, are errors.
LEMMA ErrsAreErrs ==
    ASSUME TypeOK
    PROVE  /\ CtxErr \in {"none", "cancel", "timeout"}
           /\ "error" \in Errs /\ "none" \in Errs
           /\ BodyErrs \subseteq Errs
           /\ \A s : Outcomes(s) \subseteq Errs
           /\ \A s : \A e \in Outcomes(s) : e = "cancel" => CtxErr = "cancel"
           /\ \A s : \A e \in Errs : Untolerated(s, e) \in Errs /\ Conclusion(s, e) \in {"success", "failure"}
<1>1. CtxErr \in {"none", "cancel", "timeout"}
  BY DEF TypeOK, CtxErr
<1>2. BodyErrs \subseteq Errs
  BY <1>1 DEF BodyErrs, Errs
<1>3. \A s : Outcomes(s) \subseteq Errs /\ \A e \in Outcomes(s) : e = "cancel" => CtxErr = "cancel"
  BY <1>2 DEF Outcomes, runPostStep, Errs, BodyErrs
<1>4. \A s : \A e \in Errs : Untolerated(s, e) \in Errs /\ Conclusion(s, e) \in {"success", "failure"}
  BY DEF Errs, Untolerated, Conclusion
<1>5. QED
  BY <1>1, <1>2, <1>3, <1>4 DEF Errs

\* Reporting an error keeps the marks of the job and only adds to them.
LEMMA ReportedMarks ==
    ASSUME TypeOK, NEW j \in JobMarks, NEW e \in Errs
    PROVE  /\ reportStepError(j, e) \in JobMarks
           /\ j.cancelled => reportStepError(j, e).cancelled
           /\ j.failed => reportStepError(j, e).failed
           /\ j.err => reportStepError(j, e).err
           /\ e \in {"error", "timeout"} => reportStepError(j, e).failed
           /\ e = "cancel" /\ CtxErr = "cancel" => reportStepError(j, e).cancelled
<1>1. CtxErr \in {"none", "cancel", "timeout"}
  BY ErrsAreErrs
<1>2. QED
  BY <1>1 DEF JobMarks, Errs, reportStepError, markInterrupted

\* Reported is reportStepError of some error.
LEMMA ReportedIsSome ==
    ASSUME TypeOK, NEW e \in Errs
    PROVE  /\ Reported(e) \in JobMarks
           /\ job.cancelled => Reported(e).cancelled
           /\ job.failed => Reported(e).failed
           /\ job.err => Reported(e).err
           /\ e \in {"error", "timeout"} => Reported(e).failed
           /\ e = "cancel" /\ CtxErr = "cancel" => Reported(e).cancelled
<1>1. CtxErr \in Errs
  BY ErrsAreErrs DEF Errs
<1>2. job \in JobMarks
  BY DEF TypeOK
<1>3. (IF e = "none" THEN CtxErr ELSE e) \in Errs
  BY <1>1
<1>4. QED
  BY <1>2, <1>3, ReportedMarks DEF Reported

\* What the end of a stage of a step leaves of the types.
LEMMA AfterTypes ==
    ASSUME TypeOK, NEW s, NEW e \in Errs, Here(s), After(s, e)
    PROVE  /\ PositionOK(pc') /\ job' \in JobMarks /\ childErr' \in [Composites -> Errs]
           /\ erred' \subseteq Stage \X Step
<1>1. s \in Step /\ pc.stage \in Stage /\ PositionOK(pc')
  BY AfterPasses DEF TypeOK, Passes
<1>2. erred' \subseteq Stage \X Step
  BY <1>1 DEF After, TypeOK
<1>3. CtxErr \in Errs
  BY ErrsAreErrs DEF Errs
<1>4. CASE Parent(s) = "job"
  BY <1>1, <1>2, <1>4, ReportedIsSome DEF After, TypeOK
<1>5. CASE Parent(s) # "job"
  <2>1. AfterChild(s, e)
    BY <1>5 DEF After
  <2>2. childErr' \in [Composites -> Errs]
    BY <1>3, <2>1 DEF AfterChild, TypeOK
  <2>3. job' \in JobMarks
    BY <2>1 DEF AfterChild, TypeOK, JobMarks
  <2>4. QED
    BY <1>1, <1>2, <2>2, <2>3
<1>6. QED
  BY <1>4, <1>5


-----------------------------------------------------------------------------
(* What the steps of the specification change.                             *)

\* At position p stage st of step s has not ended.
NotYet(p, st, s) ==
    \/ p.stage = "setup"
    \/ p.stage = "pre" /\ st # "pre"
    \/ p.stage = "main" /\ st = "post"
    \/ p.stage = st /\ Ahead(p, s)

\* Changes of stage and of the contexts.
Between ==
    \/ PrepareActions \/ MainStage \/ postStepsContext \/ JobEnds
    \/ CtxEnds \/ FreshExpires \/ runMainStepsAfterInterrupt

\* One stage of one step ends with error e.
StepEnds(s, e) ==
    /\ Here(s) /\ After(s, e)
    /\ e = "cancel" => CtxErr = "cancel"
    /\ \/ result' = result /\ (pc.stage = "main" => s \in NotPrepared /\ e # "none")
       \/ /\ pc.stage = "main"
          /\ \E r \in {"success", "failure", "skipped"} : result' = [result EXCEPT ![s] = r]
    /\ UNCHANGED <<ctx, cond, opened, download>>

\* The two ways in which a composite action is taken up.
Enters(c) ==
    /\ At(pc.stage, "open", c) /\ hasStage(pc.stage, c)
    /\ "none" \in Outcomes(c)
    /\ preStarted' = IF pc.stage = "pre" THEN preStarted \cup {c} ELSE preStarted
    /\ childErr' = [childErr EXCEPT ![c] = "none"] /\ Goto(pc.i, 1)
    /\ IF pc.stage = "post" THEN UNCHANGED <<opened, handVars>> ELSE getCompositeRunContext(c)
    /\ UNCHANGED <<job, result, erred, barred, ctx, cond, download, ran>>

EntryFails(c) ==
    /\ At(pc.stage, "open", c)
    /\ preStarted' = IF pc.stage = "pre" THEN preStarted \cup {c} ELSE preStarted
    /\ barred' = IF pc.stage = "post" THEN barred \cup {c} ELSE barred
    /\ \E e \in Outcomes(c) \ {"none"} : Recorded(c, Conclusion(c, e)) /\ After(c, Untolerated(c, e))
    /\ UNCHANGED <<ctx, cond, opened, download, ran, handVars>>

\* A composite action is entered, or fails to be.
LEMMA OpenSplits ==
    ASSUME NEW c, OpenComposite(c)
    PROVE  Enters(c) \/ EntryFails(c)
BY DEF OpenComposite, Enters, EntryFails, handVars

\* Each way of ending a stage of a step is an instance of StepEnds.
LEMMA StageEnds ==
    ASSUME TypeOK, NEW s,
           NoStage(s) \/ Unprepared(s) \/ Unevaluated(s) \/ Skipped(s) \/ RunStep(s) \/ EntryFails(s)
    PROVE  \E e \in Errs : StepEnds(s, e)
<1>1. CASE NoStage(s)
  BY <1>1, ErrsAreErrs DEF NoStage, StepEnds, hasStage, handVars
<1>2. CASE Unprepared(s)
  <2>1. s \in NotPrepared
    BY <1>2 DEF Unprepared, prepareAction
  <2>2. QED
    BY <1>2, <2>1, ErrsAreErrs DEF Unprepared, StepEnds, handVars
<1>3. CASE Unevaluated(s)
  BY <1>3, ErrsAreErrs DEF Unevaluated, StepEnds, Recorded, handVars
<1>4. CASE Skipped(s)
  BY <1>4, ErrsAreErrs DEF Skipped, StepEnds, Recorded, handVars
<1>5. CASE RunStep(s)
  <2>1. PICK e \in Outcomes(s) : Recorded(s, Conclusion(s, e)) /\ After(s, Untolerated(s, e))
    BY <1>5 DEF RunStep
  <2>2. /\ Untolerated(s, e) \in Errs /\ Conclusion(s, e) \in {"success", "failure"}
        /\ Untolerated(s, e) = "cancel" => CtxErr = "cancel"
    BY ErrsAreErrs DEF Untolerated
  <2>3. Here(s)
    BY <1>5 DEF RunStep, Here
  <2>4. StepEnds(s, Untolerated(s, e))
    BY <1>5, <2>1, <2>2, <2>3 DEF RunStep, StepEnds, Recorded
  <2>5. QED
    BY <2>2, <2>4
<1>6. CASE EntryFails(s)
  <2>1. PICK e \in Outcomes(s) : Recorded(s, Conclusion(s, e)) /\ After(s, Untolerated(s, e))
    BY <1>6 DEF EntryFails
  <2>2. /\ Untolerated(s, e) \in Errs /\ Conclusion(s, e) \in {"success", "failure"}
        /\ Untolerated(s, e) = "cancel" => CtxErr = "cancel"
    BY ErrsAreErrs DEF Untolerated
  <2>3. Here(s)
    BY <1>6 DEF EntryFails, Here
  <2>4. StepEnds(s, Untolerated(s, e))
    BY <1>6, <2>1, <2>2, <2>3 DEF EntryFails, StepEnds, Recorded
  <2>5. QED
    BY <2>2, <2>4
<1>7. QED
  BY <1>1, <1>2, <1>3, <1>4, <1>5, <1>6

\* Stages follow each other, and nothing but the contexts and the job's marks changes.
LEMMA BetweenMoves ==
    ASSUME TypeOK, Between
    PROVE  /\ PositionOK(pc')
           /\ pc' = pc \/ (pc.j = 0 /\ pc'.j = 0)
           /\ \A st \in Stage, s \in Step : NotYet(pc', st, s) => NotYet(pc, st, s)
           /\ UNCHANGED <<cond, result, opened, preStarted, childErr, download, ran, erred, barred, handVars>>
<1>1. Len(Top) \in Nat
  BY ScopesAreSequences DEF Scope, StepsOf
<1>2. PositionOK(pc)
  BY DEF TypeOK
<1>3. UNCHANGED <<cond, result, opened, preStarted, childErr, download, ran, erred, barred, handVars>>
  BY DEF Between, PrepareActions, MainStage, postStepsContext, JobEnds, CtxEnds, FreshExpires,
         runMainStepsAfterInterrupt, handVars
<1>4. CASE CtxEnds \/ FreshExpires \/ runMainStepsAfterInterrupt
  <2>1. pc' = pc
    BY <1>4 DEF CtxEnds, FreshExpires, runMainStepsAfterInterrupt
  <2>2. QED
    BY <1>2, <1>3, <2>1
<1>5. CASE PrepareActions
  <2>1. pc.stage = "setup" /\ pc.j = 0 /\ pc.i = 1
    BY <1>2, <1>5 DEF PrepareActions, PositionOK, Stage
  <2>2. pc' = [pc EXCEPT !.stage = "pre"] \/ pc' = [stage |-> "main", i |-> Len(Top) + 1, j |-> 0]
    BY <1>5 DEF PrepareActions
  <2>3. PositionOK(pc') /\ pc'.j = 0
    BY <1>1, <1>2, <2>1, <2>2 DEF PositionOK, Stage
  <2>4. \A st \in Stage, s \in Step : NotYet(pc, st, s)
    BY <2>1 DEF NotYet
  <2>5. QED
    BY <1>3, <2>1, <2>3, <2>4
<1>6. CASE MainStage
  <2>1. pc.stage = "pre" /\ pc.j = 0 /\ pc' = [stage |-> "main", i |-> 1, j |-> 0]
    BY <1>1, <1>2, <1>6 DEF MainStage, Over, PositionOK
  <2>2. PositionOK(pc') /\ pc'.j = 0 /\ pc'.stage = "main"
    BY <1>1, <2>1 DEF PositionOK, Stage
  <2>3. \A st \in Stage, s \in Step : NotYet(pc', st, s) => NotYet(pc, st, s)
    BY <2>1, <2>2 DEF NotYet
  <2>4. QED
    BY <1>3, <2>1, <2>2, <2>3
<1>7. CASE postStepsContext
  <2>1. pc.stage = "main" /\ pc.j = 0 /\ pc' = [stage |-> "post", i |-> 1, j |-> 0]
    BY <1>1, <1>2, <1>7 DEF postStepsContext, Over, PositionOK
  <2>2. PositionOK(pc') /\ pc'.j = 0 /\ pc'.stage = "post"
    BY <1>1, <2>1 DEF PositionOK, Stage
  <2>3. \A st \in Stage, s \in Step : NotYet(pc', st, s) => NotYet(pc, st, s)
    BY <2>1, <2>2 DEF NotYet
  <2>4. QED
    BY <1>3, <2>1, <2>2, <2>3
<1>8. CASE JobEnds
  <2>1. pc.stage = "post" /\ pc.j = 0 /\ pc.i = Len(Top) + 1 /\ pc' = [pc EXCEPT !.stage = "end"]
    BY <1>1, <1>2, <1>8 DEF JobEnds, Over, PositionOK
  <2>2. PositionOK(pc') /\ pc'.j = 0 /\ pc'.stage = "end"
    BY <1>1, <1>2, <2>1 DEF PositionOK, Stage
  <2>3. \A st \in Stage, s \in Step : ~NotYet(pc', st, s)
    BY <2>2 DEF NotYet, Stage
  <2>4. QED
    BY <1>3, <2>1, <2>2, <2>3
<1>9. QED
  BY <1>4, <1>5, <1>6, <1>7, <1>8 DEF Between


\* What a closing composite action changes.
LEMMA CloseChanges ==
    ASSUME TypeOK, NEW c, CloseComposite(c)
    PROVE  /\ c \in Composites /\ c \in Step /\ Parent(c) = "job" /\ Inside(pc, c)
           /\ Passes(c)
           /\ \A t \in Step : Parent(t) = c => ~Ahead(pc, t)
           /\ CompositeErr(c) \in Errs
           /\ job' = Reported(Untolerated(c, CompositeErr(c))) /\ job' \in JobMarks
           /\ erred' = IF Untolerated(c, CompositeErr(c)) = "none" THEN erred ELSE erred \cup {<<pc.stage, c>>}
           /\ result' = IF pc.stage = "main" THEN [result EXCEPT ![c] = Conclusion(c, CompositeErr(c))] ELSE result
           /\ Conclusion(c, CompositeErr(c)) \in {"success", "failure"}
           /\ UNCHANGED <<ctx, cond, opened, preStarted, childErr, saved, download, ran, wrote, kept, barred>>
<1>1. At(pc.stage, "close", c) /\ PositionOK(pc)
  BY DEF CloseComposite, TypeOK
<1>2. /\ c \in Composites /\ c \in Step /\ Parent(c) = "job" /\ Inside(pc, c)
  BY <1>1, CloseAtPosition
<1>3. Passes(c) /\ \A t \in Step : Parent(t) = c => ~Ahead(pc, t)
  BY <1>1, ClosePasses DEF CloseComposite
<1>4. CompositeErr(c) \in Errs
  BY <1>2 DEF CompositeErr, TypeOK, Errs
<1>5. Untolerated(c, CompositeErr(c)) \in Errs /\ Conclusion(c, CompositeErr(c)) \in {"success", "failure"}
  BY <1>4, ErrsAreErrs
<1>6. Reported(Untolerated(c, CompositeErr(c))) \in JobMarks
  BY <1>5, ReportedIsSome
<1>7. job' = Reported(Untolerated(c, CompositeErr(c)))
  BY DEF CloseComposite
<1>8. /\ erred' = IF Untolerated(c, CompositeErr(c)) = "none" THEN erred ELSE erred \cup {<<pc.stage, c>>}
      /\ result' = IF pc.stage = "main" THEN [result EXCEPT ![c] = Conclusion(c, CompositeErr(c))] ELSE result
  BY DEF CloseComposite, Recorded
<1>9. UNCHANGED <<ctx, cond, opened, preStarted, childErr, saved, download, ran, wrote, kept, barred>>
  BY DEF CloseComposite
<1>10. QED
  BY <1>2, <1>3, <1>4, <1>5, <1>6, <1>7, <1>8, <1>9

\* What a step changes when its stage runs.
LEMMA RunChanges ==
    ASSUME TypeOK, NEW s, RunStep(s)
    PROVE  /\ s \in Step \ Composites /\ pc.stage \in Stage
           /\ ran' = Append(ran, <<pc.stage, s>>) /\ ran' \in Seq(Stage \X Step)
           /\ Len(ran') = Len(ran) + 1 /\ Len(ran) \in Nat
           /\ \A n \in 1 .. Len(ran) : ran'[n] = ran[n]
           /\ ran'[Len(ran) + 1] = <<pc.stage, s>>
           /\ preStarted' = IF pc.stage = "pre" THEN preStarted \cup {s} ELSE preStarted
           /\ barred' = barred
           /\ hasStage(pc.stage, s) /\ prepareAction(s) /\ isStepEnabled(pc.stage, s)
           /\ pc.stage = "main" => \E r \in {"success", "failure"} : result' = [result EXCEPT ![s] = r]
<1>1. s \in Step \ Composites /\ pc.stage \in Stage
  BY StepAtPosition DEF RunStep, TypeOK
<1>2. ran \in Seq(Stage \X Step) /\ <<pc.stage, s>> \in Stage \X Step
  BY <1>1 DEF TypeOK
<1>3. ran' = Append(ran, <<pc.stage, s>>)
  BY DEF RunStep
<1>4. /\ ran' \in Seq(Stage \X Step) /\ Len(ran') = Len(ran) + 1 /\ Len(ran) \in Nat
      /\ \A n \in 1 .. Len(ran) : ran'[n] = ran[n]
      /\ ran'[Len(ran) + 1] = <<pc.stage, s>>
  BY <1>2, <1>3
<1>5. PICK e \in Outcomes(s) : Recorded(s, Conclusion(s, e))
  BY DEF RunStep
<1>6. Conclusion(s, e) \in {"success", "failure"}
  BY ErrsAreErrs
<1>7. QED
  BY <1>1, <1>3, <1>4, <1>5, <1>6 DEF RunStep, Recorded

\* Types are kept.
LEMMA TypesKept ==
    ASSUME TypeOK, [Next]_vars
    PROVE  TypeOK'
<1>1. CASE Between
  <2>1. /\ PositionOK(pc')
        /\ UNCHANGED <<cond, result, opened, preStarted, childErr, download, ran, erred, barred, handVars>>
    BY <1>1, BetweenMoves
  <2>2. ctx' \in [job : {"live", "cancel", "timeout"}, fresh : {"live", "expired"}, used : {"job", "fresh"}]
    BY <1>1 DEF TypeOK, Between, PrepareActions, MainStage, postStepsContext, JobEnds, CtxEnds,
                FreshExpires, runMainStepsAfterInterrupt
  <2>3. job' \in JobMarks
    <3>1. CASE PrepareActions
      BY <3>1, ErrsAreErrs, ReportedMarks DEF PrepareActions, TypeOK
    <3>2. CASE postStepsContext \/ runMainStepsAfterInterrupt
      BY <3>2 DEF postStepsContext, runMainStepsAfterInterrupt, markInterrupted, TypeOK, JobMarks
    <3>3. CASE MainStage \/ JobEnds \/ CtxEnds \/ FreshExpires
      BY <3>3 DEF MainStage, JobEnds, CtxEnds, FreshExpires, TypeOK
    <3>4. QED
      BY <1>1, <3>1, <3>2, <3>3 DEF Between
  <2>4. QED
    BY <2>1, <2>2, <2>3 DEF TypeOK
<1>2. ASSUME NEW s,
             NoStage(s) \/ Unprepared(s) \/ Unevaluated(s) \/ Skipped(s) \/ RunStep(s) \/ EntryFails(s)
      PROVE  TypeOK'
  <2>1. PICK e \in Errs : StepEnds(s, e)
    BY <1>2, StageEnds
  <2>2. Here(s) /\ After(s, e)
    BY <2>1 DEF StepEnds
  <2>3. s \in Step /\ pc.stage \in Stage
    BY <2>2, AfterPasses DEF TypeOK
  <2>4. /\ PositionOK(pc') /\ job' \in JobMarks /\ childErr' \in [Composites -> Errs]
        /\ erred' \subseteq Stage \X Step
    BY <2>2, AfterTypes
  <2>5. result' \in [Step -> {"none", "success", "failure", "skipped"}]
    BY <2>1, <2>3 DEF StepEnds, TypeOK
  <2>6. ctx' = ctx /\ cond' = cond /\ opened' = opened /\ download' = download
    BY <2>1 DEF StepEnds
  <2>7. ran' \in Seq(Stage \X Step) /\ preStarted' \subseteq Step /\ barred' \subseteq Composites
    <3>1. CASE RunStep(s)
      BY <2>3, <3>1, RunChanges DEF TypeOK
    <3>2. CASE EntryFails(s)
      BY <2>3, <3>2, OpenAtPosition DEF EntryFails, TypeOK
    <3>3. CASE NoStage(s) \/ Unprepared(s) \/ Unevaluated(s) \/ Skipped(s)
      BY <3>3 DEF NoStage, Unprepared, Unevaluated, Skipped, TypeOK
    <3>4. QED
      BY <1>2, <3>1, <3>2, <3>3
  <2>8. QED
    BY <2>4, <2>5, <2>6, <2>7 DEF TypeOK
<1>3. ASSUME NEW c, Enters(c) PROVE TypeOK'
  <2>1. c \in Composites /\ c \in Step
    BY <1>3, OpenAtPosition DEF Enters, TypeOK
  <2>2. PositionOK(pc')
    BY <1>3, EnterPasses DEF Enters, TypeOK
  <2>3. childErr' \in [Composites -> Errs]
    BY <1>3 DEF Enters, TypeOK, Errs
  <2>4. opened' \subseteq Composites
    BY <1>3, <2>1 DEF Enters, getCompositeRunContext, TypeOK
  <2>5. QED
    BY <1>3, <2>1, <2>2, <2>3, <2>4 DEF Enters, TypeOK
<1>4. ASSUME NEW c, CloseComposite(c) PROVE TypeOK'
  <2>1. /\ c \in Composites /\ c \in Step /\ Passes(c) /\ job' \in JobMarks
        /\ erred' = IF Untolerated(c, CompositeErr(c)) = "none" THEN erred ELSE erred \cup {<<pc.stage, c>>}
        /\ result' = IF pc.stage = "main" THEN [result EXCEPT ![c] = Conclusion(c, CompositeErr(c))] ELSE result
        /\ Conclusion(c, CompositeErr(c)) \in {"success", "failure"}
        /\ UNCHANGED <<ctx, cond, opened, preStarted, childErr, saved, download, ran, wrote, kept, barred>>
    BY <1>4, CloseChanges
  <2>2. pc.stage \in Stage
    BY <1>4 DEF CloseComposite, At
  <2>3. PositionOK(pc') /\ erred' \subseteq Stage \X Step
    BY <2>1, <2>2 DEF Passes, TypeOK
  <2>4. result' \in [Step -> {"none", "success", "failure", "skipped"}]
    BY <2>1 DEF TypeOK
  <2>5. QED
    BY <2>1, <2>3, <2>4 DEF TypeOK
<1>5. CASE UNCHANGED vars
  BY <1>5 DEF TypeOK, vars
<1>6. QED
  BY <1>1, <1>2, <1>3, <1>4, <1>5, OpenSplits DEF Next, Between, Ended


\* The actions, by what they do.
LEMMA NextSplits ==
    ASSUME [Next]_vars
    PROVE  \/ Between \/ UNCHANGED vars
           \/ \E s \in Step : \/ NoStage(s) \/ Unprepared(s) \/ Unevaluated(s) \/ Skipped(s) \/ RunStep(s)
           \/ \E c \in Composites : Enters(c) \/ EntryFails(c) \/ CloseComposite(c)
BY OpenSplits DEF Next, Between, Ended

\* Passing a step ends its stage, and reopens none.
LEMMA PassingEnds ==
    ASSUME NEW s, Passes(s)
    PROVE  /\ \A st \in Stage, t \in Step : NotYet(pc', st, t) => NotYet(pc, st, t)
           /\ NotYet(pc, pc.stage, s)
           /\ pc.stage \in Stage => ~NotYet(pc', pc.stage, s)
<1>1. ASSUME NEW st \in Stage, NEW t \in Step, NotYet(pc', st, t) PROVE NotYet(pc, st, t)
  BY <1>1 DEF Passes, NotYet
<1>2. NotYet(pc, pc.stage, s)
  BY DEF Passes, NotYet
<1>3. pc.stage \in Stage => ~NotYet(pc', pc.stage, s)
  BY DEF Passes, NotYet, Stage
<1>4. QED
  BY <1>1, <1>2, <1>3

\* What the end of a stage of a step changes.
LEMMA EndChanges ==
    ASSUME TypeOK, NEW s, NEW e, StepEnds(s, e)
    PROVE  /\ s \in Step /\ pc.stage \in Stage /\ Passes(s)
           /\ erred' = IF e = "none" THEN erred ELSE erred \cup {<<pc.stage, s>>}
           /\ \A t \in Step : t # s => result'[t] = result[t]
           /\ pc.stage # "main" => result' = result
           /\ pc.stage = "main" => result'[s] \in {"success", "failure", "skipped"} \/ (s \in NotPrepared /\ e # "none" /\ result' = result)
<1>1. s \in Step /\ pc.stage \in Stage /\ Passes(s)
  BY AfterPasses DEF StepEnds, TypeOK
<1>2. erred' = IF e = "none" THEN erred ELSE erred \cup {<<pc.stage, s>>}
  BY DEF StepEnds, After
<1>3. QED
  BY <1>1, <1>2 DEF StepEnds, TypeOK

\* The history of the stages that ran grows by the one that runs.
LEMMA RanGrows ==
    ASSUME TypeOK, NEW s, RunStep(s), NEW st, NEW t
    PROVE  Ran(st, t)' <=> Ran(st, t) \/ (st = pc.stage /\ t = s)
<1>1. /\ ran' \in Seq(Stage \X Step) /\ Len(ran') = Len(ran) + 1 /\ Len(ran) \in Nat
      /\ \A n \in 1 .. Len(ran) : ran'[n] = ran[n]
      /\ ran'[Len(ran) + 1] = <<pc.stage, s>>
  BY RunChanges
<1>2. DOMAIN ran = 1 .. Len(ran) /\ DOMAIN ran' = 1 .. Len(ran) + 1
  BY <1>1 DEF TypeOK
<1>3. Ran(st, t) <=> \E n \in 1 .. Len(ran) : ran[n] = <<st, t>>
  BY <1>2 DEF Ran, ToSet
<1>4. Ran(st, t)' <=> \E n \in 1 .. Len(ran) + 1 : ran'[n] = <<st, t>>
  BY <1>2 DEF Ran, ToSet
<1>5. ASSUME Ran(st, t)' PROVE Ran(st, t) \/ (st = pc.stage /\ t = s)
  BY <1>1, <1>3, <1>4, <1>5
<1>6. ASSUME Ran(st, t) PROVE Ran(st, t)'
  <2>1. PICK n \in 1 .. Len(ran) : ran[n] = <<st, t>>
    BY <1>3, <1>6
  <2>2. n \in 1 .. Len(ran) + 1 /\ ran'[n] = <<st, t>>
    BY <1>1, <2>1
  <2>3. QED
    BY <1>4, <2>2
<1>7. ASSUME st = pc.stage, t = s PROVE Ran(st, t)'
  <2>1. Len(ran) + 1 \in 1 .. Len(ran) + 1
    BY <1>1
  <2>2. QED
    BY <1>1, <1>4, <1>7, <2>1
<1>8. QED
  BY <1>5, <1>6, <1>7

\* Only RunStep adds to the history.
LEMMA RanStays ==
    ASSUME NEW s, NoStage(s) \/ Unprepared(s) \/ Unevaluated(s) \/ Skipped(s) \/ EntryFails(s) \/ Enters(s) \/ CloseComposite(s)
    PROVE  ran' = ran /\ \A st, t : Ran(st, t)' <=> Ran(st, t)
<1>1. ran' = ran
  BY DEF NoStage, Unprepared, Unevaluated, Skipped, EntryFails, Enters, CloseComposite
<1>2. QED
  BY <1>1 DEF Ran

-----------------------------------------------------------------------------
(* Stages that have not ended have left no trace.                          *)

Untouched ==
    \A st \in Stage, s \in Step : NotYet(pc, st, s) =>
        /\ <<st, s>> \notin erred /\ ~Ran(st, s)
        /\ st = "main" => result[s] = "none"

\* No step of the job leaves a trace of a stage that has not ended.
LEMMA UntouchedKept ==
    ASSUME TypeOK, Untouched, [Next]_vars
    PROVE  Untouched'
<1>1. SUFFICES ASSUME NEW st \in Stage, NEW t \in Step, NotYet(pc', st, t)
               PROVE  /\ <<st, t>> \notin erred' /\ ~Ran(st, t)'
                      /\ st = "main" => result'[t] = "none"
  BY DEF Untouched
<1>2. CASE Between
  BY <1>1, <1>2, BetweenMoves DEF Untouched, Ran
<1>3. CASE UNCHANGED vars
  BY <1>1, <1>3 DEF Untouched, Ran, vars
<1>4. ASSUME NEW s,
             NoStage(s) \/ Unprepared(s) \/ Unevaluated(s) \/ Skipped(s) \/ RunStep(s) \/ EntryFails(s)
      PROVE  /\ <<st, t>> \notin erred' /\ ~Ran(st, t)'
             /\ st = "main" => result'[t] = "none"
  <2>1. PICK e \in Errs : StepEnds(s, e)
    BY <1>4, StageEnds
  <2>2. /\ s \in Step /\ pc.stage \in Stage /\ Passes(s)
        /\ erred' = IF e = "none" THEN erred ELSE erred \cup {<<pc.stage, s>>}
        /\ \A u \in Step : u # s => result'[u] = result[u]
        /\ pc.stage # "main" => result' = result
    BY <2>1, EndChanges
  <2>3. NotYet(pc, st, t) /\ ~(st = pc.stage /\ t = s)
    BY <1>1, <2>2, PassingEnds
  <2>4. <<st, t>> \notin erred /\ ~Ran(st, t) /\ (st = "main" => result[t] = "none")
    BY <2>3 DEF Untouched
  <2>5. ~Ran(st, t)'
    BY <1>4, <2>3, <2>4, RanGrows, RanStays
  <2>6. <<st, t>> \notin erred'
    BY <2>2, <2>3, <2>4
  <2>7. st = "main" => result'[t] = "none"
    BY <2>2, <2>3, <2>4
  <2>8. QED
    BY <2>5, <2>6, <2>7
<1>5. ASSUME NEW c, Enters(c)
      PROVE  /\ <<st, t>> \notin erred' /\ ~Ran(st, t)'
             /\ st = "main" => result'[t] = "none"
  <2>1. pc'.stage = pc.stage /\ \A u \in Step : Ahead(pc', u) <=> Ahead(pc, u)
    BY <1>5, EnterPasses DEF Enters, TypeOK
  <2>2. NotYet(pc, st, t)
    BY <1>1, <2>1 DEF NotYet
  <2>3. QED
    BY <1>5, <2>2, RanStays DEF Untouched, Enters
<1>6. ASSUME NEW c, CloseComposite(c)
      PROVE  /\ <<st, t>> \notin erred' /\ ~Ran(st, t)'
             /\ st = "main" => result'[t] = "none"
  <2>1. /\ c \in Step /\ Passes(c)
        /\ erred' = IF Untolerated(c, CompositeErr(c)) = "none" THEN erred ELSE erred \cup {<<pc.stage, c>>}
        /\ result' = IF pc.stage = "main" THEN [result EXCEPT ![c] = Conclusion(c, CompositeErr(c))] ELSE result
    BY <1>6, CloseChanges
  <2>2. pc.stage \in Stage
    BY <1>6 DEF CloseComposite, At
  <2>3. NotYet(pc, st, t) /\ ~(st = pc.stage /\ t = c)
    BY <1>1, <2>1, <2>2, PassingEnds
  <2>4. <<st, t>> \notin erred /\ ~Ran(st, t) /\ (st = "main" => result[t] = "none")
    BY <2>3 DEF Untouched
  <2>5. ~Ran(st, t)'
    BY <1>6, <2>4, RanStays
  <2>6. <<st, t>> \notin erred'
    BY <2>1, <2>3, <2>4
  <2>7. st = "main" => result'[t] = "none"
    BY <2>1, <2>3, <2>4 DEF TypeOK
  <2>8. QED
    BY <2>5, <2>6, <2>7
<1>7. QED
  BY <1>2, <1>3, <1>4, <1>5, <1>6, NextSplits


\* A result changes only while its step is ahead in the main stage.
LEMMA ResultsChangeAhead ==
    ASSUME TypeOK, [Next]_vars, NEW t \in Step
    PROVE  result'[t] = result[t] \/ (pc.stage = "main" /\ Ahead(pc, t))
<1>1. CASE Between
  BY <1>1, BetweenMoves
<1>2. CASE UNCHANGED vars
  BY <1>2 DEF vars
<1>3. ASSUME NEW s,
             NoStage(s) \/ Unprepared(s) \/ Unevaluated(s) \/ Skipped(s) \/ RunStep(s) \/ EntryFails(s)
      PROVE  result'[t] = result[t] \/ (pc.stage = "main" /\ Ahead(pc, t))
  <2>1. PICK e \in Errs : StepEnds(s, e)
    BY <1>3, StageEnds
  <2>2. QED
    BY <2>1, EndChanges DEF Passes
<1>4. ASSUME NEW c, Enters(c) PROVE result'[t] = result[t]
  BY <1>4 DEF Enters
<1>5. ASSUME NEW c, CloseComposite(c) PROVE result'[t] = result[t] \/ (pc.stage = "main" /\ Ahead(pc, t))
  BY <1>5, CloseChanges DEF Passes, TypeOK
<1>6. QED
  BY <1>1, <1>2, <1>3, <1>4, <1>5, NextSplits

\* The condition of a step is fixed.
LEMMA CondStays ==
    ASSUME [Next]_vars
    PROVE  cond' = cond /\ download' = download
<1>1. CASE Between
  BY <1>1 DEF Between, PrepareActions, MainStage, postStepsContext, JobEnds, CtxEnds, FreshExpires,
              runMainStepsAfterInterrupt
<1>2. ASSUME NEW s, NoStage(s) \/ Unprepared(s) \/ Unevaluated(s) \/ Skipped(s) \/ RunStep(s) \/ EntryFails(s)
                    \/ Enters(s) \/ CloseComposite(s)
      PROVE cond' = cond /\ download' = download
  BY <1>2 DEF NoStage, Unprepared, Unevaluated, Skipped, RunStep, EntryFails, Enters, CloseComposite
<1>3. QED
  BY <1>1, <1>2, NextSplits DEF vars

\* The main stage of a step has run already, or runs now.
LEMMA RanOrRuns ==
    ASSUME TypeOK, [Next]_vars, NEW st, NEW s, Ran(st, s)'
    PROVE  Ran(st, s) \/ (st = pc.stage /\ RunStep(s))
<1>1. CASE Between
  BY <1>1, BetweenMoves DEF Ran
<1>2. CASE UNCHANGED vars
  BY <1>2 DEF vars, Ran
<1>3. ASSUME NEW t, RunStep(t) PROVE Ran(st, s) \/ (st = pc.stage /\ RunStep(s))
  BY <1>3, RanGrows
<1>4. ASSUME NEW t, NoStage(t) \/ Unprepared(t) \/ Unevaluated(t) \/ Skipped(t) \/ EntryFails(t) \/ Enters(t) \/ CloseComposite(t)
      PROVE  Ran(st, s)
  BY <1>4, RanStays
<1>5. QED
  BY <1>1, <1>2, <1>3, <1>4, NextSplits

-----------------------------------------------------------------------------
(* Conditions.                                                             *)

\* A status of success or failure that a main step reads is that of its own scope.
LEMMA StatusIsOwn ==
    ASSUME NEW s \in Step
    PROVE  /\ StatusFor("main", s) = "success" =>
                \A t \in Step : Parent(t) = Parent(s) => result[t] # "failure"
           /\ StatusFor("main", s) = "failure" /\ Parent(s) # "job" =>
                \E t \in Step : Parent(t) = Parent(s) /\ result[t] = "failure"
<1>1. \/ StatusFor("main", s) = "cancelled"
      \/ StatusFor("main", s) = ownStatus(Parent(s))
  BY DEF StatusFor, getJobContext
<1>2. ASSUME ownStatus(Parent(s)) = "success", NEW t \in Step, Parent(t) = Parent(s) PROVE result[t] # "failure"
  <2>1. ID(t) \in DOMAIN StepsOf(Parent(s)) /\ StepsOf(Parent(s))[ID(t)] = t
    BY <1>2, StepHasPlace
  <2>2. QED
    BY <1>2, <2>1 DEF ownStatus
<1>3. ASSUME ownStatus(Parent(s)) = "failure", Parent(s) # "job"
      PROVE  \E t \in Step : Parent(t) = Parent(s) /\ result[t] = "failure"
  <2>1. PICK k \in DOMAIN StepsOf(Parent(s)) : result[StepsOf(Parent(s))[k]] = "failure"
    BY <1>3 DEF ownStatus
  <2>2. QED
    BY <2>1, StepHasPlace, PlaceOfStep
<1>4. QED
  BY <1>1, <1>2, <1>3

\* No step of the job makes a condition that held for a step that ran a wrong one.
LEMMA JudgementKept ==
    ASSUME TypeOK, Untouched, JudgedByOwnScope, [Next]_vars
    PROVE  JudgedByOwnScope'
<1>1. SUFFICES ASSUME NEW s \in Step, Ran("main", s)'
               PROVE  /\ cond[s] = "success" => \A t \in Step : Before(t, s) => result'[t] # "failure"
                      /\ (cond[s] = "failure" /\ Parent(s) # "job") => \E t \in Step : Before(t, s) /\ result'[t] = "failure"
  BY CondStays DEF JudgedByOwnScope, Before
<1>2. PositionOK(pc)
  BY DEF TypeOK
<1>3. CASE Ran("main", s)
  <2>1. ~NotYet(pc, "main", s)
    BY <1>3 DEF Untouched, Stage
  <2>2. \A t \in Step : Before(t, s) => result'[t] = result[t]
    <3>1. SUFFICES ASSUME NEW t \in Step, Before(t, s), pc.stage = "main", Ahead(pc, t) PROVE FALSE
      BY ResultsChangeAhead
    <3>2. Ahead(pc, s)
      BY <1>2, <3>1, AheadUpwards
    <3>3. QED
      BY <2>1, <3>1, <3>2 DEF NotYet
  <2>3. QED
    BY <1>3, <2>2 DEF JudgedByOwnScope
<1>4. CASE pc.stage = "main" /\ RunStep(s)
  <2>1. PICK e \in Errs : StepEnds(s, e)
    BY <1>4, StageEnds
  <2>2. Passes(s) /\ \A t \in Step : t # s => result'[t] = result[t]
    BY <2>1, EndChanges
  <2>3. cond[s] = "always" \/ cond[s] = StatusFor("main", s)
    BY <1>4 DEF RunStep, isStepEnabled
  <2>4. \A t \in Step : Before(t, s) => t # s
    BY StepHasPlace, ScopesAreSequences DEF Before
  <2>5. ASSUME cond[s] = "success", NEW t \in Step, Before(t, s) PROVE result'[t] # "failure"
    BY <2>2, <2>3, <2>4, <2>5, StatusIsOwn DEF Before
  <2>6. ASSUME cond[s] = "failure", Parent(s) # "job" PROVE \E t \in Step : Before(t, s) /\ result'[t] = "failure"
    <3>1. PICK t \in Step : Parent(t) = Parent(s) /\ result[t] = "failure"
      BY <2>3, <2>6, StatusIsOwn
    <3>2. ~Ahead(pc, t)
      BY <1>4, <3>1 DEF Untouched, NotYet, Stage
    <3>3. Ahead(pc, s) /\ t # s
      BY <2>2, <3>2 DEF Passes
    <3>4. ~Before(s, t)
      BY <1>2, <1>4, <3>2, <3>3, AheadUpwards
    <3>5. ID(s) \in Nat /\ ID(t) \in Nat /\ ID(s) # ID(t)
      BY <3>1, <3>3, StepHasPlace, ScopesAreSequences, PlacesAreUnique
    <3>6. Before(t, s)
      BY <3>1, <3>4, <3>5 DEF Before
    <3>7. QED
      BY <2>2, <3>1, <3>3, <3>6
  <2>7. QED
    BY <2>5, <2>6
<1>5. QED
  BY <1>1, <1>3, <1>4, RanOrRuns


-----------------------------------------------------------------------------
(* Success.                                                                *)

\* A composite action that has succeeded has passed over none of its steps.
CompositeEarned ==
    \A c \in Composites \ Tolerant : result[c] = "success" =>
        \A s \in Step : Parent(s) = c => result[s] # "none" /\ <<"main", s>> \notin erred

\* Nor has one in which no error was kept so far.
ChildrenCounted ==
    \A c \in Composites : pc.stage = "main" /\ Inside(pc, c) /\ childErr[c] = "none" =>
        \A s \in Step : Parent(s) = c => Ahead(pc, s) \/ (result[s] # "none" /\ <<"main", s>> \notin erred)

\* A step that the position is at is one of the job when no composite action is open.
LEMMA LevelHere ==
    ASSUME PositionOK(pc), NEW s, Here(s)
    PROVE  Parent(s) = "job" <=> pc.j = 0
BY StepAtPosition, OpenAtPosition DEF Here

\* The scopes a child is in: the child's parent is the only composite action that is open.
LEMMA OneInside ==
    ASSUME NEW p, NEW c, NEW d, Inside(p, c), Inside(p, d)
    PROVE  c = d
BY DEF Inside

\* A result is never taken back.
LEMMA ResultsStay ==
    ASSUME TypeOK, [Next]_vars, NEW t \in Step, result[t] # "none"
    PROVE  result'[t] # "none"
<1>1. CASE Between
  BY <1>1, BetweenMoves
<1>2. CASE UNCHANGED vars
  BY <1>2 DEF vars
<1>3. ASSUME NEW s,
             NoStage(s) \/ Unprepared(s) \/ Unevaluated(s) \/ Skipped(s) \/ RunStep(s) \/ EntryFails(s)
      PROVE  result'[t] # "none"
  <2>1. PICK e \in Errs : StepEnds(s, e)
    BY <1>3, StageEnds
  <2>2. QED
    BY <2>1, EndChanges
<1>4. ASSUME NEW c, Enters(c) PROVE result'[t] # "none"
  BY <1>4 DEF Enters
<1>5. ASSUME NEW c, CloseComposite(c) PROVE result'[t] # "none"
  BY <1>5, CloseChanges DEF TypeOK
<1>6. QED
  BY <1>1, <1>2, <1>3, <1>4, <1>5, NextSplits

\* An error is recorded of a step that is ahead.
LEMMA ErrorsComeAhead ==
    ASSUME TypeOK, [Next]_vars, NEW x \in erred', x \notin erred
    PROVE  \E s \in Step : x = <<pc.stage, s>> /\ Ahead(pc, s) /\ pc.stage \in Stage
<1>1. CASE Between
  BY <1>1, BetweenMoves
<1>2. CASE UNCHANGED vars
  BY <1>2 DEF vars
<1>3. ASSUME NEW s,
             NoStage(s) \/ Unprepared(s) \/ Unevaluated(s) \/ Skipped(s) \/ RunStep(s) \/ EntryFails(s)
      PROVE  \E t \in Step : x = <<pc.stage, t>> /\ Ahead(pc, t) /\ pc.stage \in Stage
  <2>1. PICK e \in Errs : StepEnds(s, e)
    BY <1>3, StageEnds
  <2>2. QED
    BY <2>1, EndChanges DEF Passes
<1>4. ASSUME NEW c, Enters(c) PROVE FALSE
  BY <1>4 DEF Enters
<1>5. ASSUME NEW c, CloseComposite(c)
      PROVE  \E t \in Step : x = <<pc.stage, t>> /\ Ahead(pc, t) /\ pc.stage \in Stage
  BY <1>5, CloseChanges, CloseAtPosition DEF Passes, TypeOK, CloseComposite, At
<1>6. QED
  BY <1>1, <1>2, <1>3, <1>4, <1>5, NextSplits

\* A composite action without continue-on-error gets its success when it closes.
LEMMA SuccessComesAtClose ==
    ASSUME TypeOK, [Next]_vars, NEW c \in Composites \ Tolerant, result[c] # "success", result'[c] = "success"
    PROVE  CloseComposite(c) /\ pc.stage = "main" /\ childErr[c] = "none"
<1>1. c \in Step
  BY StepsAssumption DEF StepsAssumption
<1>2. CASE Between
  BY <1>2, BetweenMoves
<1>3. CASE UNCHANGED vars
  BY <1>3 DEF vars
<1>4. ASSUME NEW s,
             NoStage(s) \/ Unprepared(s) \/ Unevaluated(s) \/ Skipped(s) \/ RunStep(s) \/ EntryFails(s)
      PROVE  FALSE
  <2>1. PICK e \in Errs : StepEnds(s, e)
    BY <1>4, StageEnds
  <2>2. s = c /\ pc.stage = "main"
    BY <1>1, <2>1, EndChanges
  <2>3. CASE NoStage(s) \/ Unprepared(s)
    BY <2>3 DEF NoStage, Unprepared
  <2>4. CASE Unevaluated(s) \/ Skipped(s)
    BY <1>1, <2>2, <2>4 DEF Unevaluated, Skipped, Recorded, TypeOK
  <2>5. CASE RunStep(s)
    BY <2>2, <2>5, RunChanges
  <2>6. CASE EntryFails(s)
    BY <1>1, <2>2, <2>6 DEF EntryFails, Recorded, Conclusion, Untolerated, TypeOK
  <2>7. QED
    BY <1>4, <2>3, <2>4, <2>5, <2>6
<1>5. ASSUME NEW d, Enters(d) PROVE FALSE
  BY <1>5 DEF Enters
<1>6. ASSUME NEW d, CloseComposite(d) PROVE d = c /\ pc.stage = "main" /\ childErr[c] = "none"
  <2>1. /\ d \in Step
        /\ result' = IF pc.stage = "main" THEN [result EXCEPT ![d] = Conclusion(d, CompositeErr(d))] ELSE result
    BY <1>6, CloseChanges
  <2>2. d = c /\ pc.stage = "main" /\ Conclusion(c, CompositeErr(c)) = "success"
    BY <1>1, <2>1 DEF TypeOK
  <2>3. QED
    BY <2>2 DEF Conclusion, Untolerated, CompositeErr
<1>7. QED
  BY <1>2, <1>3, <1>4, <1>5, <1>6, NextSplits

\* The success of composite actions stays earned.
LEMMA EarnedKept ==
    ASSUME TypeOK, Untouched, CompositeEarned, ChildrenCounted, [Next]_vars
    PROVE  CompositeEarned'
<1>1. SUFFICES ASSUME NEW c \in Composites \ Tolerant, result'[c] = "success", NEW s \in Step, Parent(s) = c
               PROVE  result'[s] # "none" /\ <<"main", s>> \notin erred'
  BY DEF CompositeEarned
<1>2. c \in Step /\ c # "job" /\ PositionOK(pc)
  BY StepsAssumption DEF StepsAssumption, TypeOK
<1>3. CASE result[c] = "success"
  <2>1. result[s] # "none" /\ <<"main", s>> \notin erred
    BY <1>1, <1>3 DEF CompositeEarned
  <2>2. result'[s] # "none"
    BY <2>1, ResultsStay
  <2>3. ASSUME <<"main", s>> \in erred' PROVE FALSE
    <3>1. pc.stage = "main" /\ Ahead(pc, s)
      BY <2>1, <2>3, ErrorsComeAhead
    <3>2. Ahead(pc, c)
      BY <1>1, <1>2, <3>1, ParentAhead
    <3>3. result[c] = "none"
      BY <1>2, <3>1, <3>2 DEF Untouched, NotYet, Stage
    <3>4. QED
      BY <1>3, <3>3
  <2>4. QED
    BY <2>2, <2>3
<1>4. CASE result[c] # "success"
  <2>1. CloseComposite(c) /\ pc.stage = "main" /\ childErr[c] = "none"
    BY <1>1, <1>4, SuccessComesAtClose
  <2>2. Inside(pc, c) /\ ~Ahead(pc, s)
    BY <1>1, <2>1, CloseChanges
  <2>3. result[s] # "none" /\ <<"main", s>> \notin erred
    BY <1>1, <2>1, <2>2 DEF ChildrenCounted
  <2>4. result'[s] # "none"
    BY <2>3, ResultsStay
  <2>5. <<"main", s>> \notin erred'
    BY <2>2, <2>3, ErrorsComeAhead
  <2>6. QED
    BY <2>4, <2>5
<1>5. QED
  BY <1>3, <1>4

\* The steps of an open composite action stay accounted for.
LEMMA CountKept ==
    ASSUME TypeOK, Untouched, ChildrenCounted, [Next]_vars
    PROVE  ChildrenCounted'
<1>1. SUFFICES ASSUME NEW c \in Composites, pc'.stage = "main", Inside(pc', c), childErr'[c] = "none",
                      NEW s \in Step, Parent(s) = c, ~Ahead(pc', s)
               PROVE  result'[s] # "none" /\ <<"main", s>> \notin erred'
  BY DEF ChildrenCounted
<1>2. PositionOK(pc) /\ pc'.j # 0
  BY <1>1 DEF TypeOK, Inside
<1>3. CASE Between
  <2>1. pc' = pc /\ UNCHANGED <<result, childErr, erred>>
    BY <1>2, <1>3, BetweenMoves
  <2>2. QED
    BY <1>1, <2>1 DEF ChildrenCounted
<1>4. CASE UNCHANGED vars
  BY <1>1, <1>4 DEF ChildrenCounted, vars
<1>5. ASSUME NEW u,
             NoStage(u) \/ Unprepared(u) \/ Unevaluated(u) \/ Skipped(u) \/ RunStep(u) \/ EntryFails(u)
      PROVE  result'[s] # "none" /\ <<"main", s>> \notin erred'
  <2>1. PICK e \in Errs : StepEnds(u, e)
    BY <1>5, StageEnds
  <2>2. /\ u \in Step /\ pc.stage \in Stage /\ Passes(u)
        /\ erred' = IF e = "none" THEN erred ELSE erred \cup {<<pc.stage, u>>}
        /\ \A t \in Step : t # u => result'[t] = result[t]
        /\ pc.stage = "main" => result'[u] \in {"success", "failure", "skipped"} \/ (u \in NotPrepared /\ e # "none" /\ result' = result)
    BY <2>1, EndChanges
  <2>3. pc.stage = "main" /\ Parent(u) = c /\ Inside(pc, c)
    BY <1>1, <2>2 DEF Passes
  <2>4. AfterChild(u, e)
    BY <2>1, <2>3, TwoLevels, StepsAssumption DEF StepEnds, After, StepsAssumption
  <2>5. e = "none" /\ CtxErr = "none" /\ childErr[c] = "none"
    BY <1>1, <2>3, <2>4, ErrsAreErrs DEF AfterChild, TypeOK
  <2>6. CASE Ahead(pc, s)
    <3>1. s = u
      BY <1>1, <2>2, <2>3, <2>5, <2>6, TwoLevels DEF Passes
    <3>2. <<"main", u>> \notin erred
      BY <2>2, <2>3, <2>6, <3>1 DEF Untouched, NotYet, Stage
    <3>3. QED
      BY <2>2, <2>3, <2>5, <3>1, <3>2
  <2>7. CASE ~Ahead(pc, s)
    <3>1. result[s] # "none" /\ <<"main", s>> \notin erred
      BY <1>1, <2>3, <2>5, <2>7 DEF ChildrenCounted
    <3>2. s # u
      BY <2>2, <2>7 DEF Passes
    <3>3. QED
      BY <2>2, <2>5, <3>1, <3>2
  <2>8. QED
    BY <2>6, <2>7
<1>6. ASSUME NEW d, Enters(d) PROVE FALSE
  <2>1. \A t \in Step : (Ahead(pc', t) <=> Ahead(pc, t)) /\ (Parent(t) = d => Ahead(pc, t))
    BY <1>2, <1>6, EnterPasses DEF Enters
  <2>2. c = d
    BY <1>1, <1>2, <1>6, EnterPasses DEF Enters
  <2>3. QED
    BY <1>1, <2>1, <2>2
<1>7. ASSUME NEW d, CloseComposite(d) PROVE FALSE
  BY <1>2, <1>7, CloseChanges DEF Passes
<1>8. QED
  BY <1>3, <1>4, <1>5, <1>6, <1>7, NextSplits


Marked == job.cancelled \/ job.failed \/ job.err

\* A cancellation that an open composite action keeps is that of the current context.
CancelHolds ==
    \A c \in Composites : Inside(pc, c) /\ pc.stage # "post" /\ childErr[c] = "cancel" =>
        ctx.used = "job" /\ ctx.job = "cancel"

\* Every error has marked the job, was tolerated with the composite action it
\* came from, or is kept by the one that is open.
ErrorsMarked ==
    \A x \in erred :
        \/ Marked
        \/ x[1] # "post" /\ Parent(x[2]) \in Tolerant
        \/ x[1] # "post" /\ pc.stage # "post" /\ Parent(x[2]) \in Composites
           /\ Inside(pc, Parent(x[2])) /\ childErr[Parent(x[2])] # "none"

\* The error of the context is a cancellation only while the job's own is used.
LEMMA CtxCancelled ==
    ASSUME CtxErr = "cancel"
    PROVE  ctx.used = "job" /\ ctx.job = "cancel"
BY DEF CtxErr

\* No step of the job takes its last mark away.
LEMMA MarksStay ==
    ASSUME TypeOK, Marked, [Next]_vars
    PROVE  Marked'
<1>1. job \in JobMarks
  BY DEF TypeOK
<1>2. CASE PrepareActions
  BY <1>1, <1>2, ErrsAreErrs, ReportedMarks DEF PrepareActions, Marked
<1>3. CASE postStepsContext
  BY <1>1, <1>3 DEF postStepsContext, markInterrupted, Marked, JobMarks, TypeOK
<1>4. CASE runMainStepsAfterInterrupt
  BY <1>1, <1>4 DEF runMainStepsAfterInterrupt, markInterrupted, Marked, JobMarks
<1>5. CASE MainStage \/ JobEnds \/ CtxEnds \/ FreshExpires
  BY <1>5 DEF MainStage, JobEnds, CtxEnds, FreshExpires, Marked
<1>6. CASE UNCHANGED vars
  BY <1>6 DEF vars, Marked
<1>7. ASSUME NEW s,
             NoStage(s) \/ Unprepared(s) \/ Unevaluated(s) \/ Skipped(s) \/ RunStep(s) \/ EntryFails(s)
      PROVE  Marked'
  <2>1. PICK e \in Errs : StepEnds(s, e)
    BY <1>7, StageEnds
  <2>2. job' = Reported(e) \/ job' = job \/ job' = [job EXCEPT !.err = TRUE]
    BY <2>1 DEF StepEnds, After, AfterChild
  <2>3. CASE job' = Reported(e)
    BY <2>3, ReportedIsSome DEF Marked
  <2>4. CASE job' = job \/ job' = [job EXCEPT !.err = TRUE]
    BY <1>1, <2>4 DEF Marked, JobMarks
  <2>5. QED
    BY <2>2, <2>3, <2>4
<1>8. ASSUME NEW c, Enters(c) PROVE Marked'
  BY <1>8 DEF Enters, Marked
<1>9. ASSUME NEW c, CloseComposite(c) PROVE Marked'
  <2>1. job' = Reported(Untolerated(c, CompositeErr(c))) /\ CompositeErr(c) \in Errs
    BY <1>9, CloseChanges
  <2>2. QED
    BY <2>1, ErrsAreErrs, ReportedIsSome DEF Marked
<1>10. QED
  BY <1>2, <1>3, <1>4, <1>5, <1>6, <1>7, <1>8, <1>9, NextSplits DEF Between

\* A kept cancellation stays that of the current context.
LEMMA CancelKept ==
    ASSUME TypeOK, CancelHolds, [Next]_vars
    PROVE  CancelHolds'
<1>1. SUFFICES ASSUME NEW c \in Composites, Inside(pc', c), pc'.stage # "post", childErr'[c] = "cancel"
               PROVE  ctx'.used = "job" /\ ctx'.job = "cancel"
  BY DEF CancelHolds
<1>2. PositionOK(pc) /\ pc'.j # 0
  BY <1>1 DEF TypeOK, Inside
<1>3. CASE Between
  <2>1. pc' = pc /\ childErr' = childErr
    BY <1>2, <1>3, BetweenMoves
  <2>2. ctx.used = "job" /\ ctx.job = "cancel"
    BY <1>1, <2>1 DEF CancelHolds
  <2>3. pc.j # 0 /\ pc.stage # "post"
    BY <1>1, <1>2, <2>1
  <2>4. ctx' = ctx
    <3>1. ~CtxEnds /\ ~FreshExpires
      BY <2>2 DEF CtxEnds, FreshExpires
    <3>2. ~runMainStepsAfterInterrupt
      BY <2>3 DEF runMainStepsAfterInterrupt, AtBoundary
    <3>3. ~postStepsContext
      BY <2>1, <2>3 DEF postStepsContext
    <3>4. QED
      BY <1>3, <3>1, <3>2, <3>3 DEF Between, PrepareActions, MainStage, JobEnds
  <2>5. QED
    BY <2>2, <2>4
<1>4. CASE UNCHANGED vars
  BY <1>1, <1>4 DEF CancelHolds, vars
<1>5. ASSUME NEW u,
             NoStage(u) \/ Unprepared(u) \/ Unevaluated(u) \/ Skipped(u) \/ RunStep(u) \/ EntryFails(u)
      PROVE  ctx'.used = "job" /\ ctx'.job = "cancel"
  <2>1. PICK e \in Errs : StepEnds(u, e)
    BY <1>5, StageEnds
  <2>2. u \in Step /\ Passes(u) /\ ctx' = ctx
    BY <2>1, EndChanges DEF StepEnds
  <2>3. pc.stage # "post" /\ Parent(u) = c /\ Inside(pc, c)
    BY <1>1, <2>2 DEF Passes
  <2>4. AfterChild(u, e)
    BY <2>1, <2>3, TwoLevels, StepsAssumption DEF StepEnds, After, StepsAssumption
  <2>5. childErr[c] = "cancel" \/ CtxErr = "cancel"
    BY <1>1, <2>1, <2>3, <2>4 DEF AfterChild, StepEnds, TypeOK
  <2>6. QED
    BY <2>2, <2>3, <2>5, CtxCancelled DEF CancelHolds
<1>6. ASSUME NEW d, Enters(d) PROVE FALSE
  <2>1. c = d
    BY <1>1, <1>2, <1>6, EnterPasses DEF Enters
  <2>2. QED
    BY <1>1, <1>6, <2>1 DEF Enters, TypeOK
<1>7. ASSUME NEW d, CloseComposite(d) PROVE FALSE
  BY <1>2, <1>7, CloseChanges DEF Passes
<1>8. QED
  BY <1>3, <1>4, <1>5, <1>6, <1>7, NextSplits

\* A composite action that keeps an error marks the job when it closes, unless it is tolerated.
LEMMA CloseMarks ==
    ASSUME TypeOK, CancelHolds, NEW c, CloseComposite(c), Untolerated(c, CompositeErr(c)) # "none"
    PROVE  Marked'
<1>1. /\ c \in Composites /\ Inside(pc, c) /\ CompositeErr(c) \in Errs
      /\ job' = Reported(Untolerated(c, CompositeErr(c)))
  BY CloseChanges
<1>2. Untolerated(c, CompositeErr(c)) = CompositeErr(c) /\ pc.stage # "post" /\ CompositeErr(c) = childErr[c]
  BY DEF Untolerated, CompositeErr
<1>3. CompositeErr(c) = "cancel" => CtxErr = "cancel"
  BY <1>1, <1>2 DEF CancelHolds, CtxErr
<1>4. CompositeErr(c) # "none"
  BY <1>2
<1>5. QED
  BY <1>1, <1>2, <1>3, <1>4, ReportedIsSome DEF Marked, Errs

\* Errors stay accounted for.
LEMMA ErrorsKept ==
    ASSUME TypeOK, CancelHolds, ErrorsMarked, [Next]_vars
    PROVE  ErrorsMarked'
<1> DEFINE Open(c) == pc'.stage # "post" /\ c \in Composites /\ Inside(pc', c) /\ childErr'[c] # "none"
<1>1. SUFFICES ASSUME NEW x \in erred', ~Marked', x[1] = "post" \/ Parent(x[2]) \notin Tolerant
               PROVE  x[1] # "post" /\ Open(Parent(x[2]))
  BY DEF ErrorsMarked
<1>2. PositionOK(pc) /\ ~Marked
  BY <1>1, MarksStay DEF TypeOK
<1>3. x \in erred => /\ x[1] # "post" /\ pc.stage # "post" /\ Parent(x[2]) \in Composites
                     /\ Inside(pc, Parent(x[2])) /\ childErr[Parent(x[2])] # "none"
  BY <1>1, <1>2 DEF ErrorsMarked
<1>4. CASE Between
  <2>1. x \in erred /\ childErr' = childErr /\ (pc' = pc \/ pc.j = 0)
    BY <1>4, BetweenMoves
  <2>2. pc' = pc
    BY <1>3, <2>1 DEF Inside
  <2>3. QED
    BY <1>3, <2>1, <2>2
<1>5. CASE UNCHANGED vars
  BY <1>3, <1>5 DEF vars
<1>6. ASSUME NEW u,
             NoStage(u) \/ Unprepared(u) \/ Unevaluated(u) \/ Skipped(u) \/ RunStep(u) \/ EntryFails(u)
      PROVE  x[1] # "post" /\ Open(Parent(x[2]))
  <2>1. PICK e \in Errs : StepEnds(u, e)
    BY <1>6, StageEnds
  <2>2. /\ u \in Step /\ pc.stage \in Stage /\ Passes(u)
        /\ erred' = IF e = "none" THEN erred ELSE erred \cup {<<pc.stage, u>>}
    BY <2>1, EndChanges
  <2>3. (Parent(u) = "job" <=> pc.j = 0) /\ pc.j \in Nat
    BY <1>2, <2>1, LevelHere DEF StepEnds, PositionOK
  <2>4. CASE x \in erred
    <3>1. Inside(pc, Parent(x[2])) /\ Parent(u) # "job"
      BY <1>3, <2>3, <2>4 DEF Inside
    <3>2. Parent(u) = Parent(x[2]) /\ Inside(pc', Parent(u))
      BY <2>2, <3>1, OneInside DEF Passes
    <3>3. AfterChild(u, e)
      BY <2>1, <3>1 DEF StepEnds, After
    <3>4. childErr'[Parent(u)] # "none"
      BY <1>3, <2>4, <3>2, <3>3 DEF AfterChild, TypeOK
    <3>5. QED
      BY <1>3, <2>2, <2>4, <3>2, <3>4 DEF Passes
  <2>5. CASE x \notin erred
    <3>1. x = <<pc.stage, u>> /\ e # "none"
      BY <1>1, <2>2, <2>5
    <3>2. Parent(u) # "job"
      <4>1. SUFFICES ASSUME Parent(u) = "job" PROVE FALSE
        OBVIOUS
      <4>2. job' = Reported(e) /\ (e = "cancel" => CtxErr = "cancel")
        BY <2>1, <4>1 DEF StepEnds, After
      <4>3. Marked'
        BY <3>1, <4>2, ReportedIsSome DEF Marked, Errs
      <4>4. QED
        BY <1>1, <4>3
    <3>3. AfterChild(u, e)
      BY <2>1, <3>2 DEF StepEnds, After
    <3>4. pc.stage # "post"
      BY <1>1, <3>1, <3>3 DEF AfterChild, Marked, TypeOK, JobMarks
    <3>5. Parent(u) \in Composites /\ Inside(pc', Parent(u)) /\ pc'.stage = pc.stage
      BY <2>2, <3>2, TwoLevels DEF Passes
    <3>6. childErr'[Parent(u)] # "none"
      BY <3>1, <3>3, <3>4, <3>5 DEF AfterChild, TypeOK
    <3>7. QED
      BY <3>1, <3>4, <3>5, <3>6
  <2>6. QED
    BY <2>4, <2>5
<1>7. ASSUME NEW d, Enters(d) PROVE FALSE
  <2>1. x \in erred
    BY <1>7 DEF Enters
  <2>2. QED
    BY <1>2, <1>3, <1>7, <2>1, EnterPasses DEF Enters
<1>8. ASSUME NEW d, CloseComposite(d) PROVE FALSE
  <2>1. /\ Inside(pc, d)
        /\ erred' = IF Untolerated(d, CompositeErr(d)) = "none" THEN erred ELSE erred \cup {<<pc.stage, d>>}
    BY <1>8, CloseChanges
  <2>2. Untolerated(d, CompositeErr(d)) = "none"
    BY <1>1, <1>8, CloseMarks
  <2>3. x \in erred /\ Parent(x[2]) = d
    BY <1>1, <1>3, <2>1, <2>2, OneInside
  <2>4. QED
    BY <1>1, <1>3, <2>2, <2>3 DEF Untolerated, CompositeErr
<1>9. QED
  BY <1>4, <1>5, <1>6, <1>7, <1>8, NextSplits


-----------------------------------------------------------------------------
(* Post stages.                                                            *)

\* What a stage that ran leaves for the post stage.
TracesKept ==
    \A s \in Step :
        /\ Ran("main", s) => result[s] \in {"success", "failure"} /\ prepareAction(s)
        /\ Ran("pre", s) => s \in preStarted
        /\ s \in preStarted /\ s \notin Composites => Ran("pre", s)

\* The main stage leaves out no step of the job, unless the setup failed and no stage runs at all.
NothingRan == ran = << >> /\ preStarted = {} /\ \A s \in Step : result[s] = "none"
Reached ==
    /\ pc.stage = "setup" => NothingRan
    /\ pc.stage \in {"main", "post", "end"} =>
        \/ \A s \in Step : Parent(s) = "job" => NotYet(pc, "main", s) \/ result[s] # "none"
        \/ NothingRan /\ (pc.stage = "main" => pc.i > Len(Top))

PostDone(s) == pc.stage \in {"post", "end"} /\ ~NotYet(pc, "post", s)

PostGiven ==
    \A s \in Step :
        /\ Kind[s] = "action" /\ PostDone(s) /\ (Ran("pre", s) \/ Ran("main", s)) /\ ~PostLost(s)
        => Ran("post", s)

PostDue == \A s \in Step : Ran("post", s) => Ran("pre", s) \/ result[s] \in {"success", "failure"}

PostOnce ==
    \A m, n \in DOMAIN ran : \A s \in Step : ran[m] = <<"post", s>> /\ ran[n] = <<"post", s>> => m = n

PostReversed ==
    \A m, n \in DOMAIN ran : \A s, t \in Step :
        ran[m] = <<"post", s>> /\ ran[n] = <<"post", t>> /\ Before(s, t) => n < m

\* A composite action or a step of the job is always prepared.
LEMMA JobStepsPrepared ==
    ASSUME NEW s \in Step, Parent(s) = "job"
    PROVE  s \notin NotPrepared /\ prepareAction(s)
<1>1. s \in ToSet(Top)
  BY StepHasPlace DEF StepsOf, ToSet
<1>2. QED
  BY <1>1, StepsAssumption DEF StepsAssumption, prepareAction

\* Stages that ran stay in the history.
LEMMA RanRemains ==
    ASSUME TypeOK, [Next]_vars, NEW st, NEW s, Ran(st, s)
    PROVE  Ran(st, s)'
<1>1. CASE Between
  BY <1>1, BetweenMoves DEF Ran
<1>2. CASE UNCHANGED vars
  BY <1>2 DEF vars, Ran
<1>3. ASSUME NEW t, RunStep(t) PROVE Ran(st, s)'
  BY <1>3, RanGrows
<1>4. ASSUME NEW t, NoStage(t) \/ Unprepared(t) \/ Unevaluated(t) \/ Skipped(t) \/ EntryFails(t) \/ Enters(t) \/ CloseComposite(t)
      PROVE  Ran(st, s)'
  BY <1>4, RanStays
<1>5. QED
  BY <1>1, <1>2, <1>3, <1>4, NextSplits

\* The pre stages that were started.
LEMMA PreStartedGrows ==
    ASSUME TypeOK, [Next]_vars, NEW s \in Step
    PROVE  /\ s \in preStarted => s \in preStarted'
           /\ s \in preStarted' => s \in preStarted \/ s \in Composites \/ (pc.stage = "pre" /\ RunStep(s))
           /\ pc.stage = "pre" /\ RunStep(s) => s \in preStarted'
<1>1. CASE Between
  <2>1. preStarted' = preStarted /\ ran' = ran
    BY <1>1, BetweenMoves
  <2>2. ~RunStep(s)
    BY <2>1, RunChanges DEF TypeOK
  <2>3. QED
    BY <2>1, <2>2
<1>2. CASE UNCHANGED vars
  <2>1. preStarted' = preStarted /\ ran' = ran
    BY <1>2 DEF vars
  <2>2. ~RunStep(s)
    BY <2>1, RunChanges DEF TypeOK
  <2>3. QED
    BY <2>1, <2>2
<1>3. ASSUME NEW t, RunStep(t)
      PROVE  /\ s \in preStarted => s \in preStarted'
             /\ s \in preStarted' => s \in preStarted \/ (pc.stage = "pre" /\ RunStep(s))
             /\ pc.stage = "pre" /\ RunStep(s) => s \in preStarted'
  BY <1>3, RunChanges
<1>4. ASSUME NEW t, Enters(t) \/ EntryFails(t)
      PROVE  /\ s \in preStarted => s \in preStarted'
             /\ s \in preStarted' => s \in preStarted \/ s \in Composites
             /\ ~RunStep(s)
  <2>1. t \in Composites
    BY <1>4, OpenAtPosition DEF Enters, EntryFails, TypeOK
  <2>2. preStarted' = IF pc.stage = "pre" THEN preStarted \cup {t} ELSE preStarted
    BY <1>4 DEF Enters, EntryFails
  <2>3. ~RunStep(s)
    BY <1>4, RanStays, RunChanges DEF TypeOK
  <2>4. QED
    BY <2>1, <2>2, <2>3
<1>5. ASSUME NEW t, NoStage(t) \/ Unprepared(t) \/ Unevaluated(t) \/ Skipped(t) \/ CloseComposite(t)
      PROVE  preStarted' = preStarted /\ ~RunStep(s)
  BY <1>5, RanStays, RunChanges DEF NoStage, Unprepared, Unevaluated, Skipped, CloseComposite, TypeOK
<1>6. QED
  BY <1>1, <1>2, <1>3, <1>4, <1>5, NextSplits

\* Traces of the pre and main stages are kept.
LEMMA TracesStay ==
    ASSUME TypeOK, Untouched, TracesKept, [Next]_vars
    PROVE  TracesKept'
<1>1. SUFFICES ASSUME NEW s \in Step
               PROVE  /\ Ran("main", s)' => result'[s] \in {"success", "failure"} /\ prepareAction(s)'
                      /\ Ran("pre", s)' => s \in preStarted'
                      /\ s \in preStarted' /\ s \notin Composites => Ran("pre", s)'
  BY DEF TracesKept
<1>2. prepareAction(s)' <=> prepareAction(s)
  BY CondStays DEF prepareAction
<1>3. ASSUME Ran("main", s)' PROVE result'[s] \in {"success", "failure"} /\ prepareAction(s)
  <2>1. CASE Ran("main", s)
    <3>1. ~(pc.stage = "main" /\ Ahead(pc, s))
      BY <2>1 DEF Untouched, NotYet, Stage
    <3>2. QED
      BY <2>1, <3>1, ResultsChangeAhead DEF TracesKept
  <2>2. CASE pc.stage = "main" /\ RunStep(s)
    BY <2>2, RunChanges DEF TypeOK
  <2>3. QED
    BY <1>3, <2>1, <2>2, RanOrRuns
<1>4. Ran("pre", s)' => s \in preStarted'
  BY RanOrRuns, PreStartedGrows DEF TracesKept
<1>5. ASSUME s \in preStarted', s \notin Composites PROVE Ran("pre", s)'
  <2>1. CASE s \in preStarted
    BY <1>5, <2>1, RanRemains DEF TracesKept
  <2>2. CASE pc.stage = "pre" /\ RunStep(s)
    BY <2>2, RanGrows
  <2>3. QED
    BY <1>5, <2>1, <2>2, PreStartedGrows
<1>6. QED
  BY <1>2, <1>3, <1>4, <1>5


\* Where no stage ran none runs in the post stage either.
LEMMA NothingStarts ==
    ASSUME TypeOK, NothingRan, pc.stage = "post", [Next]_vars
    PROVE  NothingRan'
<1>1. \A s \in Step : ~hasStage("post", s)
  BY DEF hasStage, shouldRunPostStep, NothingRan
<1>2. \A s \in Step : result'[s] = "none"
  BY ResultsChangeAhead DEF NothingRan
<1>3. \A s \in Step : ~RunStep(s)
  BY <1>1 DEF RunStep
<1>4. ran' = ran
  BY <1>3, NextSplits, BetweenMoves, RanStays DEF vars
<1>5. preStarted' = preStarted
  <2>1. CASE Between
    BY <2>1, BetweenMoves
  <2>2. CASE UNCHANGED vars
    BY <2>2 DEF vars
  <2>3. ASSUME NEW t, NoStage(t) \/ Unprepared(t) \/ Unevaluated(t) \/ Skipped(t) \/ EntryFails(t) \/ Enters(t) \/ CloseComposite(t)
        PROVE  preStarted' = preStarted
    BY <2>3 DEF NoStage, Unprepared, Unevaluated, Skipped, EntryFails, Enters, CloseComposite
  <2>4. QED
    BY <1>3, <2>1, <2>2, <2>3, NextSplits
<1>6. QED
  BY <1>2, <1>4, <1>5 DEF NothingRan

\* The main stage goes on to leave out no step of the job.
LEMMA ReachedKept ==
    ASSUME TypeOK, Untouched, Reached, [Next]_vars
    PROVE  Reached'
<1> DEFINE All == \A s \in Step : Parent(s) = "job" => NotYet(pc, "main", s) \/ result[s] # "none"
<1>1. PositionOK(pc) /\ Len(Top) \in Nat
  BY ScopesAreSequences DEF TypeOK, Scope, StepsOf
<1>2. CASE PrepareActions
  <2>1. NothingRan
    BY <1>2 DEF Reached, PrepareActions
  <2>2. NothingRan'
    BY <1>2, <2>1, BetweenMoves DEF NothingRan, Between
  <2>3. pc'.stage = "pre" \/ (pc'.stage = "main" /\ pc'.i > Len(Top))
    BY <1>1, <1>2 DEF PrepareActions, PositionOK
  <2>4. QED
    BY <2>2, <2>3 DEF Reached
<1>3. CASE MainStage
  <2>1. pc'.stage = "main" /\ pc'.i = 1 /\ pc'.j = 0
    BY <1>3 DEF MainStage
  <2>2. \A s \in Step : NotYet(pc', "main", s)
    BY <2>1, AllAhead DEF NotYet
  <2>3. QED
    BY <2>1, <2>2 DEF Reached
<1>4. CASE postStepsContext
  <2>1. pc.stage = "main" /\ pc.i > Len(Top) /\ pc'.stage = "post" /\ result' = result /\ ran' = ran /\ preStarted' = preStarted
    BY <1>4 DEF postStepsContext, Over
  <2>2. \A s \in Step : ~NotYet(pc, "main", s)
    BY <1>1, <2>1, NoneAhead DEF NotYet
  <2>3. (\A s \in Step : Parent(s) = "job" => result[s] # "none") \/ NothingRan
    BY <2>1, <2>2 DEF Reached
  <2>4. QED
    BY <2>1, <2>3 DEF Reached, NothingRan
<1>5. CASE JobEnds
  <2>1. pc.stage = "post" /\ pc'.stage = "end" /\ result' = result /\ ran' = ran /\ preStarted' = preStarted
    BY <1>1, <1>5 DEF JobEnds, Over, PositionOK
  <2>2. \A s \in Step : ~NotYet(pc, "main", s)
    BY <2>1 DEF NotYet
  <2>3. (\A s \in Step : Parent(s) = "job" => result[s] # "none") \/ NothingRan
    BY <2>1, <2>2 DEF Reached
  <2>4. QED
    BY <2>1, <2>3 DEF Reached, NothingRan
<1>6. CASE CtxEnds \/ FreshExpires \/ runMainStepsAfterInterrupt
  <2>1. UNCHANGED <<pc, result, ran, preStarted>>
    BY <1>6 DEF CtxEnds, FreshExpires, runMainStepsAfterInterrupt
  <2>2. QED
    BY <2>1 DEF Reached, NothingRan, NotYet
<1>7. CASE UNCHANGED vars
  BY <1>7 DEF Reached, NothingRan, NotYet, vars
<1>8. ASSUME pc.stage \in Stage, pc'.stage = pc.stage, pc.i <= Len(Top),
             \A s \in Step : Parent(s) = "job" /\ pc.stage = "main" /\ NotYet(pc, "main", s) /\ ~NotYet(pc', "main", s) => result'[s] # "none"
      PROVE  Reached'
  <2>1. CASE pc.stage = "pre"
    BY <1>8, <2>1 DEF Reached
  <2>2. CASE pc.stage = "main"
    <3>1. All
      BY <1>1, <1>8, <2>2 DEF Reached, PositionOK
    <3>2. \A s \in Step : Parent(s) = "job" => NotYet(pc', "main", s) \/ result'[s] # "none"
      BY <1>8, <2>2, <3>1, ResultsStay
    <3>3. QED
      BY <1>8, <2>2, <3>2 DEF Reached
  <2>3. CASE pc.stage = "post"
    <3>1. \A s \in Step : ~NotYet(pc, "main", s)
      BY <2>3 DEF NotYet
    <3>2. CASE NothingRan
      BY <1>8, <2>3, <3>2, NothingStarts DEF Reached
    <3>3. CASE ~NothingRan
      <4>1. \A s \in Step : Parent(s) = "job" => result'[s] # "none"
        BY <2>3, <3>1, <3>3, ResultsStay DEF Reached
      <4>2. QED
        BY <1>8, <2>3, <4>1 DEF Reached
    <3>4. QED
      BY <3>2, <3>3
  <2>4. QED
    BY <1>8, <2>1, <2>2, <2>3 DEF Stage
<1>9. ASSUME NEW u,
             NoStage(u) \/ Unprepared(u) \/ Unevaluated(u) \/ Skipped(u) \/ RunStep(u) \/ EntryFails(u)
      PROVE  Reached'
  <2>1. PICK e \in Errs : StepEnds(u, e)
    BY <1>9, StageEnds
  <2>2. /\ u \in Step /\ pc.stage \in Stage /\ Passes(u)
        /\ pc.stage = "main" => result'[u] \in {"success", "failure", "skipped"} \/ u \in NotPrepared
    BY <2>1, EndChanges
  <2>3. pc.i <= Len(Top) /\ pc'.stage = pc.stage
    BY <1>1, <2>1, <2>2, AfterPasses DEF StepEnds, Passes
  <2>4. ASSUME NEW s \in Step, Parent(s) = "job", pc.stage = "main", NotYet(pc, "main", s), ~NotYet(pc', "main", s)
        PROVE  result'[s] # "none"
    <3>1. s = u
      BY <2>2, <2>3, <2>4 DEF Passes, NotYet
    <3>2. QED
      BY <2>2, <2>4, <3>1, JobStepsPrepared
  <2>5. QED
    BY <1>8, <2>2, <2>3, <2>4
<1>10. ASSUME NEW c, Enters(c) PROVE Reached'
  <2>1. pc'.stage = pc.stage /\ \A t \in Step : Ahead(pc', t) <=> Ahead(pc, t)
    BY <1>1, <1>10, EnterPasses DEF Enters
  <2>2. pc.stage \in Stage /\ pc.i <= Len(Top)
    BY <1>10 DEF Enters, At
  <2>3. QED
    BY <1>8, <2>1, <2>2 DEF NotYet
<1>11. ASSUME NEW c, CloseComposite(c) PROVE Reached'
  <2>1. /\ c \in Step /\ Passes(c)
        /\ result' = IF pc.stage = "main" THEN [result EXCEPT ![c] = Conclusion(c, CompositeErr(c))] ELSE result
        /\ Conclusion(c, CompositeErr(c)) \in {"success", "failure"}
    BY <1>11, CloseChanges
  <2>2. pc.stage \in Stage /\ pc.i <= Len(Top) /\ pc'.stage = pc.stage
    BY <1>11, <2>1 DEF CloseComposite, At, Passes
  <2>3. ASSUME NEW s \in Step, Parent(s) = "job", pc.stage = "main", NotYet(pc, "main", s), ~NotYet(pc', "main", s)
        PROVE  result'[s] # "none"
    <3>1. s = c
      BY <2>1, <2>2, <2>3 DEF Passes, NotYet
    <3>2. QED
      BY <2>1, <2>3, <3>1 DEF TypeOK
  <2>4. QED
    BY <1>8, <2>2, <2>3
<1>12. QED
  BY <1>2, <1>3, <1>4, <1>5, <1>6, <1>7, <1>9, <1>10, <1>11, NextSplits DEF Between


\* What is lost of the post stages stays lost.
LEMMA LostStays ==
    ASSUME TypeOK, [Next]_vars, NEW s \in Step, PostLost(s), pc.stage = "post"
    PROVE  PostLost(s)'
<1>1. erred \subseteq erred' /\ barred \subseteq barred'
  <2>1. CASE Between
    BY <2>1, BetweenMoves
  <2>2. CASE UNCHANGED vars
    BY <2>2 DEF vars
  <2>3. ASSUME NEW t, NoStage(t) \/ Unprepared(t) \/ Unevaluated(t) \/ Skipped(t) \/ RunStep(t) \/ EntryFails(t)
        PROVE  erred \subseteq erred' /\ barred \subseteq barred'
    <3>1. PICK e \in Errs : StepEnds(t, e)
      BY <2>3, StageEnds
    <3>2. barred \subseteq barred'
      BY <2>3 DEF NoStage, Unprepared, Unevaluated, Skipped, RunStep, EntryFails
    <3>3. QED
      BY <3>1, <3>2, EndChanges
  <2>4. ASSUME NEW t, Enters(t) PROVE erred \subseteq erred' /\ barred \subseteq barred'
    BY <2>4 DEF Enters
  <2>5. ASSUME NEW t, CloseComposite(t) PROVE erred \subseteq erred' /\ barred \subseteq barred'
    BY <2>5, CloseChanges
  <2>6. QED
    BY <2>1, <2>2, <2>3, <2>4, <2>5, NextSplits
<1>2. Parent(s) # "job" => result'[Parent(s)] = result[Parent(s)]
  BY TwoLevels, ResultsChangeAhead
<1>3. QED
  BY <1>1, <1>2 DEF PostLost

\* A step whose pre or main stage ran is not passed over in the post stage.
LEMMA PostOfStep ==
    ASSUME TypeOK, TracesKept, Reached, pc.stage = "post", NEW s \in Step, Kind[s] = "action",
           Ran("pre", s) \/ Ran("main", s), NEW u, u = s \/ Parent(s) = u,
           NoStage(u) \/ Unprepared(u) \/ Unevaluated(u) \/ Skipped(u) \/ RunStep(u) \/ EntryFails(u)
    PROVE  PostLost(s)' \/ Ran("post", s)'
<1>1. PICK e \in Errs : StepEnds(u, e)
  BY StageEnds
<1>2. u \in Step /\ result' = result
  BY <1>1, EndChanges
<1>3. ~Unprepared(u)
  BY DEF Unprepared
<1>4. ~Skipped(u)
  BY DEF Skipped, isStepEnabled
<1>5. CASE Unevaluated(u)
  <2>1. <<"post", u>> \in erred'
    BY <1>5 DEF Unevaluated, After
  <2>2. u # "job"
    BY <1>2, StepsAssumption DEF StepsAssumption
  <2>3. QED
    BY <2>1, <2>2 DEF PostLost
<1>6. CASE u = s
  <2>1. s \notin Composites
    BY StepsAssumption DEF StepsAssumption
  <2>2. hasStage("post", s)
    BY <2>1 DEF hasStage, shouldRunPostStep, TracesKept
  <2>3. ~NoStage(s)
    BY <2>2 DEF NoStage
  <2>4. ~EntryFails(s)
    BY <2>1, OpenAtPosition DEF EntryFails, TypeOK
  <2>5. CASE RunStep(s)
    BY <2>5, RanGrows
  <2>6. QED
    BY <1>3, <1>4, <1>5, <1>6, <2>3, <2>4, <2>5
<1>7. CASE Parent(s) = u
  <2>1. u # "job"
    BY <1>2, StepsAssumption DEF StepsAssumption
  <2>2. u \in Composites /\ Parent(u) = "job"
    BY <1>7, <2>1, TwoLevels
  <2>3. ~RunStep(u)
    BY <2>2, RunChanges
  <2>4. CASE NoStage(u)
    <3>1. Kind[u] = "composite" /\ prepareAction(u)
      BY <1>2, <2>2, JobStepsPrepared, StepsAssumption DEF StepsAssumption
    <3>2. result[u] \notin {"success", "failure"}
      BY <2>4, <3>1 DEF NoStage, hasStage, shouldRunPostStep
    <3>3. result[u] = "none" \/ result[u] = "skipped"
      BY <1>2, <3>2 DEF TypeOK
    <3>4. result[u] # "none"
      <4>1. SUFFICES ASSUME result[u] = "none" PROVE FALSE
        OBVIOUS
      <4>2. ~NotYet(pc, "main", u)
        BY DEF NotYet
      <4>3. NothingRan
        BY <1>2, <2>2, <4>1, <4>2 DEF Reached
      <4>4. ~Ran("pre", s) /\ ~Ran("main", s)
        BY <4>3 DEF NothingRan, Ran, ToSet
      <4>5. QED
        BY <4>4
    <3>5. QED
      BY <1>2, <1>7, <2>1, <3>3, <3>4 DEF PostLost
  <2>5. CASE EntryFails(u)
    <3>1. u \in barred'
      BY <2>5 DEF EntryFails
    <3>2. QED
      BY <1>7, <2>1, <3>1 DEF PostLost
  <2>6. QED
    BY <1>3, <1>4, <1>5, <2>3, <2>4, <2>5
<1>8. QED
  BY <1>6, <1>7

\* No post stage that is due is passed over.
LEMMA GivenKept ==
    ASSUME TypeOK, Untouched, TracesKept, Reached, PostGiven, [Next]_vars
    PROVE  PostGiven'
<1>1. SUFFICES ASSUME NEW s \in Step, Kind[s] = "action", PostDone(s)', Ran("pre", s)' \/ Ran("main", s)', ~PostLost(s)'
               PROVE  Ran("post", s)'
  BY DEF PostGiven
<1>2. PositionOK(pc)
  BY DEF TypeOK
<1>3. CASE PostDone(s) /\ pc.stage = "post"
  <2>1. Ran("pre", s) \/ Ran("main", s)
    BY <1>1, <1>3, RanOrRuns
  <2>2. ~PostLost(s)
    BY <1>1, <1>3, LostStays
  <2>3. Ran("post", s)
    BY <1>1, <1>3, <2>1, <2>2 DEF PostGiven
  <2>4. QED
    BY <2>3, RanRemains
<1>4. CASE Between
  <2>1. /\ \A st \in Stage, t \in Step : NotYet(pc', st, t) => NotYet(pc, st, t)
        /\ UNCHANGED <<result, ran, erred, barred>>
    BY <1>4, BetweenMoves
  <2>2. CASE postStepsContext
    <3>1. pc'.stage = "post" /\ pc'.i = 1 /\ pc'.j = 0
      BY <2>2 DEF postStepsContext
    <3>2. NotYet(pc', "post", s)
      BY <3>1, AllAhead DEF NotYet
    <3>3. QED
      BY <1>1, <3>2 DEF PostDone
  <2>3. CASE JobEnds
    <3>1. pc.stage = "post" /\ pc.i > Len(Top)
      BY <2>3 DEF JobEnds, Over
    <3>2. PostDone(s)
      BY <1>2, <3>1, NoneAhead DEF PostDone, NotYet
    <3>3. QED
      BY <1>3, <3>1, <3>2
  <2>4. CASE PrepareActions \/ MainStage
    BY <1>1, <1>2, <2>4 DEF PrepareActions, MainStage, PostDone, PositionOK
  <2>5. CASE CtxEnds \/ FreshExpires \/ runMainStepsAfterInterrupt
    <3>1. pc' = pc
      BY <2>5 DEF CtxEnds, FreshExpires, runMainStepsAfterInterrupt
    <3>2. PostDone(s)
      BY <1>1, <3>1 DEF PostDone
    <3>3. ~PostLost(s) /\ (Ran("pre", s) \/ Ran("main", s))
      BY <1>1, <2>1 DEF PostLost, Ran
    <3>4. QED
      BY <1>1, <3>2, <3>3, RanRemains DEF PostGiven
  <2>6. QED
    BY <1>4, <2>2, <2>3, <2>4, <2>5 DEF Between
<1>5. CASE UNCHANGED vars
  BY <1>1, <1>5 DEF PostGiven, PostDone, NotYet, PostLost, Ran, vars
<1>6. ASSUME NEW u,
             NoStage(u) \/ Unprepared(u) \/ Unevaluated(u) \/ Skipped(u) \/ RunStep(u) \/ EntryFails(u)
      PROVE  Ran("post", s)'
  <2>1. PICK e \in Errs : StepEnds(u, e)
    BY <1>6, StageEnds
  <2>2. u \in Step /\ pc.stage \in Stage /\ Passes(u)
    BY <2>1, EndChanges
  <2>3. pc.stage = "post" /\ pc'.stage = "post" /\ ~Ahead(pc', s)
    BY <1>1, <2>2 DEF Passes, PostDone, NotYet, Stage
  <2>4. CASE Ahead(pc, s)
    <3>1. u = s \/ Parent(s) = u
      BY <2>2, <2>3, <2>4 DEF Passes
    <3>2. Ran("pre", s) \/ Ran("main", s)
      BY <1>1, <2>3, RanOrRuns
    <3>3. PostLost(s)' \/ Ran("post", s)'
      BY <1>1, <1>6, <2>3, <3>1, <3>2, PostOfStep
    <3>4. QED
      BY <1>1, <3>3
  <2>5. CASE ~Ahead(pc, s)
    BY <1>3, <2>3, <2>5 DEF PostDone, NotYet
  <2>6. QED
    BY <2>4, <2>5
<1>7. ASSUME NEW c, Enters(c) PROVE Ran("post", s)'
  <2>1. pc'.stage = pc.stage /\ \A t \in Step : Ahead(pc', t) <=> Ahead(pc, t)
    BY <1>2, <1>7, EnterPasses DEF Enters
  <2>2. PostDone(s) /\ pc.stage = "post"
    BY <1>1, <1>7, <2>1 DEF PostDone, NotYet, Enters, At, Stage
  <2>3. QED
    BY <1>3, <2>2
<1>8. ASSUME NEW c, CloseComposite(c) PROVE Ran("post", s)'
  <2>1. c \in Composites /\ Passes(c) /\ \A t \in Step : Parent(t) = c => ~Ahead(pc, t)
    BY <1>8, CloseChanges
  <2>2. pc.stage = "post" /\ pc'.stage = "post" /\ ~Ahead(pc', s)
    BY <1>1, <1>8, <2>1 DEF Passes, PostDone, NotYet, CloseComposite, At, Stage
  <2>3. s # c
    BY <1>1, <2>1, StepsAssumption DEF StepsAssumption
  <2>4. ~Ahead(pc, s)
    BY <2>1, <2>2, <2>3 DEF Passes
  <2>5. QED
    BY <1>3, <2>2, <2>4 DEF PostDone, NotYet
<1>9. QED
  BY <1>4, <1>5, <1>6, <1>7, <1>8, NextSplits

\* A post stage runs only after a pre or main stage that ended.
LEMMA DueKept ==
    ASSUME TypeOK, Untouched, TracesKept, PostDue, [Next]_vars
    PROVE  PostDue'
<1>1. SUFFICES ASSUME NEW s \in Step, Ran("post", s)'
               PROVE  Ran("pre", s)' \/ result'[s] \in {"success", "failure"}
  BY DEF PostDue
<1>2. pc.stage # "main"
  <2>1. CASE Ran("post", s)
    BY <2>1 DEF Untouched, NotYet, Stage
  <2>2. CASE "post" = pc.stage
    BY <2>2
  <2>3. QED
    BY <1>1, <2>1, <2>2, RanOrRuns
<1>3. result'[s] = result[s]
  BY <1>2, ResultsChangeAhead
<1>4. CASE Ran("post", s)
  BY <1>3, <1>4, RanRemains DEF PostDue
<1>5. CASE pc.stage = "post" /\ RunStep(s)
  <2>1. hasStage("post", s) /\ s \notin Composites
    BY <1>5, RunChanges
  <2>2. s \in preStarted \/ result[s] \in {"success", "failure"}
    BY <2>1 DEF hasStage, shouldRunPostStep
  <2>3. QED
    BY <1>3, <2>1, <2>2, RanRemains DEF TracesKept
<1>6. QED
  BY <1>1, <1>4, <1>5, RanOrRuns

\* Post stages run once, and in the reverse order of their steps.
LEMMA OrderKept ==
    ASSUME TypeOK, Untouched, PostOnce, PostReversed, [Next]_vars
    PROVE  PostOnce' /\ PostReversed'
<1>1. CASE ran' = ran
  BY <1>1 DEF PostOnce, PostReversed, Before
<1>2. ASSUME NEW u, RunStep(u) PROVE PostOnce' /\ PostReversed'
  <2>1. /\ u \in Step /\ ran' \in Seq(Stage \X Step) /\ Len(ran') = Len(ran) + 1 /\ Len(ran) \in Nat
        /\ \A n \in 1 .. Len(ran) : ran'[n] = ran[n]
        /\ ran'[Len(ran) + 1] = <<pc.stage, u>>
    BY <1>2, RunChanges
  <2>2. DOMAIN ran = 1 .. Len(ran) /\ DOMAIN ran' = 1 .. Len(ran) + 1
    BY <2>1 DEF TypeOK
  <2>3. PICK e \in Errs : StepEnds(u, e)
    BY <1>2, StageEnds
  <2>4. Ahead(pc, u) /\ PositionOK(pc)
    BY <2>3, EndChanges DEF Passes, TypeOK
  <2>5. ASSUME NEW n \in 1 .. Len(ran), NEW t \in Step, ran[n] = <<"post", t>>, pc.stage = "post"
        PROVE  ~Ahead(pc, t)
    <3>1. Ran("post", t)
      BY <2>2, <2>5 DEF Ran, ToSet
    <3>2. QED
      BY <2>5, <3>1 DEF Untouched, NotYet, Stage
  <2>6. PostOnce'
    <3>1. SUFFICES ASSUME NEW m \in 1 .. Len(ran) + 1, NEW n \in 1 .. Len(ran) + 1, NEW s \in Step,
                          ran'[m] = <<"post", s>>, ran'[n] = <<"post", s>>
                   PROVE  m = n
      BY <2>2 DEF PostOnce
    <3>2. CASE m \in 1 .. Len(ran) /\ n \in 1 .. Len(ran)
      BY <2>1, <2>2, <3>1, <3>2 DEF PostOnce
    <3>3. CASE m = Len(ran) + 1 /\ n \in 1 .. Len(ran)
      <4>1. pc.stage = "post" /\ u = s /\ ran[n] = <<"post", s>>
        BY <2>1, <3>1, <3>3
      <4>2. QED
        BY <2>4, <2>5, <3>3, <4>1
    <3>4. CASE n = Len(ran) + 1 /\ m \in 1 .. Len(ran)
      <4>1. pc.stage = "post" /\ u = s /\ ran[m] = <<"post", s>>
        BY <2>1, <3>1, <3>4
      <4>2. QED
        BY <2>4, <2>5, <3>4, <4>1
    <3>5. CASE m = Len(ran) + 1 /\ n = Len(ran) + 1
      BY <3>5
    <3>6. QED
      BY <2>1, <3>1, <3>2, <3>3, <3>4, <3>5
  <2>7. PostReversed'
    <3>1. SUFFICES ASSUME NEW m \in 1 .. Len(ran) + 1, NEW n \in 1 .. Len(ran) + 1, NEW s \in Step, NEW t \in Step,
                          ran'[m] = <<"post", s>>, ran'[n] = <<"post", t>>, Before(s, t)
                   PROVE  n < m
      BY <2>2 DEF PostReversed, Before
    <3>2. CASE m \in 1 .. Len(ran) /\ n \in 1 .. Len(ran)
      BY <2>1, <2>2, <3>1, <3>2 DEF PostReversed
    <3>3. CASE m = Len(ran) + 1 /\ n \in 1 .. Len(ran)
      BY <2>1, <3>3
    <3>4. CASE n = Len(ran) + 1 /\ m \in 1 .. Len(ran)
      <4>1. pc.stage = "post" /\ u = t /\ ran[m] = <<"post", s>>
        BY <2>1, <3>1, <3>4
      <4>2. Ahead(pc, s)
        BY <2>4, <3>1, <4>1, AheadUpwards
      <4>3. QED
        BY <2>5, <3>4, <4>1, <4>2
    <3>5. CASE m = Len(ran) + 1 /\ n = Len(ran) + 1
      <4>1. s = t
        BY <2>1, <3>1, <3>5
      <4>2. ID(s) \in Nat
        BY StepHasPlace, ScopesAreSequences
      <4>3. QED
        BY <3>1, <4>1, <4>2 DEF Before
    <3>6. QED
      BY <2>1, <3>1, <3>2, <3>3, <3>4, <3>5
  <2>8. QED
    BY <2>6, <2>7
<1>3. QED
  BY <1>1, <1>2, NextSplits, BetweenMoves, RanStays DEF vars


-----------------------------------------------------------------------------
(* State for the post stage.                                               *)

StateKept ==
    /\ DOMAIN saved = Scope
    /\ \A sc \in Scope : DOMAIN saved[sc] = 1 .. Len(StepsOf(sc))
    /\ kept \in [Step -> SUBSET Stage]
    /\ \A s \in Step : saved[Parent(s)][ID(s)] = kept[s]

\* No step stores under the name of another.
LEMMA StateStays ==
    ASSUME TypeOK, StateKept, [Next]_vars
    PROVE  StateKept'
<1>1. CASE saved' = saved /\ kept' = kept
  BY <1>1 DEF StateKept
<1>2. ASSUME NEW s, RunStep(s) PROVE StateKept'
  <2>1. s \in Step /\ pc.stage \in Stage
    BY <1>2, RunChanges
  <2>2. SaveState(pc.stage, s)
    BY <1>2 DEF RunStep
  <2>3. CASE Kind[s] # "action" \/ pc.stage = "post"
    BY <1>1, <2>2, <2>3 DEF SaveState
  <2>4. CASE ~(Kind[s] # "action" \/ pc.stage = "post")
    <3> DEFINE p == Parent(s)
               k == ID(s)
    <3>1. p \in Scope /\ k \in 1 .. Len(StepsOf(p))
      BY <2>1, StepHasPlace, ScopesAreSequences
    <3>2. /\ saved' = [saved EXCEPT ![p] = [saved[p] EXCEPT ![k] = saved[p][k] \cup {pc.stage}]]
          /\ kept' = [kept EXCEPT ![s] = kept[s] \cup {pc.stage}]
      BY <2>2, <2>4 DEF SaveState
    <3>3. \A t \in Step : Parent(t) = p /\ ID(t) = k => t = s
      BY <2>1, PlacesAreUnique
    <3>4. \A t \in Step : Parent(t) \in Scope /\ ID(t) \in 1 .. Len(StepsOf(Parent(t)))
      BY StepHasPlace, ScopesAreSequences
    <3> HIDE DEF p, k
    <3>5. DOMAIN saved' = Scope /\ \A sc \in Scope : DOMAIN saved'[sc] = 1 .. Len(StepsOf(sc))
      BY <3>1, <3>2 DEF StateKept
    <3>6. kept' \in [Step -> SUBSET Stage]
      BY <2>1, <3>2 DEF StateKept
    <3>7. ASSUME NEW t \in Step PROVE saved'[Parent(t)][ID(t)] = kept'[t]
      <4>1. CASE t = s
        BY <2>1, <3>1, <3>2, <4>1 DEF StateKept, p, k
      <4>2. CASE t # s
        <5>1. kept'[t] = kept[t]
          BY <3>2, <4>2 DEF StateKept
        <5>2. CASE Parent(t) # p
          BY <3>1, <3>2, <3>4, <5>1, <5>2 DEF StateKept
        <5>3. CASE Parent(t) = p
          BY <3>1, <3>2, <3>3, <3>4, <4>2, <5>1, <5>3 DEF StateKept
        <5>4. QED
          BY <5>2, <5>3
      <4>3. QED
        BY <4>1, <4>2
    <3>8. QED
      BY <3>5, <3>6, <3>7 DEF StateKept
  <2>5. QED
    BY <2>3, <2>4
<1>3. ASSUME NEW s, NoStage(s) \/ Unprepared(s) \/ Unevaluated(s) \/ Skipped(s) \/ EntryFails(s) \/ Enters(s) \/ CloseComposite(s)
      PROVE  saved' = saved /\ kept' = kept
  BY <1>3 DEF NoStage, Unprepared, Unevaluated, Skipped, EntryFails, Enters, CloseComposite, handVars, getCompositeRunContext
<1>4. CASE Between
  BY <1>1, <1>4, BetweenMoves DEF handVars
<1>5. CASE UNCHANGED vars
  BY <1>1, <1>5 DEF vars
<1>6. QED
  BY <1>1, <1>2, <1>3, <1>4, <1>5, NextSplits

-----------------------------------------------------------------------------
(* The environment and the path.                                           *)

\* No nested step writes in its pre stage.
NoNestedPreWriter == \A s \in Step : <<"pre", s>> \in Writers => Parent(s) = "job"

HandTypes ==
    /\ env \in [Scope -> Step \cup {"unset"}] /\ path \in [Scope -> SUBSET Step]
    /\ globalRef \in [Scope -> Scope \cup {"nil"}] /\ globalEnv \in [Scope -> Step \cup {"unset"}]
    /\ wrote \in Seq(Step)

\* A composite action shares the map of the job, has none, or has one of its
\* own since its main stage.
RefsOK ==
    /\ globalRef["job"] \in {"nil", "job"}
    /\ globalRef["job"] = "nil" => globalEnv["job"] = "unset"
    /\ \A c \in Composites :
        /\ globalRef[c] \in {"nil", "job", c}
        /\ globalRef[c] = "job" => globalRef["job"] = "job"
        /\ globalRef[c] = c => /\ pc.stage \notin {"setup", "pre"}
                               /\ pc.stage = "main" => ~Ahead(pc, c) \/ Inside(pc, c)

\* The variable as its map has it, and what the steps of a scope find.
Exported(c) == IF globalRef[c] = "nil" THEN "unset" ELSE globalEnv[globalRef[c]]
Finds(sc) == wrote # << >> => env[sc] = Last(wrote) /\ ToSet(wrote) \subseteq path[sc]

HandedOn ==
    pc.stage \in {"setup", "pre", "main"} =>
        /\ pc.stage # "main" => wrote = << >>
        /\ pc.j = 0 => Finds("job") /\ globalEnv["job"] \in {"unset", env["job"]}
        /\ \A c \in Composites : Inside(pc, c) =>
            /\ Finds(c)
            /\ Exported(c) = env[c] \/ (Exported(c) = "unset" /\ env[c] = env["job"])
            /\ globalRef[c] # "job" => globalEnv["job"] \in {"unset", env["job"]}
            /\ pc.stage # "main" => env[c] = env["job"]

Handing == HandTypes /\ RefsOK /\ HandedOn

\* Steps that write nothing leave all this as it is.
LEMMA UnwrittenHands ==
    ASSUME TypeOK, Handing, UNCHANGED <<env, path, globalRef, globalEnv, wrote>>,
           pc'.stage = pc.stage \/ (pc'.stage = "end" /\ pc.stage = "post"),
           \A c \in Composites : Ahead(pc', c) => Ahead(pc, c),
           \A c \in Composites : Inside(pc', c) <=> Inside(pc, c),
           pc'.j = 0 => pc.j = 0
    PROVE  Handing'
<1>1. HandTypes'
  BY DEF Handing, HandTypes
<1>2. RefsOK'
  BY DEF Handing, RefsOK
<1>3. HandedOn'
  BY DEF Handing, HandedOn, Exported, Finds
<1>4. QED
  BY <1>1, <1>2, <1>3 DEF Handing

\* A step of the job writes to the job's environment and its map.
LEMMA JobWrites ==
    ASSUME TypeOK, Handing, NEW s \in Step, Parent(s) = "job", pc.j = 0, pc'.j = 0, pc.stage \in Stage,
           pc'.stage = pc.stage, \A c \in Composites : Ahead(pc', c) => Ahead(pc, c),
           env' = [env EXCEPT !["job"] = s], path' = [path EXCEPT !["job"] = @ \cup {s}],
           globalRef' = [globalRef EXCEPT !["job"] = "job"], globalEnv' = [globalEnv EXCEPT !["job"] = s],
           wrote' = IF pc.stage = "main" THEN Append(wrote, s) ELSE wrote
    PROVE  Handing'
<1>1. "job" \in Scope /\ Composites \subseteq Scope /\ "job" \notin Composites
  BY StepsAssumption DEF Scope, StepsAssumption
<1>2. HandTypes'
  BY <1>1 DEF Handing, HandTypes
<1>3. \A c \in Composites : ~Inside(pc, c) /\ ~Inside(pc', c)
  BY DEF Inside
<1>4. RefsOK'
  BY <1>1, <1>3 DEF Handing, HandTypes, RefsOK
<1>5. env'["job"] = s /\ globalEnv'["job"] = s /\ path'["job"] = path["job"] \cup {s}
  BY <1>1 DEF Handing, HandTypes
<1>6. pc.stage = "main" => Finds("job")'
  <2>1. SUFFICES ASSUME pc.stage = "main" PROVE Finds("job")'
    OBVIOUS
  <2>2. wrote \in Seq(Step) /\ wrote' = Append(wrote, s)
    BY <2>1 DEF Handing, HandTypes
  <2>3. /\ Len(wrote') = Len(wrote) + 1 /\ wrote'[Len(wrote) + 1] = s /\ Len(wrote) \in Nat
        /\ \A n \in 1 .. Len(wrote) : wrote'[n] = wrote[n]
        /\ DOMAIN wrote' = 1 .. Len(wrote) + 1 /\ DOMAIN wrote = 1 .. Len(wrote)
    BY <2>2
  <2>4. Last(wrote') = s
    BY <2>3 DEF Last
  <2>5. ToSet(wrote) \subseteq path["job"]
    BY <2>1, <2>3 DEF Handing, HandedOn, Finds, ToSet
  <2>6. ToSet(wrote') \subseteq ToSet(wrote) \cup {s}
    BY <2>3 DEF ToSet
  <2>7. QED
    BY <1>5, <2>4, <2>5, <2>6 DEF Finds
<1>7. HandedOn'
  BY <1>3, <1>5, <1>6 DEF Handing, HandedOn, Finds, Stage
<1>8. QED
  BY <1>2, <1>4, <1>7 DEF Handing

\* A step of a composite action writes to its environment and its map.
LEMMA ChildWrites ==
    ASSUME TypeOK, Handing, NEW s \in Step, NEW c \in Composites, Parent(s) = c, pc.stage \in {"main", "post"},
           pc'.stage = pc.stage, \A d \in Composites : Ahead(pc', d) => Ahead(pc, d),
           \A d \in Composites : Inside(pc', d) <=> Inside(pc, d), pc'.j # 0, Inside(pc, c),
           NEW m, m = IF globalRef[c] = "nil" THEN c ELSE globalRef[c],
           env' = [env EXCEPT ![c] = s], path' = [path EXCEPT ![c] = @ \cup {s}],
           globalRef' = [globalRef EXCEPT ![c] = m], globalEnv' = [globalEnv EXCEPT ![m] = s],
           wrote' = IF pc.stage = "main" THEN Append(wrote, s) ELSE wrote
    PROVE  Handing'
<1>1. "job" \in Scope /\ c \in Scope /\ Composites \subseteq Scope /\ c # "job" /\ c # "nil" /\ "job" # "nil"
  BY StepsAssumption DEF Scope, StepsAssumption
<1>2. m \in {"job", c} /\ m \in Scope /\ (m = "job" => globalRef["job"] = "job") /\ (m = "job" <=> globalRef[c] = "job")
  BY <1>1 DEF Handing, RefsOK
<1>3. HandTypes'
  BY <1>1, <1>2 DEF Handing, HandTypes
<1>4. globalRef'["job"] = globalRef["job"] /\ globalRef'[c] = m /\ \A d \in Composites : d # c => globalRef'[d] = globalRef[d]
  BY <1>1, <1>2 DEF Handing, HandTypes
<1>5. /\ env'[c] = s /\ env'["job"] = env["job"] /\ path'[c] = path[c] \cup {s} /\ globalEnv'[m] = s
      /\ m # "job" => globalEnv'["job"] = globalEnv["job"]
  BY <1>1, <1>2 DEF Handing, HandTypes
<1>6. RefsOK'
  BY <1>1, <1>2, <1>4, <1>5 DEF Handing, RefsOK
<1>7. pc.stage = "main" => Finds(c)'
  <2>1. SUFFICES ASSUME pc.stage = "main" PROVE Finds(c)'
    OBVIOUS
  <2>2. wrote \in Seq(Step) /\ wrote' = Append(wrote, s)
    BY <2>1 DEF Handing, HandTypes
  <2>3. /\ Len(wrote') = Len(wrote) + 1 /\ wrote'[Len(wrote) + 1] = s /\ Len(wrote) \in Nat
        /\ \A n \in 1 .. Len(wrote) : wrote'[n] = wrote[n]
        /\ DOMAIN wrote' = 1 .. Len(wrote) + 1 /\ DOMAIN wrote = 1 .. Len(wrote)
    BY <2>2
  <2>4. Last(wrote') = s
    BY <2>3 DEF Last
  <2>5. ToSet(wrote) \subseteq path[c]
    BY <2>1, <2>3 DEF Handing, HandedOn, Finds, ToSet
  <2>6. ToSet(wrote') \subseteq ToSet(wrote) \cup {s}
    BY <2>3 DEF ToSet
  <2>7. QED
    BY <1>5, <2>4, <2>5, <2>6 DEF Finds
<1>8. \A d \in Composites : Inside(pc', d) => d = c
  BY OneInside
<1>9. HandedOn'
  <2>1. SUFFICES ASSUME pc.stage = "main" PROVE HandedOn'
    BY DEF HandedOn
  <2>2. Exported(c)' = s
    BY <1>1, <1>2, <1>4, <1>5 DEF Exported
  <2>3. m # "job" => globalEnv'["job"] \in {"unset", env'["job"]}
    BY <1>2, <1>5, <2>1 DEF Handing, HandedOn
  <2>4. QED
    BY <1>4, <1>5, <1>7, <1>8, <2>1, <2>2, <2>3 DEF HandedOn
<1>10. QED
  BY <1>3, <1>6, <1>9 DEF Handing


\* A composite action takes over the environment of the job.
LEMMA EntryHands ==
    ASSUME TypeOK, Handing, NEW c, Enters(c), pc.stage # "post"
    PROVE  Handing'
<1>1. /\ c \in Composites /\ c \in Step /\ pc.stage \in {"pre", "main"} /\ pc.i <= Len(Top)
      /\ Parent(c) = "job" /\ pc.j = 0 /\ Rank(pc.stage, c) = pc.i
  BY OpenAtPosition DEF Enters, TypeOK, Stage
<1>2. /\ pc'.stage = pc.stage /\ pc'.j = 1 /\ \A d \in Composites : ~Inside(pc, d) /\ (Inside(pc', d) <=> d = c)
      /\ \A t \in Step : Ahead(pc', t) <=> Ahead(pc, t)
  BY EnterPasses DEF Enters, TypeOK
<1>3. "job" \in Scope /\ c \in Scope /\ Composites \subseteq Scope /\ Composites \subseteq Step /\ c # "job" /\ c # "nil"
  BY <1>1, StepsAssumption DEF Scope, StepsAssumption
<1>4. /\ env' = [env EXCEPT ![c] = env["job"]] /\ path' = [path EXCEPT ![c] = path["job"]]
      /\ globalRef' = IF c \in opened THEN globalRef ELSE [globalRef EXCEPT ![c] = globalRef["job"]]
      /\ globalEnv' = globalEnv /\ wrote' = wrote
  BY DEF Enters, getCompositeRunContext, evaluateCompositeInputAndEnv
<1>5. HandTypes'
  BY <1>3, <1>4 DEF Handing, HandTypes
<1>6. Ahead(pc, c)
  BY <1>1 DEF Ahead, PositionOK, TypeOK
<1>7. globalRef[c] \in {"nil", "job"}
  BY <1>1, <1>2, <1>6 DEF Handing, RefsOK
<1>8. /\ globalRef'["job"] = globalRef["job"]
      /\ globalRef'[c] \in {"nil", "job"} /\ (globalRef'[c] = "job" => globalRef["job"] = "job")
      /\ \A d \in Composites : d # c => globalRef'[d] = globalRef[d]
  BY <1>1, <1>3, <1>4, <1>7 DEF Handing, HandTypes, RefsOK
<1>9. RefsOK'
  BY <1>1, <1>2, <1>3, <1>4, <1>8 DEF Handing, RefsOK
<1>10. env'[c] = env["job"] /\ env'["job"] = env["job"] /\ path'[c] = path["job"]
  BY <1>3, <1>4 DEF Handing, HandTypes
<1>11. globalEnv["job"] \in {"unset", env["job"]} /\ Finds("job")
  BY <1>1 DEF Handing, HandedOn
<1>12. Exported(c)' \in {"unset", env["job"]}
  BY <1>4, <1>8, <1>11 DEF Exported
<1>13. Finds(c)'
  BY <1>4, <1>10, <1>11 DEF Finds
<1>14. HandedOn'
  BY <1>1, <1>2, <1>4, <1>10, <1>11, <1>12, <1>13 DEF Handing, HandedOn
<1>15. QED
  BY <1>5, <1>9, <1>14 DEF Handing

\* The job takes over what a composite action exported.
LEMMA CloseHands ==
    ASSUME TypeOK, Handing, NEW c, CloseComposite(c)
    PROVE  Handing'
<1>1. c \in Composites /\ Inside(pc, c) /\ Passes(c) /\ wrote' = wrote
  BY CloseChanges
<1>2. /\ pc.stage \in Stage /\ pc'.stage = pc.stage /\ pc'.j = 0 /\ pc.j # 0
      /\ \A d \in Composites : ~Inside(pc', d)
      /\ \A d \in Composites : Inside(pc, d) => d = c
      /\ \A t \in Step : Ahead(pc', t) => Ahead(pc, t)
      /\ ~Ahead(pc', c)
  <2>1. Parent(c) = "job" /\ PositionOK(pc)
    BY CloseChanges DEF TypeOK
  <2>2. pc.stage \in Stage
    BY DEF CloseComposite, At
  <2>3. pc'.stage = pc.stage /\ pc'.j = 0 /\ ~Ahead(pc', c) /\ \A t \in Step : Ahead(pc', t) => Ahead(pc, t)
    BY <1>1, <2>1 DEF Passes
  <2>4. pc.j # 0 /\ \A d \in Composites : ~Inside(pc', d)
    BY <1>1, <2>3 DEF Inside
  <2>5. \A d \in Composites : Inside(pc, d) => d = c
    BY <1>1, OneInside
  <2>6. QED
    BY <2>2, <2>3, <2>4, <2>5
<1>3. "job" \in Scope /\ c \in Scope /\ Composites \subseteq Scope /\ Composites \subseteq Step /\ c # "job" /\ "job" \notin Composites
  BY <1>1, StepsAssumption DEF Scope, StepsAssumption
<1>4. CASE pc.stage # "main"
  <2>1. UNCHANGED <<env, path, globalRef, globalEnv>>
    BY <1>4 DEF CloseComposite
  <2>2. HandTypes'
    BY <1>1, <2>1 DEF Handing, HandTypes
  <2>3. RefsOK'
    BY <1>2, <1>4, <2>1 DEF Handing, RefsOK
  <2>4. CASE pc.stage = "pre"
    <3>1. env[c] = env["job"] /\ wrote = << >>
      BY <1>1, <2>4 DEF Handing, HandedOn
    <3>2. globalEnv["job"] \in {"unset", env["job"]}
      BY <1>1, <2>4, <3>1 DEF Handing, HandedOn, Exported
    <3>3. QED
      BY <1>1, <1>2, <2>1, <2>2, <2>3, <2>4, <3>1, <3>2 DEF Handing, HandedOn, Finds
  <2>5. CASE pc.stage = "post"
    BY <1>2, <2>2, <2>3, <2>5 DEF Handing, HandedOn
  <2>6. QED
    BY <1>2, <1>4, <2>4, <2>5 DEF Stage
<1>5. CASE pc.stage = "main"
  <2> DEFINE v == Exported(c)
  <2>1. /\ path' = [path EXCEPT !["job"] = path[c]]
        /\ globalRef' = [globalRef EXCEPT !["job"] = IF globalRef["job"] = "nil" THEN "job" ELSE globalRef["job"]]
        /\ globalEnv' = IF v = "unset" THEN globalEnv ELSE [globalEnv EXCEPT !["job"] = v]
        /\ env' = IF v = "unset" THEN env ELSE [env EXCEPT !["job"] = v]
    BY <1>5 DEF CloseComposite, MergeComposite, Exported
  <2>2. v \in Step \cup {"unset"}
    BY <1>1, <1>3 DEF Exported, Handing, HandTypes, RefsOK
  <2>3. /\ Finds(c)
        /\ v = env[c] \/ (v = "unset" /\ env[c] = env["job"])
        /\ globalRef[c] # "job" => globalEnv["job"] \in {"unset", env["job"]}
        /\ globalRef[c] = "job" => v = globalEnv["job"]
    BY <1>1, <1>5 DEF Handing, HandedOn, Exported
  <2> HIDE DEF v
  <2>4. HandTypes'
    BY <1>1, <1>3, <2>1, <2>2 DEF Handing, HandTypes
  <2>5. globalRef'["job"] = "job" /\ \A d \in Composites : globalRef'[d] = globalRef[d]
    BY <1>3, <2>1 DEF Handing, HandTypes, RefsOK
  <2>6. RefsOK'
    BY <1>2, <1>3, <1>5, <2>5 DEF Handing, RefsOK
  <2>7. /\ path'["job"] = path[c]
        /\ IF v = "unset" THEN env'["job"] = env["job"] /\ globalEnv'["job"] = globalEnv["job"]
           ELSE env'["job"] = v /\ globalEnv'["job"] = v
    BY <1>3, <2>1 DEF Handing, HandTypes
  <2>8. globalEnv'["job"] \in {"unset", env'["job"]}
    BY <2>3, <2>7
  <2>9. Finds("job")'
    <3>1. SUFFICES ASSUME wrote # << >> PROVE env'["job"] = Last(wrote) /\ ToSet(wrote) \subseteq path'["job"]
      BY <1>1 DEF Finds
    <3>2. env[c] = Last(wrote) /\ ToSet(wrote) \subseteq path[c]
      BY <2>3, <3>1 DEF Finds
    <3>3. Last(wrote) \in Step /\ Last(wrote) # "unset"
      BY <3>1, StepsAssumption DEF Handing, HandTypes, Last, StepsAssumption
    <3>4. QED
      BY <2>3, <2>7, <3>2, <3>3
  <2>10. HandedOn'
    BY <1>2, <1>5, <2>8, <2>9 DEF HandedOn
  <2>11. QED
    BY <2>4, <2>6, <2>10 DEF Handing
<1>6. QED
  BY <1>4, <1>5

\* What steps hand on keeps arriving.
LEMMA HandingKept ==
    ASSUME NoNestedPreWriter, TypeOK, Handing, [Next]_vars
    PROVE  Handing'
<1>1. PositionOK(pc) /\ Composites \subseteq Step
  BY StepsAssumption DEF TypeOK, StepsAssumption
<1>2. CASE Between
  <2>1. UNCHANGED <<env, path, globalRef, globalEnv, wrote>> /\ (pc' = pc \/ (pc.j = 0 /\ pc'.j = 0))
    BY <1>2, BetweenMoves DEF handVars
  <2>2. CASE pc' = pc
    BY <2>1, <2>2, UnwrittenHands
  <2>3. CASE pc' # pc
    <3>1. pc.j = 0 /\ pc'.j = 0 /\ \A c \in Composites : ~Inside(pc, c) /\ ~Inside(pc', c)
      BY <2>1, <2>3 DEF Inside
    <3>2. HandTypes'
      BY <2>1 DEF Handing, HandTypes
    <3>3. \/ pc.stage = "setup" /\ pc'.stage \in {"pre", "main"}
          \/ pc.stage = "pre" /\ pc'.stage = "main"
          \/ pc'.stage \in {"post", "end"}
      BY <1>1, <1>2, <2>3 DEF Between, PrepareActions, MainStage, postStepsContext, JobEnds, CtxEnds, FreshExpires,
           runMainStepsAfterInterrupt, PositionOK, Over
    <3>4. RefsOK'
      BY <2>1, <3>1, <3>3 DEF Handing, RefsOK
    <3>5. HandedOn'
      BY <2>1, <3>1, <3>3 DEF Handing, HandedOn, Finds
    <3>6. QED
      BY <3>2, <3>4, <3>5 DEF Handing
  <2>4. QED
    BY <2>2, <2>3
<1>3. CASE UNCHANGED vars
  BY <1>3, UnwrittenHands DEF vars
<1>4. ASSUME NEW s,
             NoStage(s) \/ Unprepared(s) \/ Unevaluated(s) \/ Skipped(s) \/ RunStep(s) \/ EntryFails(s)
      PROVE  Handing'
  <2>1. PICK e \in Errs : StepEnds(s, e)
    BY <1>4, StageEnds
  <2>2. s \in Step /\ pc.stage \in Stage /\ Passes(s)
    BY <2>1, EndChanges
  <2>3. (Parent(s) = "job" <=> pc.j = 0) /\ pc.j \in Nat
    BY <1>1, <2>1, LevelHere DEF StepEnds, PositionOK
  <2>4. /\ pc'.stage = pc.stage
        /\ \A c \in Composites : Ahead(pc', c) => Ahead(pc, c)
        /\ \A c \in Composites : Inside(pc', c) <=> Inside(pc, c)
        /\ pc'.j = 0 <=> pc.j = 0
    <3>1. CASE Parent(s) = "job"
      BY <1>1, <2>2, <2>3, <3>1 DEF Passes, Inside
    <3>2. CASE Parent(s) # "job"
      BY <1>1, <2>2, <2>3, <3>2, OneInside DEF Passes, Inside
    <3>3. QED
      BY <3>1, <3>2
  <2>5. CASE UNCHANGED <<env, path, globalRef, globalEnv, wrote>>
    BY <2>4, <2>5, UnwrittenHands
  <2>6. CASE ~UNCHANGED <<env, path, globalRef, globalEnv, wrote>>
    <3> DEFINE m == IF globalRef[Parent(s)] = "nil" THEN Parent(s) ELSE globalRef[Parent(s)]
    <3>1. /\ <<pc.stage, s>> \in Writers
          /\ env' = [env EXCEPT ![Parent(s)] = s] /\ path' = [path EXCEPT ![Parent(s)] = @ \cup {s}]
          /\ globalRef' = [globalRef EXCEPT ![Parent(s)] = m] /\ globalEnv' = [globalEnv EXCEPT ![m] = s]
          /\ wrote' = IF pc.stage = "main" THEN Append(wrote, s) ELSE wrote
      <4>1. RunStep(s)
        BY <1>4, <2>6 DEF NoStage, Unprepared, Unevaluated, Skipped, EntryFails, handVars
      <4>2. QED
        BY <2>6, <4>1 DEF RunStep, Hand
    <3>2. CASE Parent(s) = "job"
      <4>1. m = "job"
        BY <3>2 DEF Handing, RefsOK
      <4>2. QED
        BY <2>2, <2>3, <2>4, <3>1, <3>2, <4>1, JobWrites
    <3>3. CASE Parent(s) # "job"
      <4>1. Parent(s) \in Composites /\ Inside(pc, Parent(s)) /\ pc'.j # 0
        BY <2>2, <2>3, <2>4, <3>3, TwoLevels DEF Passes
      <4>2. pc.stage \in {"main", "post"}
        BY <2>2, <3>1, <3>3 DEF NoNestedPreWriter, Stage
      <4> HIDE DEF m
      <4>3. m = IF globalRef[Parent(s)] = "nil" THEN Parent(s) ELSE globalRef[Parent(s)]
        BY DEF m
      <4>4. QED
        BY <2>2, <2>4, <3>1, <4>1, <4>2, <4>3, ChildWrites
    <3>4. QED
      BY <3>2, <3>3
  <2>7. QED
    BY <2>5, <2>6
<1>5. ASSUME NEW c, Enters(c) PROVE Handing'
  <2>1. CASE pc.stage # "post"
    BY <1>5, <2>1, EntryHands
  <2>2. CASE pc.stage = "post"
    <3>1. UNCHANGED <<env, path, globalRef, globalEnv, wrote>>
      BY <1>5, <2>2 DEF Enters, handVars
    <3>2. pc'.stage = pc.stage
      BY <1>1, <1>5, EnterPasses DEF Enters
    <3>3. HandTypes'
      BY <3>1 DEF Handing, HandTypes
    <3>4. RefsOK' /\ HandedOn'
      BY <2>2, <3>1, <3>2 DEF Handing, RefsOK, HandedOn
    <3>5. QED
      BY <3>3, <3>4 DEF Handing
  <2>3. QED
    BY <2>1, <2>2
<1>6. ASSUME NEW c, CloseComposite(c) PROVE Handing'
  BY <1>6, CloseHands
<1>7. QED
  BY <1>2, <1>3, <1>4, <1>5, <1>6, NextSplits


-----------------------------------------------------------------------------
(* The inductive invariant and the theorems.                               *)

StepsInv ==
    /\ TypeOK /\ Untouched /\ JudgedByOwnScope
    /\ CompositeEarned /\ ChildrenCounted /\ CancelHolds /\ ErrorsMarked
    /\ TracesKept /\ Reached /\ PostGiven /\ PostDue /\ PostOnce /\ PostReversed
    /\ StateKept

\* At the start no step has run and every one is ahead.
LEMMA StepsInit ==
    ASSUME Init
    PROVE  StepsInv
<1>1. Len(Top) \in Nat /\ pc = [stage |-> "setup", i |-> 1, j |-> 0]
  BY ScopesAreSequences DEF Init, Scope, StepsOf
<1>2. PositionOK(pc)
  BY <1>1 DEF PositionOK
<1>3. TypeOK
  <2>1. /\ ctx \in [job : {"live", "cancel", "timeout"}, fresh : {"live", "expired"}, used : {"job", "fresh"}]
        /\ job \in JobMarks
    BY DEF Init, JobMarks
  <2>2. cond \in [Step -> {"success", "failure", "always"}] /\ result \in [Step -> {"none", "success", "failure", "skipped"}]
    BY DEF Init
  <2>3. childErr \in [Composites -> Errs] /\ download \in [NotPrepared -> {"ok", "fails"}]
    BY DEF Init, Errs
  <2>4. opened = {} /\ preStarted = {} /\ barred = {} /\ erred = {} /\ ran = << >>
    BY DEF Init
  <2>5. QED
    BY <1>2, <2>1, <2>2, <2>3, <2>4 DEF TypeOK
<1>4. /\ ran = << >> /\ DOMAIN ran = {} /\ ToSet(ran) = {} /\ erred = {} /\ preStarted = {}
      /\ \A s \in Step : result[s] = "none"
  BY DEF Init, ToSet
<1>5. \A st, s : ~Ran(st, s)
  BY <1>4 DEF Ran
<1>6. Untouched /\ JudgedByOwnScope
  BY <1>4, <1>5 DEF Untouched, JudgedByOwnScope
<1>7. \A c \in Composites : ~Inside(pc, c) /\ result[c] = "none"
  BY <1>1, <1>4, StepsAssumption DEF Inside, StepsAssumption
<1>8. CompositeEarned /\ ChildrenCounted /\ CancelHolds /\ ErrorsMarked
  BY <1>4, <1>7 DEF CompositeEarned, ChildrenCounted, CancelHolds, ErrorsMarked
<1>9. TracesKept /\ Reached /\ PostGiven /\ PostDue
  BY <1>1, <1>4, <1>5 DEF TracesKept, Reached, NothingRan, PostGiven, PostDue
<1>10. PostOnce /\ PostReversed
  BY <1>4 DEF PostOnce, PostReversed
<1>11. StateKept
  <2>1. saved = [sc \in Scope |-> [i \in 1 .. Len(StepsOf(sc)) |-> {}]] /\ kept = [s \in Step |-> {}]
    BY DEF Init
  <2>2. \A s \in Step : Parent(s) \in Scope /\ ID(s) \in 1 .. Len(StepsOf(Parent(s)))
    BY StepHasPlace, ScopesAreSequences
  <2>3. QED
    BY <2>1, <2>2 DEF StateKept
<1>12. QED
  BY <1>3, <1>6, <1>8, <1>9, <1>10, <1>11 DEF StepsInv

\* Every step of the specification keeps the inductive invariant.
LEMMA StepsNext ==
    ASSUME StepsInv, [Next]_vars
    PROVE  StepsInv'
<1>1. TypeOK' /\ Untouched' /\ JudgedByOwnScope'
  BY TypesKept, UntouchedKept, JudgementKept DEF StepsInv
<1>2. CompositeEarned' /\ ChildrenCounted' /\ CancelHolds' /\ ErrorsMarked'
  BY EarnedKept, CountKept, CancelKept, ErrorsKept DEF StepsInv
<1>3. TracesKept' /\ Reached' /\ PostGiven' /\ PostDue'
  BY TracesStay, ReachedKept, GivenKept, DueKept DEF StepsInv
<1>4. PostOnce' /\ PostReversed' /\ StateKept'
  BY OrderKept, StateStays DEF StepsInv
<1>5. QED
  BY <1>1, <1>2, <1>3, <1>4 DEF StepsInv

\* The inductive invariant holds throughout.
LEMMA StepsInvariant == Spec => []StepsInv
<1>1. Init => StepsInv
  BY StepsInit
<1>2. StepsInv /\ [Next]_vars => StepsInv'
  BY StepsNext
<1>3. QED
  BY <1>1, <1>2, PTL DEF Spec

\* The position, contexts, results and histories of a job's steps keep their
\* types; in particular the position is within the job's steps, and within a
\* composite action only while its stage runs.
THEOREM TypesTheorem == Spec => []TypeOK
<1>1. StepsInv => TypeOK
  BY DEF StepsInv
<1>2. QED
  BY <1>1, StepsInvariant, PTL

\* success() and failure() of a step in a composite action are about the steps
\* before it in the same action (getJobContext and getStepsContext of the
\* composite run context), whatever became of the job.
THEOREM JudgementTheorem == Spec => []JudgedByOwnScope
<1>1. StepsInv => JudgedByOwnScope
  BY DEF StepsInv
<1>2. QED
  BY <1>1, StepsInvariant, PTL

\* The post stage of an action finds in IntraActionState what its own pre and
\* main stages saved and nothing else, for every nesting of steps with the
\* same IDs.
THEOREM StateTheorem == Spec => []StateReachesOwnPost
<1>1. StepsInv => StateReachesOwnPost
  BY DEF StepsInv, StateKept, StateReachesOwnPost
<1>2. QED
  BY <1>1, StepsInvariant, PTL

\* A composite action succeeds only when all its steps were reached and none
\* failed, a job only when every error was tolerated: the errors that
\* newCompositeStepLogExecutor keeps and reportStepError records lose none.
THEOREM SuccessTheorem == Spec => []SuccessIsEarned
<1>1. StepsInv => SuccessIsEarned
  <2> SUFFICES ASSUME StepsInv PROVE SuccessIsEarned
    OBVIOUS
  <2>1. ASSUME NEW c \in Composites \ Tolerant, result[c] = "success", NEW s \in ToSet(Children[c])
        PROVE  result[s] # "none" /\ <<"main", s>> \notin erred
    <3>1. c \in Scope /\ c # "job"
      BY StepsAssumption DEF StepsAssumption, Scope
    <3>2. PICK k \in DOMAIN StepsOf(c) : s = StepsOf(c)[k]
      BY <2>1, <3>1 DEF StepsOf, ToSet
    <3>3. s \in Step /\ Parent(s) = c
      BY <3>1, <3>2, PlaceOfStep
    <3>4. QED
      BY <2>1, <3>3 DEF StepsInv, CompositeEarned
  <2>2. ASSUME pc.stage = "end", Verdict = "success", NEW x \in erred
        PROVE  x[1] # "post" /\ Parent(x[2]) \in Tolerant
    <3>1. ~Marked
      BY <2>2 DEF Verdict, Marked
    <3>2. PositionOK(pc)
      BY DEF StepsInv, TypeOK
    <3>3. pc.j = 0
      BY <2>2, <3>2 DEF PositionOK, Stage
    <3>4. \A c : ~Inside(pc, c)
      BY <3>3 DEF Inside
    <3>5. QED
      BY <2>2, <3>1, <3>4 DEF StepsInv, ErrorsMarked
  <2>3. QED
    BY <2>1, <2>2 DEF SuccessIsEarned
<1>2. QED
  BY <1>1, StepsInvariant, PTL

\* An action whose pre or main stage ran gets its post stage, once and in the
\* reverse order of the main stages, unless the entry of its composite action
\* or its own evaluation failed; no other action gets one (shouldRunPostStep).
THEOREM PostsTheorem == Spec => []PostsPaired
<1>1. StepsInv => PostsPaired
  <2> SUFFICES ASSUME StepsInv, pc.stage = "end" PROVE PostsPaired
    BY DEF PostsPaired
  <2>1. ASSUME NEW s \in Step, Kind[s] = "action", Ran("pre", s) \/ Ran("main", s), ~PostLost(s)
        PROVE  \E n \in {m \in DOMAIN ran : ran[m] = <<"post", s>>} : {m \in DOMAIN ran : ran[m] = <<"post", s>>} = {n}
    <3>1. PostDone(s)
      BY DEF PostDone, NotYet
    <3>2. Ran("post", s)
      BY <2>1, <3>1 DEF StepsInv, PostGiven
    <3>3. PICK n \in DOMAIN ran : ran[n] = <<"post", s>>
      BY <3>2 DEF Ran, ToSet
    <3>4. \A m \in DOMAIN ran : ran[m] = <<"post", s>> => m = n
      BY <3>3 DEF StepsInv, PostOnce
    <3>5. QED
      BY <3>3, <3>4
  <2>2. ASSUME NEW s \in Step, {m \in DOMAIN ran : ran[m] = <<"post", s>>} # {}
        PROVE  Ran("pre", s) \/ result[s] \in {"success", "failure"}
    <3>1. Ran("post", s)
      BY <2>2 DEF Ran, ToSet
    <3>2. QED
      BY <3>1 DEF StepsInv, PostDue
  <2>3. PostReversed
    BY DEF StepsInv
  <2>4. QED
    BY <2>1, <2>2, <2>3 DEF PostsPaired, PostReversed
<1>2. QED
  BY <1>1, StepsInvariant, PTL

\* Without a nested writer in the pre stage, a main step finds the variable as
\* the last main step before it left it and every path they added, across the
\* borders of composite actions.  The hypothesis is needed: a nested pre step
\* that writes before any other makes the map of its composite action, and the
\* main stage of the action then merges that old value over later ones.
THEOREM HandingTheorem ==
    ASSUME NoNestedPreWriter
    PROVE  Spec => []EnvReachesLaterSteps
<1>1. Init => Handing
  <2> SUFFICES ASSUME Init PROVE Handing
    OBVIOUS
  <2>1. /\ pc.stage = "setup" /\ pc.j = 0 /\ wrote = << >>
        /\ env = [sc \in Scope |-> "unset"] /\ path = [sc \in Scope |-> {}]
        /\ globalRef = [sc \in Scope |-> "nil"] /\ globalEnv = [sc \in Scope |-> "unset"]
    BY DEF Init
  <2>2. "job" \in Scope /\ Composites \subseteq Scope
    BY DEF Scope
  <2>3. HandTypes
    BY <2>1 DEF HandTypes
  <2>4. "nil" \notin Composites
    BY StepsAssumption DEF StepsAssumption
  <2>5. RefsOK
    BY <2>1, <2>2, <2>4 DEF RefsOK
  <2>6. HandedOn
    BY <2>1, <2>2 DEF HandedOn, Finds, Inside
  <2>7. QED
    BY <2>3, <2>5, <2>6 DEF Handing
<1>2. TypeOK /\ Handing /\ [Next]_vars => Handing'
  BY HandingKept
<1>3. TypeOK /\ Handing => EnvReachesLaterSteps
  <2> SUFFICES ASSUME TypeOK, Handing, NEW s \in Step, At("main", "step", s), wrote # << >>
               PROVE  env[Parent(s)] = Last(wrote) /\ ToSet(wrote) \subseteq path[Parent(s)]
    BY DEF EnvReachesLaterSteps
  <2>1. pc.stage = "main" /\ PositionOK(pc)
    BY DEF At, TypeOK
  <2>2. \/ Parent(s) = "job" /\ pc.j = 0
        \/ Parent(s) \in Composites /\ Inside(pc, Parent(s))
    BY <2>1, StepAtPosition DEF Inside
  <2>3. Finds(Parent(s))
    BY <2>1, <2>2 DEF Handing, HandedOn
  <2>4. QED
    BY <2>3 DEF Finds
<1>4. QED
  BY <1>1, <1>2, <1>3, TypesTheorem, PTL DEF Spec

-----------------------------------------------------------------------------
(* Action fetching: the inductive invariant.                               *)

CallType ==
    [at : Fetching \cup {"idle", "follow", "fetched", "reading", "ended", "failed", "dead"}, ctx : {"live", "done"},
     sha : Commits \cup {None}, known : Commits \cup {None}, etag : BOOLEAN, via : {"archive", "clone"}, try : Nat,
     tagged : BOOLEAN, seen : SUBSET Commits, harm : BOOLEAN]

DirType ==
    [record : Commits \cup {None}, etag : BOOLEAN, tree : [Commits -> {"absent", "whole", "damaged"}],
     sizes : [Commits -> {"absent", "torn", "whole"}], clone : Commits \cup {None}]

FetchTypeOK ==
    /\ call \in [Jobs -> CallType]
    /\ flight \in [Procs -> Jobs \cup {None}]
    /\ dirLock \in Jobs \cup {None}
    /\ treeLock \in [Commits -> Jobs \cup {None}]
    /\ disk \in DirType
    /\ remote \in [mode : Modes, tip : Commits]
    /\ budget \in [left : Nat, swap : BOOLEAN]

\* A call holds the lock of the action's directory from its record until its
\* answer is handed over.
Holds(r) ==
    r.at \in {"record", "download", "resolve", "extract", "sizes", "place", "swap", "moved", "save"}
        \/ (r.at = "finish" /\ r.sha # None)

\* It has found its commit.
Named(r) ==
    r.at \in {"extract", "sizes", "place", "swap", "moved", "save"} \/ (r.at = "finish" /\ r.sha # None)

\* The commit of the record is still as it was found; the one that is answered
\* is there, at its sizes unless they were never recorded.
Good(c, harm) == disk.tree[c] # "absent" /\ disk.sizes[c] = "whole" /\ (harm \/ disk.tree[c] = "whole")
Old(c) == remote.mode = "offline" /\ disk.tree[c] # "absent" /\ disk.sizes[c] = "absent"

HoldOK(j, r) ==
    /\ Holds(r) => dirLock = j
    /\ Named(r) => r.sha \in Commits
    /\ r.at = "resolve" => r.via = "clone"
    /\ r.at \in {"download", "extract"} /\ r.via = "archive" /\ r.known # None => Good(r.known, r.harm)
    /\ r.at \in {"swap", "moved"} => disk.sizes[r.sha] = "whole"
    /\ r.at = "moved" => treeLock[r.sha] = j
    /\ r.at = "save" => Good(r.sha, r.harm)
    /\ r.at = "finish" /\ r.sha # None => Good(r.sha, r.harm) \/ Old(r.sha)

\* The calls that fetch have seen the tip, and answer with what they have seen.
SeenOK(r) ==
    /\ r.at \in Fetching => remote.tip \in r.seen
    /\ Named(r) /\ remote.mode = "online" => r.sha \in r.seen

\* A tree that is being replaced.
Moving(c) == \E k \in Jobs : call[k].at = "moved" /\ call[k].sha = c

\* What is read is there, unless it is being replaced or a replacement broke off.
ReadOK(j, r) ==
    r.at \in {"fetched", "reading"} =>
        /\ r.sha \in Commits
        /\ r.at = "reading" => treeLock[r.sha] = j
        /\ budget.swap => disk.tree[r.sha] # "absent" \/ Moving(r.sha)

FetchInv ==
    FetchTypeOK /\ \A j \in Jobs : HoldOK(j, call[j]) /\ SeenOK(call[j]) /\ ReadOK(j, call[j])

-----------------------------------------------------------------------------
(* Calls.                                                                  *)

\* A call that is new, over or ending.
LEMMA NewCallType ==
    /\ NewCall \in CallType
    /\ NewCall.at = "idle" /\ NewCall.sha = None /\ NewCall.known = None /\ NewCall.via = "archive"
BY FetchAssumption DEF NewCall, CallType

\* A call that is over.
LEMMA OverType ==
    ASSUME NEW how \in {"ended", "failed", "dead"}
    PROVE  CallOver(how) \in CallType /\ CallOver(how).at = how
BY NewCallType DEF CallOver, CallType

\* A call that is about to end keeps what it has seen.
LEMMA EndingType ==
    ASSUME NEW r \in CallType, NEW sha \in Commits \cup {None}
    PROVE  /\ Ending(r, sha) \in CallType /\ Ending(r, sha).at = "finish" /\ Ending(r, sha).sha = sha
           /\ Ending(r, sha).seen = r.seen /\ Ending(r, sha).harm = r.harm
<1>1. r.ctx \in {"live", "done"} /\ r.seen \in SUBSET Commits /\ r.harm \in BOOLEAN
  BY DEF CallType
<1>2. Ending(r, sha) \in CallType
  BY <1>1, NewCallType DEF Ending, CallType, Fetching
<1>3. Ending(r, sha).at = "finish" /\ Ending(r, sha).sha = sha /\ Ending(r, sha).seen = r.seen
  BY NewCallType DEF Ending, CallType
<1>4. Ending(r, sha).harm = r.harm
  BY NewCallType DEF Ending, CallType
<1>5. QED
  BY <1>2, <1>3, <1>4

\* After an error a call ends without an answer, or clones.
LEMMA FailedType ==
    ASSUME NEW r \in CallType
    PROVE  /\ DownloadFailed(r) \in CallType /\ InstallFailed(r) \in CallType
           /\ \A e \in {DownloadFailed(r), InstallFailed(r)} :
                e.seen = r.seen /\ ((e.at = "resolve" /\ e.via = "clone") \/ (e.at = "finish" /\ e.sha = None))
<1> DEFINE d == [r EXCEPT !.at = "resolve", !.via = "clone", !.tagged = FALSE]
<1>1. d \in CallType /\ d.at = "resolve" /\ d.via = "clone" /\ d.seen = r.seen
  BY DEF CallType, Fetching
<1> HIDE DEF d
<1>2. Ending(r, None) \in CallType /\ Ending(r, None).at = "finish" /\ Ending(r, None).sha = None
      /\ Ending(r, None).seen = r.seen
  BY EndingType
<1>3. DownloadFailed(r) = d \/ DownloadFailed(r) = Ending(r, None)
  BY DEF DownloadFailed, d
<1>4. InstallFailed(r) = d \/ InstallFailed(r) = Ending(r, None)
  BY <1>3 DEF InstallFailed
<1>5. QED
  BY <1>1, <1>2, <1>3, <1>4

\* One call changes, the others do not.
LEMMA CallEffect ==
    ASSUME FetchTypeOK, NEW j \in Jobs, NEW e \in CallType, Call(j, e)
    PROVE  call' \in [Jobs -> CallType] /\ call'[j] = e /\ \A k \in Jobs \ {j} : call'[k] = call[k]
BY DEF FetchTypeOK, Call

\* A step of one call that keeps what it has to.
LEMMA OneCall ==
    ASSUME FetchInv, FetchTypeOK', NEW j \in Jobs, \A k \in Jobs \ {j} : call'[k] = call[k], remote' = remote,
           \A k \in Jobs \ {j} : Holds(call[k]) =>
                dirLock' = dirLock /\ disk'.tree = disk.tree /\ disk'.sizes = disk.sizes,
           \A k \in Jobs \ {j} : \A c \in Commits : treeLock[c] = k => treeLock'[c] = k,
           budget'.swap => budget.swap,
           \A c \in Commits : budget'.swap /\ (disk.tree[c] # "absent" \/ (call[j].at = "moved" /\ call[j].sha = c)) =>
                disk'.tree[c] # "absent" \/ (call'[j].at = "moved" /\ call'[j].sha = c),
           HoldOK(j, call[j])', SeenOK(call[j])', ReadOK(j, call[j])'
    PROVE  FetchInv'
<1> SUFFICES ASSUME NEW k \in Jobs, k # j
             PROVE  (HoldOK(k, call[k]) /\ SeenOK(call[k]) /\ ReadOK(k, call[k]))'
  BY DEF FetchInv
<1>1. call'[k] = call[k] /\ call[k] \in CallType /\ HoldOK(k, call[k]) /\ SeenOK(call[k]) /\ ReadOK(k, call[k])
  BY DEF FetchInv, FetchTypeOK
<1>2. SeenOK(call[k])'
  BY <1>1 DEF SeenOK, Named
<1>3. HoldOK(k, call[k])'
  <2>1. CASE Holds(call[k])
    <3>1. dirLock' = dirLock /\ disk'.tree = disk.tree /\ disk'.sizes = disk.sizes /\ call[k].sha \in Commits \cup {None}
      BY <1>1, <2>1 DEF CallType
    <3>2. call[k].at = "moved" => treeLock'[call[k].sha] = k
      BY <1>1, <3>1 DEF HoldOK, Named
    <3>3. QED
      BY <1>1, <3>1, <3>2 DEF HoldOK, Holds, Named, Good, Old
  <2>2. CASE ~Holds(call[k])
    BY <1>1, <2>2 DEF HoldOK, Holds, Named
  <2>3. QED
    BY <2>1, <2>2
<1>4. ReadOK(k, call[k])'
  <2> SUFFICES ASSUME call[k].at \in {"fetched", "reading"}
               PROVE  /\ call[k].sha \in Commits
                      /\ call[k].at = "reading" => treeLock'[call[k].sha] = k
                      /\ budget'.swap => disk'.tree[call[k].sha] # "absent" \/ Moving(call[k].sha)'
    BY <1>1 DEF ReadOK
  <2>1. call[k].sha \in Commits /\ (call[k].at = "reading" => treeLock'[call[k].sha] = k)
    BY <1>1 DEF ReadOK
  <2>2. ASSUME budget'.swap PROVE disk'.tree[call[k].sha] # "absent" \/ Moving(call[k].sha)'
    <3>1. disk.tree[call[k].sha] # "absent" \/ \E i \in Jobs : call[i].at = "moved" /\ call[i].sha = call[k].sha
      BY <1>1, <2>2 DEF ReadOK, Moving
    <3>2. (\E i \in Jobs : call'[i].at = "moved" /\ call'[i].sha = call[k].sha) => Moving(call[k].sha)'
      BY <1>1 DEF Moving
    <3>3. QED
      BY <2>1, <2>2, <3>1, <3>2
  <2>3. QED
    BY <2>1, <2>2
<1>5. QED
  BY <1>2, <1>3, <1>4

\* An event is spent.
LEMMA SpendType ==
    ASSUME FetchTypeOK, Spend \/ UNCHANGED budget
    PROVE  budget' \in [left : Nat, swap : BOOLEAN] /\ budget'.swap = budget.swap
BY DEF FetchTypeOK, Spend

\* A step of one call that leaves the locks and the trees alone.
LEMMA OnlyCall ==
    ASSUME FetchInv, NEW j \in Jobs, NEW e \in CallType, Call(j, e), UNCHANGED <<dirLock, treeLock, remote>>,
           disk' \in DirType, disk'.tree = disk.tree, disk'.sizes = disk.sizes,
           flight' \in [Procs -> Jobs \cup {None}], Spend \/ UNCHANGED budget,
           call[j].at # "moved", HoldOK(j, e), SeenOK(e), e.at \notin {"fetched", "reading"}
    PROVE  FetchInv'
<1>1. FetchTypeOK
  BY DEF FetchInv
<1>2. call' \in [Jobs -> CallType] /\ call'[j] = e /\ \A k \in Jobs \ {j} : call'[k] = call[k]
  BY <1>1, CallEffect
<1>3. budget' \in [left : Nat, swap : BOOLEAN] /\ budget'.swap = budget.swap
  BY <1>1, SpendType
<1>4. FetchTypeOK'
  BY <1>1, <1>2, <1>3 DEF FetchTypeOK
<1>5. HoldOK(j, call[j])'
  BY <1>2 DEF HoldOK, Good, Old
<1>6. SeenOK(call[j])' /\ ReadOK(j, call[j])'
  BY <1>2 DEF SeenOK, ReadOK
<1>7. QED
  BY <1>2, <1>3, <1>4, <1>5, <1>6, OneCall

\* What is known of a call at a step.
LEMMA Knows ==
    ASSUME FetchInv, NEW j \in Jobs
    PROVE  /\ call[j] \in CallType /\ HoldOK(j, call[j]) /\ SeenOK(call[j]) /\ ReadOK(j, call[j])
           /\ call[j].sha \in Commits \cup {None} /\ call[j].known \in Commits \cup {None}
           /\ remote.tip \in Commits /\ disk.record \in Commits \cup {None} /\ disk.clone \in Commits \cup {None}
           /\ disk \in DirType /\ flight \in [Procs -> Jobs \cup {None}] /\ FetchTypeOK
BY DEF FetchInv, FetchTypeOK, CallType, DirType

\* An error leaves nothing to show but the lock.
LEMMA FailedOK ==
    ASSUME FetchInv, NEW j \in Jobs, Holds(call[j]), NEW e \in {DownloadFailed(call[j]), InstallFailed(call[j])}
    PROVE  e \in CallType /\ HoldOK(j, e) /\ SeenOK(e) /\ e.at \notin {"fetched", "reading", "moved"}
<1>1. /\ e \in CallType /\ e.seen = call[j].seen
      /\ (e.at = "resolve" /\ e.via = "clone") \/ (e.at = "finish" /\ e.sha = None)
  BY Knows, FailedType
<1>2. dirLock = j /\ remote.tip \in call[j].seen
  BY Knows DEF HoldOK, SeenOK, Holds, Fetching
<1>3. HoldOK(j, e)
  BY <1>1, <1>2 DEF HoldOK, Holds, Named
<1>4. QED
  BY <1>1, <1>2, <1>3 DEF SeenOK, Named

\* FetchAction and its followers.
LEMMA Begins ==
    ASSUME FetchInv, NEW j \in Jobs, FetchAction(j) \/ FollowerGivesUp(j)
    PROVE  FetchInv'
<1> DEFINE a == [NewCall EXCEPT !.at = "lock", !.seen = {remote.tip}]
           b == [call[j] EXCEPT !.at = "follow"]
           f == [flight EXCEPT ![ProcOf[j]] = j]
<1>1. CallOver("failed") \in CallType /\ CallOver("failed").at = "failed"
  BY OverType
<1>2. a \in CallType /\ a.at = "lock" /\ remote.tip \in a.seen
  BY Knows, NewCallType DEF CallType, Fetching
<1>3. b \in CallType /\ b.at = "follow"
  BY Knows DEF CallType
<1>4. f \in [Procs -> Jobs \cup {None}]
  BY Knows, FetchAssumption
<1>5. UNCHANGED <<dirLock, treeLock, disk, remote, budget>> /\ (call[j].at = "idle" \/ call[j].at = "follow")
  BY DEF FetchAction, FollowerGivesUp
<1>6. \/ Call(j, CallOver("failed")) /\ UNCHANGED flight
      \/ Call(j, a) /\ flight' = f
      \/ Call(j, b) /\ UNCHANGED flight
  BY DEF FetchAction, FollowerGivesUp
<1> HIDE DEF a, b, f
<1>7. ASSUME NEW e \in CallType, e.at = "failed" \/ e.at = "follow" \/ (e.at = "lock" /\ remote.tip \in e.seen)
      PROVE  HoldOK(j, e) /\ SeenOK(e) /\ e.at \notin {"fetched", "reading"}
  BY <1>7 DEF HoldOK, SeenOK, Holds, Named, Fetching
<1>8. flight' \in [Procs -> Jobs \cup {None}] /\ disk' \in DirType /\ disk'.tree = disk.tree /\ disk'.sizes = disk.sizes
  BY <1>4, <1>5, <1>6, Knows
<1>9. call[j].at # "moved"
  BY <1>5
<1>10. QED
  BY <1>1, <1>2, <1>3, <1>5, <1>6, <1>7, <1>8, <1>9, OnlyCall

\* A call goes on at another step, or ends with a commit.
LEMMA GoesType ==
    ASSUME NEW r \in CallType, NEW where \in Fetching
    PROVE  LET e == [r EXCEPT !.at = where] IN
           e \in CallType /\ e.at = where /\ e.sha = r.sha /\ e.known = r.known /\ e.via = r.via /\ e.seen = r.seen
             /\ e.harm = r.harm
<1> DEFINE e == [r EXCEPT !.at = where]
<1>1. e \in CallType
  BY DEF CallType
<1>2. e.at = where /\ e.sha = r.sha /\ e.known = r.known /\ e.via = r.via /\ e.seen = r.seen
  BY DEF CallType
<1>3. e.harm = r.harm
  BY DEF CallType
<1>4. QED
  BY <1>1, <1>2, <1>3

\* The record is read.
LEMMA Reads ==
    ASSUME FetchInv, NEW j \in Jobs, ReadRecord(j)
    PROVE  FetchInv'
<1>1. /\ call[j].at = "record" /\ UNCHANGED <<flight, dirLock, treeLock, disk, remote, budget>>
      /\ \/ disk.record # None /\ Legacy(disk.record) /\ Ends(j, disk.record)
         \/ Known # None /\ remote.mode \in {"offline", "pinned"} /\ Ends(j, Known)
         \/ Call(j, [call[j] EXCEPT !.at = "download", !.known = Known, !.etag = Known # None /\ disk.etag])
  BY DEF ReadRecord
<1>2. dirLock = j /\ remote.tip \in call[j].seen
  BY <1>1, Knows DEF HoldOK, SeenOK, Holds, Fetching
<1>3. Known \in Commits \cup {None} /\ (Known # None => Known \in Commits /\ disk.tree[Known] = "whole" /\ disk.sizes[Known] = "whole")
  BY Knows DEF Known, treeIntact
<1>4. ASSUME NEW c \in Commits, Ends(j, c), Old(c) \/ (disk.tree[c] = "whole" /\ disk.sizes[c] = "whole"), remote.mode # "online"
      PROVE  FetchInv'
  <2> DEFINE e == Ending(call[j], c)
  <2>1. e \in CallType /\ e.at = "finish" /\ e.sha = c /\ e.seen = call[j].seen
    BY Knows, EndingType
  <2> HIDE DEF e
  <2>2. HoldOK(j, e) /\ SeenOK(e)
    BY <1>2, <1>4, <2>1 DEF HoldOK, SeenOK, Holds, Named, Good, Fetching
  <2>3. Call(j, e)
    BY <1>4 DEF Ends, e
  <2>4. QED
    BY <1>1, <2>1, <2>2, <2>3, Knows, OnlyCall
<1>5. ASSUME Call(j, [call[j] EXCEPT !.at = "download", !.known = Known, !.etag = Known # None /\ disk.etag])
      PROVE  FetchInv'
  <2> DEFINE e == [call[j] EXCEPT !.at = "download", !.known = Known, !.etag = Known # None /\ disk.etag]
  <2>1. (Known # None /\ disk.etag) \in BOOLEAN
    OBVIOUS
  <2>2. e \in CallType
    BY <1>3, <2>1, Knows DEF CallType, Fetching
  <2>3. e.at = "download" /\ e.known = Known /\ e.seen = call[j].seen
    BY Knows DEF CallType
  <2> HIDE DEF e
  <2>4. HoldOK(j, e) /\ SeenOK(e)
    BY <1>2, <1>3, <2>3 DEF HoldOK, SeenOK, Holds, Named, Good
  <2>5. Call(j, e)
    BY <1>5 DEF e
  <2>6. QED
    BY <1>1, <2>2, <2>3, <2>4, <2>5, Knows, OnlyCall
<1>6. CASE disk.record # None /\ Legacy(disk.record) /\ Ends(j, disk.record)
  <2>1. disk.record \in Commits /\ Old(disk.record) /\ remote.mode # "online"
    BY <1>6, Knows DEF Legacy, Old
  <2>2. QED
    BY <1>4, <1>6, <2>1
<1>7. CASE Known # None /\ remote.mode \in {"offline", "pinned"} /\ Ends(j, Known)
  <2>1. remote.mode # "online"
    BY <1>7
  <2>2. QED
    BY <1>3, <1>4, <1>7, <2>1
<1>8. QED
  BY <1>1, <1>5, <1>6, <1>7

\* A call that holds the lock and goes on within the flight.
LEMMA GoesOnHolding ==
    ASSUME FetchInv, NEW j \in Jobs, Holds(call[j]), call[j].at # "moved", NEW e \in CallType, Call(j, e),
           UNCHANGED <<flight, dirLock, treeLock, remote>>, Spend \/ UNCHANGED budget,
           disk' \in DirType, disk'.tree = disk.tree, disk'.sizes = disk.sizes,
           HoldOK(j, e), SeenOK(e), e.at \notin {"fetched", "reading"}
    PROVE  FetchInv'
BY Knows, OnlyCall

\* What a call that holds the lock knows.
LEMMA HolderKnows ==
    ASSUME FetchInv, NEW j \in Jobs, Holds(call[j])
    PROVE  dirLock = j /\ remote.tip \in call[j].seen
BY Knows DEF HoldOK, SeenOK, Holds, Fetching

\* The server answers.
LEMMA Downloads ==
    ASSUME FetchInv, NEW j \in Jobs, DownloadArchive(j)
    PROVE  FetchInv'
<1> DEFINE a == [call[j] EXCEPT !.at = "save", !.sha = call[j].known, !.tagged = TRUE]
           b == [call[j] EXCEPT !.at = "extract", !.sha = remote.tip, !.tagged = TRUE]
           d == [call[j] EXCEPT !.try = @ + 1]
<1>1. /\ call[j].at = "download" /\ call[j].via = "archive"
      /\ UNCHANGED <<flight, dirLock, treeLock, disk, remote>> /\ (Spend \/ UNCHANGED budget)
      /\ \/ Call(j, DownloadFailed(call[j]))
         \/ Call(j, a) /\ call[j].known = remote.tip
         \/ Call(j, b)
         \/ Call(j, d)
  BY DEF DownloadArchive
<1>2. /\ a \in CallType /\ a.at = "save" /\ a.sha = call[j].known /\ a.seen = call[j].seen
      /\ b \in CallType /\ b.at = "extract" /\ b.sha = remote.tip /\ b.known = call[j].known /\ b.via = call[j].via
      /\ b.seen = call[j].seen
  BY Knows DEF CallType, Fetching
<1>3. d \in CallType /\ d.at = "download" /\ d.known = call[j].known /\ d.via = call[j].via /\ d.seen = call[j].seen
  <2>1. call[j].try + 1 \in Nat
    BY Knows DEF CallType
  <2>2. QED
    BY <1>1, <2>1, Knows DEF CallType
<1>4. a.harm = call[j].harm /\ b.harm = call[j].harm /\ d.harm = call[j].harm
  BY Knows DEF CallType
<1> HIDE DEF a, b, d
<1>5. Holds(call[j]) /\ dirLock = j /\ remote.tip \in call[j].seen
  BY <1>1, HolderKnows DEF Holds
<1>6. call[j].known # None => Good(call[j].known, call[j].harm)
  BY <1>1, Knows DEF HoldOK
<1>7. /\ DownloadFailed(call[j]) \in CallType /\ HoldOK(j, DownloadFailed(call[j])) /\ SeenOK(DownloadFailed(call[j]))
      /\ DownloadFailed(call[j]).at \notin {"fetched", "reading"}
  BY <1>5, FailedOK
<1>8. call[j].known = remote.tip => HoldOK(j, a) /\ SeenOK(a)
  <2> SUFFICES ASSUME call[j].known = remote.tip PROVE HoldOK(j, a) /\ SeenOK(a)
    OBVIOUS
  <2>1. call[j].known \in Commits /\ call[j].known # None
    BY Knows, FetchAssumption
  <2>2. Good(a.sha, a.harm)
    BY <1>2, <1>4, <1>6, <2>1
  <2>3. QED
    BY <1>2, <1>5, <2>1, <2>2 DEF HoldOK, SeenOK, Holds, Named
<1>9. HoldOK(j, b) /\ SeenOK(b)
  <2>1. b.known # None => Good(b.known, b.harm)
    BY <1>2, <1>4, <1>6
  <2>2. QED
    BY <1>2, <1>5, <2>1, Knows DEF HoldOK, SeenOK, Holds, Named
<1>10. HoldOK(j, d) /\ SeenOK(d)
  <2>1. d.known # None => Good(d.known, d.harm)
    BY <1>3, <1>4, <1>6
  <2>2. QED
    BY <1>3, <1>5, <2>1 DEF HoldOK, SeenOK, Holds, Named
<1>11. disk' \in DirType /\ disk'.tree = disk.tree /\ disk'.sizes = disk.sizes /\ call[j].at # "moved"
  BY <1>1, Knows
<1>12. QED
  BY <1>1, <1>2, <1>3, <1>5, <1>7, <1>8, <1>9, <1>10, <1>11, GoesOnHolding

\* The clone resolves the ref, or fails to.
LEMMA Resolves ==
    ASSUME FetchInv, NEW j \in Jobs, ResolveClone(j) \/ ResolveFails(j)
    PROVE  FetchInv'
<1>1. call[j].at = "resolve" /\ UNCHANGED <<flight, dirLock, treeLock, remote>> /\ (Spend \/ UNCHANGED budget)
  BY DEF ResolveClone, ResolveFails
<1>2. Holds(call[j]) /\ dirLock = j /\ remote.tip \in call[j].seen /\ call[j].at # "moved"
  BY <1>1, HolderKnows DEF Holds
<1>3. CASE ResolveClone(j)
  <2> DEFINE where == IF treeIntact(ResolvedRef) THEN "save" ELSE "extract"
             e == [call[j] EXCEPT !.at = where, !.sha = ResolvedRef]
  <2>1. disk' = [disk EXCEPT !.clone = ResolvedRef] /\ Call(j, e)
    BY <1>3 DEF ResolveClone
  <2>2. ResolvedRef \in Commits /\ (remote.mode = "online" => ResolvedRef = remote.tip)
    BY Knows DEF ResolvedRef, CloneIfRequired
  <2>3. disk' \in DirType /\ disk'.tree = disk.tree /\ disk'.sizes = disk.sizes
    BY <2>1, <2>2, Knows DEF DirType
  <2>4. where \in Fetching /\ (where = "save" \/ where = "extract")
    BY DEF Fetching
  <2>5. /\ e \in CallType /\ e.at = where /\ e.sha = ResolvedRef /\ e.seen = call[j].seen /\ e.via = call[j].via
        /\ e.known = call[j].known
    BY <2>2, <2>4, Knows DEF CallType
  <2>6. where = "save" => disk.tree[ResolvedRef] = "whole" /\ disk.sizes[ResolvedRef] = "whole"
    BY DEF treeIntact
  <2>7. call[j].via = "clone"
    BY <1>1, Knows DEF HoldOK
  <2> HIDE DEF e, where
  <2>8. HoldOK(j, e) /\ SeenOK(e)
    BY <1>2, <2>2, <2>4, <2>5, <2>6, <2>7 DEF HoldOK, SeenOK, Holds, Named, Good
  <2>9. QED
    BY <1>1, <1>2, <2>1, <2>3, <2>4, <2>5, <2>8, GoesOnHolding
<1>4. CASE ResolveFails(j)
  <2> DEFINE e == Ending(call[j], None)
  <2>1. e \in CallType /\ e.at = "finish" /\ e.sha = None /\ e.seen = call[j].seen
    BY Knows, EndingType
  <2>2. Call(j, e) /\ disk' \in DirType /\ disk'.tree = disk.tree /\ disk'.sizes = disk.sizes
    BY <1>4, Knows DEF ResolveFails, Ends
  <2> HIDE DEF e
  <2>3. HoldOK(j, e) /\ SeenOK(e)
    BY <1>2, <2>1 DEF HoldOK, SeenOK, Holds, Named
  <2>4. QED
    BY <1>1, <1>2, <2>1, <2>2, <2>3, GoesOnHolding
<1>5. QED
  BY <1>3, <1>4

\* The archive's tree is there already, is extracted, or cannot be.
LEMMA Extracts ==
    ASSUME FetchInv, NEW j \in Jobs, ExtractTree(j) \/ ExtractFails(j)
    PROVE  FetchInv'
<1>1. call[j].at = "extract" /\ UNCHANGED <<flight, dirLock, treeLock, disk, remote>> /\ (Spend \/ UNCHANGED budget)
  BY DEF ExtractTree, ExtractFails
<1>2. /\ Holds(call[j]) /\ dirLock = j /\ remote.tip \in call[j].seen /\ call[j].at # "moved"
      /\ disk' \in DirType /\ disk'.tree = disk.tree /\ disk'.sizes = disk.sizes
  BY <1>1, HolderKnows, Knows DEF Holds
<1>3. call[j].sha \in Commits /\ (remote.mode = "online" => call[j].sha \in call[j].seen)
  BY <1>1, Knows DEF HoldOK, SeenOK, Named
<1>4. CASE ExtractTree(j)
  <2> DEFINE where == IF treeIntact(call[j].sha) THEN "save" ELSE "sizes"
             e == [call[j] EXCEPT !.at = where]
  <2>1. Call(j, e)
    BY <1>4 DEF ExtractTree, Goes
  <2>2. where \in Fetching /\ (where = "save" \/ where = "sizes")
    BY DEF Fetching
  <2>3. e \in CallType /\ e.at = where /\ e.sha = call[j].sha /\ e.seen = call[j].seen
    BY <2>2, Knows, GoesType
  <2>4. where = "save" => disk.tree[call[j].sha] = "whole" /\ disk.sizes[call[j].sha] = "whole"
    BY DEF treeIntact
  <2> HIDE DEF e, where
  <2>5. HoldOK(j, e) /\ SeenOK(e)
    BY <1>2, <1>3, <2>2, <2>3, <2>4 DEF HoldOK, SeenOK, Holds, Named, Good
  <2>6. QED
    BY <1>1, <1>2, <2>1, <2>2, <2>3, <2>5, GoesOnHolding
<1>5. CASE ExtractFails(j)
  <2> DEFINE e == [call[j] EXCEPT !.at = "download", !.try = @ + 1]
  <2>1. call[j].try + 1 \in Nat
    BY Knows DEF CallType
  <2>2. e \in CallType /\ e.at = "download" /\ e.known = call[j].known /\ e.via = call[j].via /\ e.seen = call[j].seen
    BY <2>1, Knows DEF CallType, Fetching
  <2>3. e.harm = call[j].harm
    BY Knows DEF CallType
  <2>4. Call(j, InstallFailed(call[j])) \/ (Call(j, e) /\ call[j].via = "archive")
    BY <1>5 DEF ExtractFails
  <2> HIDE DEF e
  <2>5. call[j].via = "archive" => HoldOK(j, e) /\ SeenOK(e)
    <3> SUFFICES ASSUME call[j].via = "archive" PROVE HoldOK(j, e) /\ SeenOK(e)
      OBVIOUS
    <3>1. call[j].known # None => Good(call[j].known, call[j].harm)
      BY <1>1, Knows DEF HoldOK
    <3>2. e.known # None => Good(e.known, e.harm)
      BY <2>2, <2>3, <3>1
    <3>3. QED
      BY <1>2, <2>2, <3>2 DEF HoldOK, SeenOK, Holds, Named
  <2>6. /\ InstallFailed(call[j]) \in CallType /\ HoldOK(j, InstallFailed(call[j])) /\ SeenOK(InstallFailed(call[j]))
        /\ InstallFailed(call[j]).at \notin {"fetched", "reading"}
    BY <1>2, FailedOK
  <2>7. QED
    BY <1>1, <1>2, <2>2, <2>4, <2>5, <2>6, GoesOnHolding
<1>6. QED
  BY <1>4, <1>5

\* The record is written, or not.
LEMMA Writes ==
    ASSUME FetchInv, NEW j \in Jobs, WriteRecord(j)
    PROVE  FetchInv'
<1>1. call[j].at = "save" /\ UNCHANGED <<flight, dirLock, treeLock, remote>> /\ (Spend \/ UNCHANGED budget)
  BY DEF WriteRecord
<1>2. Holds(call[j]) /\ dirLock = j /\ remote.tip \in call[j].seen /\ call[j].at # "moved"
  BY <1>1, HolderKnows DEF Holds
<1>3. /\ call[j].sha \in Commits /\ (remote.mode = "online" => call[j].sha \in call[j].seen)
      /\ Good(call[j].sha, call[j].harm)
  BY <1>1, Knows DEF HoldOK, SeenOK, Named
<1>4. PICK sha \in {call[j].sha, None} :
        Ends(j, sha) /\ disk' \in DirType /\ disk'.tree = disk.tree /\ disk'.sizes = disk.sizes
  <2>1. call[j].tagged \in BOOLEAN /\ FALSE \in BOOLEAN
    BY Knows DEF CallType
  <2>2. \A c \in Commits \cup {None}, b \in BOOLEAN :
          LET d == [disk EXCEPT !.record = c, !.etag = b] IN d \in DirType /\ d.tree = disk.tree /\ d.sizes = disk.sizes
    BY Knows DEF DirType
  <2>3. \/ disk' = [disk EXCEPT !.record = call[j].sha, !.etag = call[j].tagged] /\ Ends(j, call[j].sha)
        \/ disk' = [disk EXCEPT !.record = None, !.etag = FALSE] /\ Ends(j, None)
    BY DEF WriteRecord
  <2>4. CASE disk' = [disk EXCEPT !.record = call[j].sha, !.etag = call[j].tagged] /\ Ends(j, call[j].sha)
    BY <1>3, <2>1, <2>2, <2>4
  <2>5. CASE disk' = [disk EXCEPT !.record = None, !.etag = FALSE] /\ Ends(j, None)
    BY <2>1, <2>2, <2>5
  <2>6. QED
    BY <2>3, <2>4, <2>5
<1> DEFINE e == Ending(call[j], sha)
<1>5. e \in CallType /\ e.at = "finish" /\ e.sha = sha /\ e.seen = call[j].seen /\ e.harm = call[j].harm
  BY <1>3, Knows, EndingType
<1>6. Call(j, e)
  BY <1>4 DEF Ends
<1> HIDE DEF e
<1>7. e.sha # None => Good(e.sha, e.harm)
  BY <1>3, <1>5
<1>8. HoldOK(j, e) /\ SeenOK(e)
  BY <1>2, <1>3, <1>5, <1>7 DEF HoldOK, SeenOK, Holds, Named
<1>9. QED
  BY <1>1, <1>2, <1>4, <1>5, <1>6, <1>8, GoesOnHolding

\* The lock of the directory.
LEMMA LocksDir ==
    ASSUME FetchInv, NEW j \in Jobs, LockDir(j)
    PROVE  FetchInv'
<1>1. call[j].at = "lock" /\ UNCHANGED <<flight, treeLock, disk, remote, budget>>
  BY DEF LockDir
<1>2. remote.tip \in call[j].seen /\ call[j] \in CallType /\ FetchTypeOK /\ disk \in DirType
  BY <1>1, Knows DEF SeenOK, Fetching
<1>3. CASE dirLock = None /\ dirLock' = j /\ Goes(j, "record")
  <2> DEFINE e == [call[j] EXCEPT !.at = "record"]
  <2>1. e \in CallType /\ e.at = "record" /\ e.seen = call[j].seen
    BY <1>2, GoesType DEF Fetching
  <2>2. Call(j, e)
    BY <1>3 DEF Goes
  <2> HIDE DEF e
  <2>3. call' \in [Jobs -> CallType] /\ call'[j] = e /\ \A k \in Jobs \ {j} : call'[k] = call[k]
    BY <1>2, <2>1, <2>2, CallEffect
  <2>4. FetchTypeOK'
    BY <1>1, <1>2, <1>3, <2>3 DEF FetchTypeOK
  <2>5. \A k \in Jobs : ~Holds(call[k])
    BY <1>3, Knows, FetchAssumption DEF HoldOK
  <2>6. HoldOK(j, call[j])' /\ SeenOK(call[j])' /\ ReadOK(j, call[j])'
    BY <1>1, <1>2, <1>3, <2>1, <2>3 DEF HoldOK, SeenOK, ReadOK, Holds, Named
  <2>7. QED
    BY <1>1, <2>3, <2>4, <2>5, <2>6, OneCall
<1>4. CASE Ends(j, None) /\ UNCHANGED dirLock
  <2> DEFINE e == Ending(call[j], None)
  <2>1. e \in CallType /\ e.at = "finish" /\ e.sha = None /\ e.seen = call[j].seen
    BY <1>2, EndingType
  <2>2. Call(j, e)
    BY <1>4 DEF Ends
  <2> HIDE DEF e
  <2>3. HoldOK(j, e) /\ SeenOK(e)
    BY <1>2, <2>1 DEF HoldOK, SeenOK, Holds, Named
  <2>4. disk' \in DirType /\ disk'.tree = disk.tree /\ disk'.sizes = disk.sizes
    BY <1>1, <1>2
  <2>5. QED
    BY <1>1, <1>4, <2>1, <2>2, <2>3, <2>4, Knows, OnlyCall
<1>5. QED
  BY <1>3, <1>4 DEF LockDir

\* The call that holds the lock of the directory changes the trees.
LEMMA HolderStep ==
    ASSUME FetchInv, NEW j \in Jobs, Holds(call[j]), NEW e \in CallType, Call(j, e),
           UNCHANGED <<flight, dirLock, remote>>, disk' \in DirType, treeLock' \in [Commits -> Jobs \cup {None}],
           \A k \in Jobs \ {j} : \A c \in Commits : treeLock[c] = k => treeLock'[c] = k,
           budget' \in [left : Nat, swap : BOOLEAN], budget'.swap => budget.swap,
           \A c \in Commits : budget'.swap /\ (disk.tree[c] # "absent" \/ (call[j].at = "moved" /\ call[j].sha = c)) =>
                disk'.tree[c] # "absent" \/ (e.at = "moved" /\ e.sha = c),
           HoldOK(j, call[j])', SeenOK(e), e.at \notin {"fetched", "reading"}
    PROVE  FetchInv'
<1>1. FetchTypeOK /\ dirLock = j
  BY Knows, HolderKnows
<1>2. call' \in [Jobs -> CallType] /\ call'[j] = e /\ \A k \in Jobs \ {j} : call'[k] = call[k]
  BY <1>1, CallEffect
<1>3. FetchTypeOK'
  BY <1>1, <1>2 DEF FetchTypeOK
<1>4. \A k \in Jobs \ {j} : ~Holds(call[k])
  BY <1>1, Knows DEF HoldOK
<1>5. SeenOK(call[j])' /\ ReadOK(j, call[j])'
  BY <1>2 DEF SeenOK, ReadOK
<1>6. QED
  BY <1>2, <1>3, <1>4, <1>5, OneCall

\* The sizes of a new tree are written and the tree is put in its place.
LEMMA WritesSizes ==
    ASSUME FetchInv, NEW j \in Jobs, WriteSizes(j)
    PROVE  FetchInv'
<1> DEFINE c == call[j].sha
<1>1. call[j].at \in {"sizes", "place"} /\ UNCHANGED <<flight, dirLock, treeLock, remote, budget>>
  BY DEF WriteSizes
<1>2. Holds(call[j]) /\ dirLock = j /\ remote.tip \in call[j].seen /\ c \in Commits
      /\ (remote.mode = "online" => c \in call[j].seen)
  <2>1. Holds(call[j]) /\ Named(call[j])
    BY <1>1 DEF Holds, Named
  <2>2. QED
    BY <2>1, HolderKnows, Knows DEF HoldOK, SeenOK
<1>3. /\ call[j] \in CallType /\ disk \in DirType /\ treeLock \in [Commits -> Jobs \cup {None}]
      /\ budget \in [left : Nat, swap : BOOLEAN] /\ FetchTypeOK
  BY Knows DEF FetchTypeOK
<1>4. ASSUME NEW where \in {"place", "save", "swap"}, Goes(j, where), disk' \in DirType,
             disk'.tree = disk.tree \/ (disk.tree[c] = "absent" /\ disk'.tree = [disk.tree EXCEPT ![c] = "whole"]),
             where = "save" => disk'.tree[c] = "whole",
             where \in {"save", "swap"} => disk'.sizes[c] = "whole"
      PROVE  FetchInv'
  <2> DEFINE e == [call[j] EXCEPT !.at = where]
  <2>1. where \in Fetching
    BY DEF Fetching
  <2>2. e \in CallType /\ e.at = where /\ e.sha = c /\ e.seen = call[j].seen
    BY <1>3, <2>1, GoesType
  <2>3. Call(j, e)
    BY <1>4 DEF Goes
  <2> HIDE DEF e
  <2>4. call'[j] = e
    BY <1>3, <2>2, <2>3, CallEffect
  <2>5. SeenOK(e) /\ e.at \notin {"fetched", "reading"}
    BY <1>2, <1>4, <2>2 DEF SeenOK
  <2>6. HoldOK(j, call[j])'
    BY <1>1, <1>2, <1>4, <2>2, <2>4 DEF HoldOK, Holds, Named, Good
  <2>7. \A d \in Commits : disk.tree[d] # "absent" => disk'.tree[d] # "absent"
    BY <1>2, <1>3, <1>4 DEF DirType
  <2>8. call[j].at # "moved"
    BY <1>1
  <2>9. QED
    BY <1>1, <1>2, <1>3, <1>4, <2>2, <2>3, <2>5, <2>6, <2>7, <2>8, HolderStep
<1>5. CASE call[j].at = "sizes"
  <2>1. disk' = [disk EXCEPT !.sizes[c] = "torn"] /\ Goes(j, "place")
    BY <1>5 DEF WriteSizes
  <2>2. disk' \in DirType /\ disk'.tree = disk.tree
    BY <1>2, <1>3, <2>1 DEF DirType
  <2>3. QED
    BY <1>4, <2>1, <2>2
<1>6. CASE call[j].at = "place" /\ disk.tree[c] = "absent"
  <2>1. disk' = [disk EXCEPT !.sizes[c] = "whole", !.tree[c] = "whole"] /\ Goes(j, "save")
    BY <1>6 DEF WriteSizes
  <2>2. disk' \in DirType /\ disk'.tree = [disk.tree EXCEPT ![c] = "whole"] /\ disk'.sizes[c] = "whole"
    BY <1>2, <1>3, <2>1 DEF DirType
  <2>3. disk'.tree[c] = "whole"
    BY <1>2, <1>3, <2>2 DEF DirType
  <2>4. QED
    BY <1>4, <1>6, <2>1, <2>2, <2>3
<1>7. CASE call[j].at = "place" /\ disk.tree[c] # "absent"
  <2>1. disk' = [disk EXCEPT !.sizes[c] = "whole"] /\ Goes(j, "swap")
    BY <1>7 DEF WriteSizes
  <2>2. disk' \in DirType /\ disk'.tree = disk.tree /\ disk'.sizes[c] = "whole"
    BY <1>2, <1>3, <2>1 DEF DirType
  <2>3. QED
    BY <1>4, <2>1, <2>2
<1>8. QED
  BY <1>1, <1>5, <1>6, <1>7

\* A damaged tree is replaced under its lock.
LEMMA Swaps ==
    ASSUME FetchInv, NEW j \in Jobs, SwapTree(j)
    PROVE  FetchInv'
<1> DEFINE c == call[j].sha
<1>1. call[j].at \in {"swap", "moved"} /\ UNCHANGED <<flight, dirLock, remote>>
  BY DEF SwapTree
<1>2. /\ Holds(call[j]) /\ dirLock = j /\ remote.tip \in call[j].seen /\ c \in Commits
      /\ remote.mode = "online" => c \in call[j].seen
      /\ disk.sizes[c] = "whole" /\ (call[j].at = "moved" => treeLock[c] = j)
  <2>1. Holds(call[j]) /\ Named(call[j])
    BY <1>1 DEF Holds, Named
  <2>2. QED
    BY <1>1, <2>1, HolderKnows, Knows DEF HoldOK, SeenOK
<1>3. /\ call[j] \in CallType /\ disk \in DirType /\ treeLock \in [Commits -> Jobs \cup {None}]
      /\ budget \in [left : Nat, swap : BOOLEAN] /\ FetchTypeOK
  BY Knows DEF FetchTypeOK
<1>4. CASE /\ call[j].at = "swap" /\ treeLock[c] = None /\ treeLock' = [treeLock EXCEPT ![c] = j]
           /\ disk' = [disk EXCEPT !.tree[c] = "absent"] /\ Goes(j, "moved") /\ UNCHANGED budget
  <2> DEFINE e == [call[j] EXCEPT !.at = "moved"]
  <2>1. e \in CallType /\ e.at = "moved" /\ e.sha = c /\ e.seen = call[j].seen
    BY <1>3, GoesType DEF Fetching
  <2>2. Call(j, e)
    BY <1>4 DEF Goes
  <2> HIDE DEF e
  <2>3. call'[j] = e
    BY <1>3, <2>1, <2>2, CallEffect
  <2>4. /\ disk' \in DirType /\ disk'.sizes = disk.sizes
        /\ \A d \in Commits : disk.tree[d] # "absent" => disk'.tree[d] # "absent" \/ d = c
    BY <1>2, <1>3, <1>4 DEF DirType
  <2>5. /\ treeLock' \in [Commits -> Jobs \cup {None}] /\ treeLock'[c] = j
        /\ \A k \in Jobs \ {j} : \A d \in Commits : treeLock[d] = k => treeLock'[d] = k
    BY <1>2, <1>3, <1>4, FetchAssumption
  <2>6. SeenOK(e) /\ HoldOK(j, call[j])'
    BY <1>1, <1>2, <2>1, <2>3, <2>4, <2>5 DEF SeenOK, HoldOK, Holds, Named
  <2>7. call[j].at # "moved" /\ e.at \notin {"fetched", "reading"}
    BY <1>4, <2>1
  <2>8. QED
    BY <1>1, <1>2, <1>3, <1>4, <2>1, <2>2, <2>4, <2>5, <2>6, <2>7, HolderStep
<1>5. CASE /\ call[j].at = "swap" /\ Call(j, InstallFailed(call[j])) /\ UNCHANGED <<treeLock, disk, budget>>
  <2>1. /\ InstallFailed(call[j]) \in CallType /\ HoldOK(j, InstallFailed(call[j])) /\ SeenOK(InstallFailed(call[j]))
        /\ InstallFailed(call[j]).at \notin {"fetched", "reading"}
    BY <1>2, FailedOK
  <2>2. call[j].at # "moved"
    BY <1>5
  <2>3. QED
    BY <1>1, <1>2, <1>3, <1>5, <2>1, <2>2, GoesOnHolding
<1>6. CASE /\ call[j].at = "moved" /\ treeLock' = [treeLock EXCEPT ![c] = None]
           /\ disk' = [disk EXCEPT !.tree[c] = "whole"] /\ Goes(j, "save") /\ UNCHANGED budget
  <2> DEFINE e == [call[j] EXCEPT !.at = "save"]
  <2>1. e \in CallType /\ e.at = "save" /\ e.sha = c /\ e.seen = call[j].seen
    BY <1>3, GoesType DEF Fetching
  <2>2. Call(j, e)
    BY <1>6 DEF Goes
  <2> HIDE DEF e
  <2>3. call'[j] = e
    BY <1>3, <2>1, <2>2, CallEffect
  <2>4. /\ disk' \in DirType /\ disk'.sizes = disk.sizes /\ disk'.tree[c] = "whole"
        /\ \A d \in Commits : disk.tree[d] # "absent" \/ d = c => disk'.tree[d] # "absent"
    BY <1>2, <1>3, <1>6 DEF DirType
  <2>5. /\ treeLock' \in [Commits -> Jobs \cup {None}]
        /\ \A k \in Jobs \ {j} : \A d \in Commits : treeLock[d] = k => treeLock'[d] = k
    BY <1>2, <1>3, <1>6
  <2>6. SeenOK(e) /\ HoldOK(j, call[j])'
    BY <1>1, <1>2, <2>1, <2>3, <2>4 DEF SeenOK, HoldOK, Holds, Named, Good
  <2>7. e.at \notin {"fetched", "reading"}
    BY <2>1
  <2>8. QED
    BY <1>1, <1>2, <1>3, <1>6, <2>1, <2>2, <2>4, <2>5, <2>6, <2>7, HolderStep
<1>7. CASE /\ call[j].at = "moved" /\ budget.left > 0 /\ budget' = [budget EXCEPT !.left = @ - 1, !.swap = FALSE]
           /\ treeLock' = [treeLock EXCEPT ![c] = None] /\ UNCHANGED disk /\ Call(j, InstallFailed(call[j]))
  <2> DEFINE e == InstallFailed(call[j])
  <2>1. e \in CallType /\ HoldOK(j, e) /\ SeenOK(e) /\ e.at \notin {"fetched", "reading", "moved"}
    BY <1>2, FailedOK
  <2> HIDE DEF e
  <2>2. Call(j, e)
    BY <1>7 DEF e
  <2>3. call'[j] = e
    BY <1>3, <2>1, <2>2, CallEffect
  <2>4. budget' \in [left : Nat, swap : BOOLEAN] /\ budget'.swap = FALSE
    <3>1. budget.left - 1 \in Nat
      BY <1>3, <1>7
    <3>2. budget' \in [left : Nat, swap : BOOLEAN]
      BY <1>3, <1>7, <3>1
    <3>3. budget'.swap = FALSE
      BY <1>3, <1>7
    <3>4. QED
      BY <3>2, <3>3
  <2>5. /\ treeLock' \in [Commits -> Jobs \cup {None}]
        /\ \A k \in Jobs \ {j} : \A d \in Commits : treeLock[d] = k => treeLock'[d] = k
    BY <1>2, <1>3, <1>7
  <2>6. HoldOK(j, call[j])'
    BY <1>1, <1>7, <2>1, <2>3 DEF HoldOK, Good, Old
  <2>7. QED
    BY <1>1, <1>2, <1>3, <1>7, <2>1, <2>2, <2>4, <2>5, <2>6, HolderStep
<1>8. QED
  BY <1>4, <1>5, <1>6, <1>7 DEF SwapTree

\* A reader takes the lock of its tree and gives it back.
LEMMA ReadsTree ==
    ASSUME FetchInv, NEW j \in Jobs, LockTree(j) \/ ReadTree(j)
    PROVE  FetchInv'
<1> DEFINE c == call[j].sha
<1>1. call[j].at \in {"fetched", "reading"} /\ UNCHANGED <<flight, dirLock, disk, remote, budget>>
  BY DEF LockTree, ReadTree
<1>2. /\ c \in Commits /\ (call[j].at = "reading" => treeLock[c] = j)
      /\ budget.swap => disk.tree[c] # "absent" \/ Moving(c)
  BY <1>1, Knows DEF ReadOK
<1>3. /\ call[j] \in CallType /\ disk \in DirType /\ treeLock \in [Commits -> Jobs \cup {None}] /\ FetchTypeOK
      /\ call[j].at # "moved"
  BY <1>1, Knows DEF FetchTypeOK
<1>4. ASSUME NEW e \in CallType, Call(j, e), e.at \in {"ended", "failed"} \/ (e.at = "reading" /\ e.sha = c /\ treeLock'[c] = j),
             treeLock' \in [Commits -> Jobs \cup {None}],
             \A k \in Jobs \ {j} : \A d \in Commits : treeLock[d] = k => treeLock'[d] = k
      PROVE  FetchInv'
  <2>1. call' \in [Jobs -> CallType] /\ call'[j] = e /\ \A k \in Jobs \ {j} : call'[k] = call[k]
    BY <1>3, <1>4, CallEffect
  <2>2. FetchTypeOK'
    BY <1>1, <1>3, <1>4, <2>1 DEF FetchTypeOK
  <2>3. HoldOK(j, call[j])' /\ SeenOK(call[j])'
    <3>1. e.at = "ended" \/ e.at = "failed" \/ e.at = "reading"
      BY <1>4
    <3>2. QED
      BY <2>1, <3>1 DEF HoldOK, SeenOK, Holds, Named, Fetching
  <2>4. budget.swap => disk.tree[c] # "absent" \/ \E i \in Jobs : call'[i].at = "moved" /\ call'[i].sha = c
    BY <1>2, <1>3, <2>1 DEF Moving
  <2>5. ReadOK(j, call[j])'
    <3>1. CASE e.at = "reading" /\ e.sha = c /\ treeLock'[c] = j
      BY <1>1, <1>2, <2>1, <2>4, <3>1 DEF ReadOK, Moving
    <3>2. CASE e.at \in {"ended", "failed"}
      BY <2>1, <3>2 DEF ReadOK
    <3>3. QED
      BY <1>4, <3>1, <3>2
  <2>6. QED
    BY <1>1, <1>3, <1>4, <2>1, <2>2, <2>3, <2>5, OneCall
<1>5. \A how \in {"ended", "failed"} : CallOver(how) \in CallType /\ CallOver(how).at = how
  BY OverType
<1>6. CASE treeLock[c] = None /\ treeLock' = [treeLock EXCEPT ![c] = j] /\ Goes(j, "reading")
  <2> DEFINE e == [call[j] EXCEPT !.at = "reading"]
  <2>1. e \in CallType /\ e.at = "reading" /\ e.sha = c
    BY <1>3 DEF CallType
  <2>2. Call(j, e)
    BY <1>6 DEF Goes
  <2> HIDE DEF e
  <2>3. /\ treeLock' \in [Commits -> Jobs \cup {None}] /\ treeLock'[c] = j
        /\ \A k \in Jobs \ {j} : \A d \in Commits : treeLock[d] = k => treeLock'[d] = k
    BY <1>2, <1>3, <1>6, FetchAssumption
  <2>4. QED
    BY <1>4, <2>1, <2>2, <2>3
<1>7. CASE Call(j, CallOver("failed")) /\ UNCHANGED treeLock
  BY <1>3, <1>4, <1>5, <1>7
<1>8. CASE ReadTree(j)
  <2>1. /\ call[j].at = "reading" /\ treeLock' = [treeLock EXCEPT ![c] = None]
        /\ Call(j, CallOver("failed")) \/ Call(j, CallOver("ended"))
    BY <1>8 DEF ReadTree
  <2>2. /\ treeLock' \in [Commits -> Jobs \cup {None}]
        /\ \A k \in Jobs \ {j} : \A d \in Commits : treeLock[d] = k => treeLock'[d] = k
    BY <1>2, <1>3, <2>1
  <2>3. QED
    BY <1>4, <1>5, <2>1, <2>2
<1>9. QED
  BY <1>6, <1>7, <1>8 DEF LockTree

\* A call is cancelled, wherever it is.
LEMMA Cancels ==
    ASSUME FetchInv, NEW j \in Jobs, CtxDone(j)
    PROVE  FetchInv'
<1> DEFINE e == [call[j] EXCEPT !.ctx = "done"]
<1>1. Call(j, e) /\ Spend /\ UNCHANGED <<flight, dirLock, treeLock, disk, remote>>
  BY DEF CtxDone
<1>2. /\ e \in CallType /\ e.at = call[j].at /\ e.sha = call[j].sha /\ e.known = call[j].known /\ e.via = call[j].via
      /\ e.seen = call[j].seen
  BY Knows DEF CallType
<1>3. e.harm = call[j].harm
  BY Knows DEF CallType
<1> HIDE DEF e
<1>4. call' \in [Jobs -> CallType] /\ call'[j] = e /\ \A k \in Jobs \ {j} : call'[k] = call[k]
  BY <1>1, <1>2, Knows, CallEffect
<1>5. budget' \in [left : Nat, swap : BOOLEAN] /\ budget'.swap = budget.swap
  BY <1>1, Knows, SpendType
<1>6. FetchTypeOK'
  BY <1>1, <1>4, <1>5, Knows DEF FetchTypeOK
<1>7. HoldOK(j, call[j])'
  BY <1>1, <1>2, <1>3, <1>4, Knows DEF HoldOK, Holds, Named, Good, Old
<1>8. SeenOK(call[j])'
  BY <1>1, <1>2, <1>4, Knows DEF SeenOK, Named
<1>9. ReadOK(j, call[j])'
  <2>1. \A k \in Jobs : call'[k].at = call[k].at /\ call'[k].sha = call[k].sha
    BY <1>2, <1>4
  <2>2. QED
    BY <1>1, <1>5, <2>1, Knows DEF ReadOK, Moving
<1>10. QED
  BY <1>1, <1>2, <1>4, <1>5, <1>6, <1>7, <1>8, <1>9, OneCall

\* The answer a flight leaves.
LEMMA AnsweredType ==
    ASSUME NEW r \in CallType, NEW sha \in Commits \cup {None}
    PROVE  /\ Answered(r, sha) \in CallType /\ Answered(r, sha).at \in {"failed", "fetched"}
           /\ Answered(r, sha).at = "fetched" => Answered(r, sha).sha = sha /\ sha \in Commits /\ r.ctx # "done"
<1> DEFINE e == [NewCall EXCEPT !.at = "fetched", !.sha = sha]
<1>1. e \in CallType /\ e.at = "fetched" /\ e.sha = sha
  BY NewCallType DEF CallType
<1>2. CallOver("failed") \in CallType /\ CallOver("failed").at = "failed"
  BY OverType
<1>3. \/ Answered(r, sha) = CallOver("failed")
      \/ Answered(r, sha) = e /\ sha # None /\ r.ctx # "done"
  BY DEF Answered
<1> HIDE DEF e
<1>4. QED
  BY <1>1, <1>2, <1>3

\* A flight lands with an answer that is good, or none.
LEMMA Lands ==
    ASSUME FetchInv, NEW j \in Jobs, NEW sha \in Commits \cup {None}, NEW retry \in BOOLEAN, Land(j, sha, retry),
           call[j].at \in Fetching \ {"moved"}, sha # None => call[j].at = "finish" /\ sha = call[j].sha,
           UNCHANGED <<disk, remote>>, Spend \/ UNCHANGED budget
    PROVE  FetchInv'
<1>1. FetchTypeOK /\ call \in [Jobs -> CallType]
  BY DEF FetchInv, FetchTypeOK
<1>2. /\ call' = [k \in Jobs |->
                    IF k = j THEN Answered(call[j], sha)
                    ELSE IF k \in Followers(j)
                    THEN IF retry THEN [call[k] EXCEPT !.at = "idle"] ELSE Answered(call[k], sha)
                    ELSE call[k]]
      /\ flight' = [flight EXCEPT ![ProcOf[j]] = None]
      /\ dirLock' = IF dirLock = j THEN None ELSE dirLock
      /\ treeLock' = [c \in Commits |-> IF treeLock[c] = j THEN None ELSE treeLock[c]]
  BY DEF Land
<1>3. \A k \in Jobs : \/ k # j /\ call'[k] = call[k]
                      \/ call[k].at # "moved" /\ (call'[k] = Answered(call[k], sha) \/ call'[k] = [call[k] EXCEPT !.at = "idle"])
  BY <1>1, <1>2 DEF Followers
<1>4. \A k \in Jobs :
        \/ k # j /\ call'[k] = call[k]
        \/ /\ call[k].at # "moved" /\ call'[k] \in CallType /\ call'[k].at \in {"failed", "fetched", "idle"}
           /\ call'[k].at = "fetched" => call'[k].sha = sha /\ sha \in Commits
  <2> SUFFICES ASSUME NEW k \in Jobs, ~(k # j /\ call'[k] = call[k])
               PROVE  /\ call[k].at # "moved" /\ call'[k] \in CallType /\ call'[k].at \in {"failed", "fetched", "idle"}
                      /\ call'[k].at = "fetched" => call'[k].sha = sha /\ sha \in Commits
    OBVIOUS
  <2>1. call[k] \in CallType /\ call[k].at # "moved"
    BY <1>1, <1>3
  <2>2. CASE call'[k] = Answered(call[k], sha)
    BY <2>1, <2>2, AnsweredType
  <2>3. CASE call'[k] = [call[k] EXCEPT !.at = "idle"]
    <3>1. call'[k] \in CallType /\ call'[k].at = "idle"
      BY <2>1, <2>3 DEF CallType
    <3>2. QED
      BY <2>1, <3>1
  <2>4. QED
    BY <1>3, <2>2, <2>3
<1>5. budget' \in [left : Nat, swap : BOOLEAN] /\ budget'.swap = budget.swap
  BY <1>1, SpendType
<1>6. FetchTypeOK'
  <2>1. call' \in [Jobs -> CallType]
    BY <1>1, <1>2, <1>4
  <2>2. flight' \in [Procs -> Jobs \cup {None}] /\ dirLock' \in Jobs \cup {None} /\ treeLock' \in [Commits -> Jobs \cup {None}]
    BY <1>1, <1>2 DEF FetchTypeOK
  <2>3. QED
    BY <1>1, <1>5, <2>1, <2>2 DEF FetchTypeOK
<1>7. sha # None => disk.tree[sha] # "absent"
  BY Knows DEF HoldOK, Good, Old
<1>8. \A k \in Jobs : call[k].at = "moved" => call'[k] = call[k]
  BY <1>4
<1> SUFFICES ASSUME NEW k \in Jobs PROVE (HoldOK(k, call[k]) /\ SeenOK(call[k]) /\ ReadOK(k, call[k]))'
  BY <1>6 DEF FetchInv
<1>9. CASE k # j /\ call'[k] = call[k]
  <2>1. call[k] \in CallType /\ HoldOK(k, call[k]) /\ SeenOK(call[k]) /\ ReadOK(k, call[k])
    BY Knows
  <2>2. Holds(call[k]) => dirLock' = k
    BY <1>2, <1>9, <2>1 DEF HoldOK
  <2>3. \A c \in Commits : treeLock[c] = k => treeLock'[c] = k
    BY <1>2, <1>9
  <2>4. HoldOK(k, call[k])'
    <3>1. call[k].at = "moved" => treeLock'[call[k].sha] = k
      BY <2>1, <2>3 DEF HoldOK, Named
    <3>2. QED
      BY <1>9, <2>1, <2>2, <3>1 DEF HoldOK, Holds, Named, Good, Old
  <2>5. SeenOK(call[k])'
    BY <1>9, <2>1 DEF SeenOK, Named
  <2>6. ReadOK(k, call[k])'
    BY <1>5, <1>8, <1>9, <2>1, <2>3 DEF ReadOK, Moving
  <2>7. QED
    BY <2>4, <2>5, <2>6
<1>10. CASE call'[k].at \in {"failed", "fetched", "idle"} /\ (call'[k].at = "fetched" => call'[k].sha = sha /\ sha \in Commits)
  <2>1. HoldOK(k, call[k])' /\ SeenOK(call[k])'
    <3>1. call'[k].at = "failed" \/ call'[k].at = "fetched" \/ call'[k].at = "idle"
      BY <1>10
    <3>2. QED
      BY <3>1 DEF HoldOK, SeenOK, Holds, Named, Fetching
  <2>2. ReadOK(k, call[k])'
    BY <1>7, <1>10, FetchAssumption DEF ReadOK
  <2>3. QED
    BY <2>1, <2>2
<1>11. QED
  BY <1>4, <1>9, <1>10

\* The ref moves: the flights under way have seen it.
LEMMA Moves ==
    ASSUME FetchInv, RefMoves
    PROVE  FetchInv'
<1>1. PICK c \in Commits :
        /\ remote' = [remote EXCEPT !.tip = c]
        /\ call' = [j \in Jobs |-> [call[j] EXCEPT !.seen = IF call[j].at \in Fetching THEN @ \cup {c} ELSE @]]
  BY DEF RefMoves
<1>2. Spend /\ UNCHANGED <<flight, dirLock, treeLock, disk>>
  BY DEF RefMoves
<1>3. FetchTypeOK /\ call \in [Jobs -> CallType] /\ remote \in [mode : Modes, tip : Commits]
  BY DEF FetchInv, FetchTypeOK
<1>4. remote' \in [mode : Modes, tip : Commits] /\ remote'.mode = remote.mode /\ remote'.tip = c
  BY <1>1, <1>3
<1>5. \A k \in Jobs :
        /\ call'[k] \in CallType /\ call'[k].at = call[k].at /\ call'[k].sha = call[k].sha /\ call'[k].known = call[k].known
        /\ call'[k].via = call[k].via /\ call'[k].harm = call[k].harm
        /\ call'[k].seen = IF call[k].at \in Fetching THEN call[k].seen \cup {c} ELSE call[k].seen
  <2> SUFFICES ASSUME NEW k \in Jobs
               PROVE  /\ call'[k] \in CallType /\ call'[k].at = call[k].at /\ call'[k].sha = call[k].sha
                      /\ call'[k].known = call[k].known /\ call'[k].via = call[k].via /\ call'[k].harm = call[k].harm
                      /\ call'[k].seen = IF call[k].at \in Fetching THEN call[k].seen \cup {c} ELSE call[k].seen
    OBVIOUS
  <2> DEFINE s == IF call[k].at \in Fetching THEN call[k].seen \cup {c} ELSE call[k].seen
  <2>1. call[k] \in CallType /\ call'[k] = [call[k] EXCEPT !.seen = s]
    BY <1>1, <1>3
  <2>2. s \in SUBSET Commits
    BY <2>1 DEF CallType
  <2> HIDE DEF s
  <2>3. call'[k] \in CallType
    BY <2>1, <2>2 DEF CallType
  <2>4. /\ call'[k].at = call[k].at /\ call'[k].sha = call[k].sha /\ call'[k].known = call[k].known
        /\ call'[k].via = call[k].via /\ call'[k].seen = s
    BY <2>1 DEF CallType
  <2>5. call'[k].harm = call[k].harm
    BY <2>1 DEF CallType
  <2>6. QED
    BY <2>3, <2>4, <2>5 DEF s
<1>6. budget' \in [left : Nat, swap : BOOLEAN] /\ budget'.swap = budget.swap
  BY <1>2, <1>3, SpendType
<1>7. FetchTypeOK'
  <2>1. call' \in [Jobs -> CallType]
    BY <1>1, <1>5
  <2>2. QED
    BY <1>2, <1>3, <1>4, <1>6, <2>1 DEF FetchTypeOK
<1> SUFFICES ASSUME NEW k \in Jobs PROVE (HoldOK(k, call[k]) /\ SeenOK(call[k]) /\ ReadOK(k, call[k]))'
  BY <1>7 DEF FetchInv
<1>8. HoldOK(k, call[k])'
  <2>1. /\ call'[k].at = call[k].at /\ call'[k].sha = call[k].sha /\ call'[k].known = call[k].known
        /\ call'[k].via = call[k].via /\ call'[k].harm = call[k].harm /\ HoldOK(k, call[k])
    BY <1>5, Knows
  <2>2. QED
    BY <1>2, <1>4, <2>1 DEF HoldOK, Holds, Named, Good, Old
<1>9. SeenOK(call[k])'
  BY <1>4, <1>5, Knows DEF SeenOK, Named, Fetching
<1>10. ReadOK(k, call[k])'
  <2>1. \A i \in Jobs : call'[i].at = call[i].at /\ call'[i].sha = call[i].sha
    BY <1>5
  <2>2. QED
    BY <1>2, <1>6, <2>1, Knows DEF ReadOK, Moving
<1>11. QED
  BY <1>8, <1>9, <1>10

\* A tree is damaged: the flights under way are excused.
LEMMA Damages ==
    ASSUME FetchInv, NEW c \in Commits, TreeDamaged(c)
    PROVE  FetchInv'
<1>1. /\ disk.tree[c] = "whole" /\ Spend /\ disk' = [disk EXCEPT !.tree[c] = "damaged"]
      /\ call' = [j \in Jobs |-> [call[j] EXCEPT !.harm = call[j].at \in Fetching]]
      /\ UNCHANGED <<flight, dirLock, treeLock, remote>>
  BY DEF TreeDamaged
<1>2. FetchTypeOK /\ call \in [Jobs -> CallType] /\ disk \in DirType
  BY DEF FetchInv, FetchTypeOK
<1>3. /\ disk' \in DirType /\ disk'.sizes = disk.sizes
      /\ \A d \in Commits : disk.tree[d] # "absent" => disk'.tree[d] # "absent"
  BY <1>1, <1>2 DEF DirType
<1>4. \A k \in Jobs :
        /\ call'[k] \in CallType /\ call'[k].at = call[k].at /\ call'[k].sha = call[k].sha /\ call'[k].known = call[k].known
        /\ call'[k].via = call[k].via /\ call'[k].seen = call[k].seen
        /\ call[k].at \in Fetching => call'[k].harm
  <2> SUFFICES ASSUME NEW k \in Jobs
               PROVE  /\ call'[k] \in CallType /\ call'[k].at = call[k].at /\ call'[k].sha = call[k].sha
                      /\ call'[k].known = call[k].known /\ call'[k].via = call[k].via /\ call'[k].seen = call[k].seen
                      /\ call[k].at \in Fetching => call'[k].harm
    OBVIOUS
  <2>1. call[k] \in CallType /\ call'[k] = [call[k] EXCEPT !.harm = call[k].at \in Fetching]
    BY <1>1, <1>2
  <2>2. PICK b \in BOOLEAN : call'[k] = [call[k] EXCEPT !.harm = b] /\ (call[k].at \in Fetching => b = TRUE)
    <3>1. (call[k].at \in Fetching) \in BOOLEAN /\ (call[k].at \in Fetching => (call[k].at \in Fetching) = TRUE)
      OBVIOUS
    <3>2. QED
      BY <2>1, <3>1, Zenon
  <2>3. call'[k] \in CallType
    BY <2>1, <2>2 DEF CallType
  <2>4. /\ call'[k].at = call[k].at /\ call'[k].sha = call[k].sha /\ call'[k].known = call[k].known
        /\ call'[k].via = call[k].via /\ call'[k].seen = call[k].seen
    BY <2>1, <2>2 DEF CallType
  <2>5. call'[k].harm = b
    BY <2>1, <2>2 DEF CallType
  <2>6. call[k].at \in Fetching => call'[k].harm
    BY <2>2, <2>5
  <2>7. QED
    BY <2>3, <2>4, <2>6
<1>5. budget' \in [left : Nat, swap : BOOLEAN] /\ budget'.swap = budget.swap
  BY <1>1, <1>2, SpendType
<1>6. FetchTypeOK'
  <2>1. call' \in [Jobs -> CallType]
    BY <1>1, <1>4
  <2>2. QED
    BY <1>1, <1>2, <1>3, <1>5, <2>1 DEF FetchTypeOK
<1> SUFFICES ASSUME NEW k \in Jobs PROVE (HoldOK(k, call[k]) /\ SeenOK(call[k]) /\ ReadOK(k, call[k]))'
  BY <1>6 DEF FetchInv
<1>7. SeenOK(call[k])'
  BY <1>1, <1>4, Knows DEF SeenOK, Named
<1>8. ReadOK(k, call[k])'
  <2>1. \A i \in Jobs : call'[i].at = call[i].at /\ call'[i].sha = call[i].sha
    BY <1>4
  <2>2. ReadOK(k, call[k]) /\ treeLock' = treeLock
    BY <1>1, Knows
  <2>3. budget'.swap => budget.swap
    BY <1>5
  <2>4. QED
    BY <1>3, <2>1, <2>2, <2>3 DEF ReadOK, Moving
<1>9. HoldOK(k, call[k])'
  <2>1. \A d \in Commits : (Good(d, call[k].harm) => disk'.tree[d] # "absent" /\ disk'.sizes[d] = "whole") /\ (Old(d) => Old(d)')
    BY <1>1, <1>3 DEF Good, Old
  <2>2. call[k].at \in Fetching => \A d \in Commits : Good(d, call[k].harm) =>
          disk'.tree[d] # "absent" /\ disk'.sizes[d] = "whole" /\ (call'[k].harm \/ disk'.tree[d] = "whole")
    BY <1>4, <2>1
  <2>3. call[k].at \in {"download", "extract", "save", "finish"} => call[k].at \in Fetching
    BY DEF Fetching
  <2>4. call'[k].at \in {"download", "extract"} /\ call'[k].via = "archive" /\ call'[k].known # None =>
          Good(call[k].known, call[k].harm)'
    BY <1>4, <2>2, <2>3, Knows DEF HoldOK, Good
  <2>5. call'[k].at = "save" => Good(call[k].sha, call[k].harm)'
    BY <1>4, <2>2, <2>3, Knows DEF HoldOK, Good, Named
  <2>6. call'[k].at = "finish" /\ call'[k].sha # None => (Good(call[k].sha, call[k].harm) \/ Old(call[k].sha))'
    BY <1>1, <1>3, <1>4, <2>2, <2>3, Knows DEF HoldOK, Good, Old, Named
  <2>7. (Holds(call[k]) => dirLock = k)' /\ (Named(call[k]) => call[k].sha \in Commits)'
    BY <1>1, <1>4, Knows DEF HoldOK, Holds, Named
  <2>8. QED
    BY <1>1, <1>3, <1>4, <2>4, <2>5, <2>6, <2>7, Knows DEF HoldOK
<1>10. QED
  BY <1>7, <1>8, <1>9

\* A process dies: its locks are free, and a tree it had moved away is missed.
LEMMA Crashes ==
    ASSUME FetchInv, NEW p \in Procs, Crash(p)
    PROVE  FetchInv'
<1> DEFINE gone == {j \in Jobs : ProcOf[j] = p /\ call[j].at \notin {"ended", "failed"}}
<1>1. /\ budget.left > 0
      /\ budget' = [budget EXCEPT !.left = @ - 1,
                                  !.swap = @ /\ \A j \in Jobs : ~(ProcOf[j] = p /\ call[j].at = "moved")]
      /\ call' = [j \in Jobs |-> IF j \in gone THEN CallOver("dead") ELSE call[j]]
      /\ dirLock' = IF dirLock \in gone THEN None ELSE dirLock
      /\ treeLock' = [c \in Commits |-> IF treeLock[c] \in gone THEN None ELSE treeLock[c]]
      /\ flight' = [flight EXCEPT ![p] = None] /\ UNCHANGED remote
  BY DEF Crash
<1>2. disk' = disk \/ disk' = [disk EXCEPT !.record = None, !.etag = FALSE]
  BY DEF Crash
<1>3. FetchTypeOK /\ call \in [Jobs -> CallType] /\ disk \in DirType /\ budget \in [left : Nat, swap : BOOLEAN]
  BY DEF FetchInv, FetchTypeOK
<1>4. disk' \in DirType /\ disk'.tree = disk.tree /\ disk'.sizes = disk.sizes
  BY <1>2, <1>3 DEF DirType
<1>5. CallOver("dead") \in CallType /\ CallOver("dead").at = "dead"
  BY OverType
<1>6. \A k \in Jobs : \/ k \notin gone /\ call'[k] = call[k]
                      \/ k \in gone /\ call'[k] \in CallType /\ call'[k].at = "dead"
  BY <1>1, <1>5
<1>7. /\ budget' \in [left : Nat, swap : BOOLEAN]
      /\ budget'.swap => budget.swap /\ \A k \in Jobs : ~(k \in gone /\ call[k].at = "moved")
  <2> DEFINE b == budget.swap /\ \A j \in Jobs : ~(ProcOf[j] = p /\ call[j].at = "moved")
  <2>1. b => budget.swap /\ \A k \in Jobs : ~(k \in gone /\ call[k].at = "moved")
    OBVIOUS
  <2>2. budget' = [budget EXCEPT !.left = budget.left - 1, !.swap = b]
    BY <1>1, Zenon
  <2>3. b \in BOOLEAN
    OBVIOUS
  <2>4. budget.left - 1 \in Nat
    BY <1>1, <1>3
  <2> HIDE DEF b, gone
  <2>5. CASE b
    <3>1. budget' = [budget EXCEPT !.left = budget.left - 1, !.swap = TRUE]
      BY <2>2, <2>3, <2>5, Zenon
    <3>2. QED
      BY <1>3, <2>1, <2>4, <2>5, <3>1
  <2>6. CASE ~b
    <3>1. budget' = [budget EXCEPT !.left = budget.left - 1, !.swap = FALSE]
      BY <2>2, <2>3, <2>6, Zenon
    <3>2. budget' \in [left : Nat, swap : BOOLEAN]
      BY <1>3, <2>4, <3>1
    <3>3. budget'.swap = FALSE
      BY <1>3, <3>1
    <3>4. QED
      BY <3>2, <3>3
  <2>7. QED
    BY <2>5, <2>6
<1>8. FetchTypeOK'
  <2>1. call' \in [Jobs -> CallType]
    BY <1>1, <1>3, <1>6
  <2>2. flight' \in [Procs -> Jobs \cup {None}] /\ dirLock' \in Jobs \cup {None} /\ treeLock' \in [Commits -> Jobs \cup {None}]
        /\ remote' \in [mode : Modes, tip : Commits]
    BY <1>1, <1>3 DEF FetchTypeOK
  <2>3. QED
    BY <1>4, <1>7, <2>1, <2>2 DEF FetchTypeOK
<1> SUFFICES ASSUME NEW k \in Jobs PROVE (HoldOK(k, call[k]) /\ SeenOK(call[k]) /\ ReadOK(k, call[k]))'
  BY <1>8 DEF FetchInv
<1>9. CASE k \notin gone /\ call'[k] = call[k]
  <2>1. call[k] \in CallType /\ HoldOK(k, call[k]) /\ SeenOK(call[k]) /\ ReadOK(k, call[k]) /\ remote' = remote
    BY <1>1, Knows
  <2>2. Holds(call[k]) => dirLock' = k
    BY <1>1, <1>9, <2>1 DEF HoldOK
  <2>3. \A c \in Commits : treeLock[c] = k => treeLock'[c] = k
    BY <1>1, <1>9
  <2>4. HoldOK(k, call[k])'
    <3>1. call[k].at = "moved" => treeLock'[call[k].sha] = k
      BY <2>1, <2>3 DEF HoldOK, Named
    <3>2. QED
      BY <1>4, <1>9, <2>1, <2>2, <3>1 DEF HoldOK, Holds, Named, Good, Old
  <2>5. SeenOK(call[k])'
    BY <1>9, <2>1 DEF SeenOK, Named
  <2>6. ReadOK(k, call[k])'
    <3> HIDE DEF gone
    <3>1. budget'.swap => budget.swap /\ \A i \in Jobs : call[i].at = "moved" => call'[i] = call[i]
      BY <1>6, <1>7
    <3>2. QED
      BY <1>4, <1>9, <2>1, <2>3, <3>1 DEF ReadOK, Moving
  <2>7. QED
    BY <2>4, <2>5, <2>6
<1>10. CASE call'[k].at = "dead"
  BY <1>10 DEF HoldOK, SeenOK, ReadOK, Holds, Named, Fetching
<1>11. QED
  BY <1>6, <1>9, <1>10

\* Nobody fetches yet, and what the cache holds is whole.
LEMMA FetchInitInv == FetchInit => FetchInv
<1> SUFFICES ASSUME FetchInit PROVE FetchInv
  OBVIOUS
<1>1. /\ call = [j \in Jobs |-> NewCall] /\ flight = [p \in Procs |-> None] /\ dirLock = None
      /\ treeLock = [c \in Commits |-> None] /\ budget = [left |-> MaxEvents, swap |-> TRUE]
  BY DEF FetchInit
<1>2. EmptyDir \in DirType
  BY DEF EmptyDir, DirType
<1>3. \A c \in Commits, s \in {"absent", "whole"}, b \in BOOLEAN : Cached(c, s, b) \in DirType
  BY <1>2 DEF Cached, DirType
<1>4. \A d \in Commits : [Cached(d, "whole", FALSE) EXCEPT !.clone = d] \in DirType
  BY <1>3 DEF DirType
<1>5. remote \in [mode : Modes, tip : Commits] /\ disk \in DirType
  <2> DEFINE c == CHOOSE d \in Commits : TRUE
  <2>1. c \in Commits
    BY FetchAssumption
  <2> HIDE DEF c
  <2>2. PICK m \in Modes :
          /\ remote = [mode |-> m, tip |-> c]
          /\ disk \in {EmptyDir} \cup {Cached(c, s, TRUE) : s \in {"absent", "whole"}}
                     \cup {[Cached(d, "whole", FALSE) EXCEPT !.clone = d] : d \in Commits \ {c}}
    BY DEF FetchInit, c
  <2>3. QED
    BY <1>2, <1>3, <1>4, <2>1, <2>2
<1>6. FetchTypeOK
  BY <1>1, <1>5, NewCallType, FetchAssumption DEF FetchTypeOK
<1>7. \A j \in Jobs : HoldOK(j, call[j]) /\ SeenOK(call[j]) /\ ReadOK(j, call[j])
  <2> SUFFICES ASSUME NEW j \in Jobs PROVE HoldOK(j, call[j]) /\ SeenOK(call[j]) /\ ReadOK(j, call[j])
    OBVIOUS
  <2>1. call[j].at = "idle"
    BY <1>1, NewCallType
  <2>2. QED
    BY <2>1 DEF HoldOK, SeenOK, ReadOK, Holds, Named, Fetching
<1>8. QED
  BY <1>6, <1>7 DEF FetchInv

\* A flight that is over, by its answer or by a panic.
LEMMA LandsBoth ==
    ASSUME FetchInv, NEW j \in Jobs, Finish(j) \/ Panic(j)
    PROVE  FetchInv'
<1>1. CASE Finish(j)
  <2>1. /\ call[j].at = "finish" /\ Land(j, call[j].sha, call[j].ctx = "done") /\ UNCHANGED <<disk, remote, budget>>
    BY <1>1 DEF Finish
  <2>2. call[j].sha \in Commits \cup {None} /\ (call[j].ctx = "done") \in BOOLEAN
    BY Knows
  <2>3. call[j].at \in Fetching \ {"moved"}
    BY <2>1 DEF Fetching
  <2>4. QED
    BY <2>1, <2>2, <2>3, Lands
<1>2. CASE Panic(j)
  <2>1. call[j].at \in Fetching \ {"moved"} /\ Spend /\ Land(j, None, TRUE) /\ UNCHANGED <<disk, remote>>
    BY <1>2 DEF Panic
  <2>2. QED
    BY <2>1, Lands
<1>3. QED
  BY <1>1, <1>2

\* Every step keeps the invariant.
LEMMA FetchNextInv == FetchInv /\ [FetchNext]_fetchVars => FetchInv'
<1> SUFFICES ASSUME FetchInv, [FetchNext]_fetchVars PROVE FetchInv'
  OBVIOUS
<1>1. CASE UNCHANGED fetchVars
  BY <1>1 DEF fetchVars, FetchInv, FetchTypeOK, HoldOK, SeenOK, ReadOK, Holds, Named, Good, Old, Moving
<1>2. ASSUME NEW j \in Jobs, FetchStep(j) PROVE FetchInv'
  <2>1. CASE FetchAction(j) \/ FollowerGivesUp(j)
    BY <2>1, Begins
  <2>2. CASE Finish(j)
    BY <2>2, LandsBoth
  <2>3. CASE ReadRecord(j)
    BY <2>3, Reads
  <2>4. CASE DownloadArchive(j)
    BY <2>4, Downloads
  <2>5. CASE ResolveClone(j) \/ ResolveFails(j)
    BY <2>5, Resolves
  <2>6. CASE ExtractTree(j) \/ ExtractFails(j)
    BY <2>6, Extracts
  <2>7. CASE WriteSizes(j)
    BY <2>7, WritesSizes
  <2>8. CASE WriteRecord(j)
    BY <2>8, Writes
  <2>9. CASE ReadTree(j)
    BY <2>9, ReadsTree
  <2>10. QED
    BY <1>2, <2>1, <2>2, <2>3, <2>4, <2>5, <2>6, <2>7, <2>8, <2>9 DEF FetchStep
<1>3. ASSUME NEW j \in Jobs, Locking(j) PROVE FetchInv'
  BY <1>3, LocksDir, Swaps, ReadsTree DEF Locking
<1>4. ASSUME NEW j \in Jobs, Panic(j) \/ CtxDone(j) PROVE FetchInv'
  BY <1>4, LandsBoth, Cancels
<1>5. ASSUME NEW p \in Procs, Crash(p) PROVE FetchInv'
  BY <1>5, Crashes
<1>6. ASSUME NEW c \in Commits, TreeDamaged(c) PROVE FetchInv'
  BY <1>6, Damages
<1>7. CASE RefMoves
  BY <1>7, Moves
<1>8. QED
  BY <1>1, <1>2, <1>3, <1>4, <1>5, <1>6, <1>7 DEF FetchNext

\* The type invariant of the action cache, and the strengthening above, hold
\* for every number of jobs, processes, commits and events.
THEOREM FetchTypes == FetchSpec => []FetchTypeOK
<1>1. FetchInv => FetchTypeOK
  BY DEF FetchInv
<1>2. QED
  BY <1>1, FetchInitInv, FetchNextInv, PTL DEF FetchSpec

\* The same, for the whole invariant.
LEMMA FetchAlways == FetchSpec => []FetchInv
  BY FetchInitInv, FetchNextInv, PTL DEF FetchSpec

\* A call that is about to end is answered by its own step only, and with what
\* it has found.
LEMMA AnswerGiven ==
    ASSUME FetchInv, FetchNext, NEW j \in Jobs, call[j].at = "finish", call'[j].at = "fetched"
    PROVE  call[j].sha # None
<1>1. FetchTypeOK /\ call \in [Jobs -> CallType] /\ call[j] \in CallType /\ call[j].sha \in Commits \cup {None}
  BY Knows DEF FetchInv, FetchTypeOK
<1>2. ASSUME NEW k \in Jobs, NEW sha \in Commits \cup {None}, NEW retry \in BOOLEAN, Land(k, sha, retry)
      PROVE  k = j /\ sha # None
  <2>1. k # j => call'[j] = call[j]
    BY <1>2 DEF Land, Followers
  <2>2. k = j => call'[j] = Answered(call[j], sha)
    BY <1>2 DEF Land
  <2>3. QED
    BY <1>1, <2>1, <2>2, AnsweredType, FetchAssumption
<1>3. ASSUME NEW k \in Jobs, FetchStep(k) \/ Locking(k), ~Finish(k)
      PROVE  FALSE
  <2>1. k # j => call'[j] = call[j]
    BY <1>1, <1>3 DEF FetchStep, Locking, FetchAction, FollowerGivesUp, ReadRecord, DownloadArchive, ResolveClone, ResolveFails,
      ExtractTree, ExtractFails, WriteSizes, WriteRecord, ReadTree, LockDir, SwapTree, LockTree, Call, Goes, Ends
  <2>2. k # j
    BY <1>3 DEF FetchStep, Locking, FetchAction, FollowerGivesUp, ReadRecord, DownloadArchive, ResolveClone, ResolveFails,
      ExtractTree, ExtractFails, WriteSizes, WriteRecord, ReadTree, LockDir, SwapTree, LockTree
  <2>3. QED
    BY <2>1, <2>2
<1>4. ASSUME NEW k \in Jobs, CtxDone(k) PROVE FALSE
  <2>1. call' = [call EXCEPT ![k] = [call[k] EXCEPT !.ctx = "done"]]
    BY <1>4 DEF CtxDone, Call
  <2>2. call'[j].at = call[j].at
    BY <1>1, <2>1 DEF CallType
  <2>3. QED
    BY <2>2
<1>5. CASE RefMoves
  <2>1. PICK c \in Commits : call' = [i \in Jobs |-> [call[i] EXCEPT !.seen = IF call[i].at \in Fetching THEN @ \cup {c} ELSE @]]
    BY <1>5 DEF RefMoves
  <2>2. call'[j].at = call[j].at
    BY <1>1, <2>1 DEF CallType
  <2>3. QED
    BY <2>2
<1>6. ASSUME NEW c \in Commits, TreeDamaged(c) PROVE FALSE
  <2>1. call' = [i \in Jobs |-> [call[i] EXCEPT !.harm = call[i].at \in Fetching]]
    BY <1>6 DEF TreeDamaged
  <2>2. call'[j].at = call[j].at
    BY <1>1, <2>1 DEF CallType
  <2>3. QED
    BY <2>2
<1>7. ASSUME NEW p \in Procs, Crash(p) PROVE FALSE
  <2>1. call'[j] = CallOver("dead") \/ call'[j] = call[j]
    BY <1>7 DEF Crash
  <2>2. QED
    BY <2>1, OverType
<1>8. ASSUME NEW k \in Jobs, Finish(k) PROVE call[j].sha # None
  <2>1. Land(k, call[k].sha, call[k].ctx = "done") /\ call[k].sha \in Commits \cup {None} /\ (call[k].ctx = "done") \in BOOLEAN
    BY <1>8, Knows DEF Finish
  <2>2. QED
    BY <1>2, <2>1
<1>9. ASSUME NEW k \in Jobs, Panic(k) PROVE FALSE
  <2>1. Land(k, None, TRUE)
    BY <1>9 DEF Panic
  <2>2. QED
    BY <1>2, <2>1
<1>10. QED
  BY <1>3, <1>4, <1>5, <1>6, <1>7, <1>8, <1>9 DEF FetchNext

\* FetchedIsIntact: a commit FetchAction answers with is on disk with every
\* file at its size, whatever crashed, panicked or was cancelled before.
THEOREM IntactTheorem == FetchSpec => FetchedIsIntact
<1>1. FetchInv /\ [FetchNext]_fetchVars =>
        [\A j \in Jobs :
          (call[j].at = "finish" /\ call'[j].at = "fetched" /\ ~call[j].harm)
            => \/ disk.tree[call[j].sha] = "whole" /\ disk.sizes[call[j].sha] = "whole"
               \/ remote.mode = "offline" /\ disk.sizes[call[j].sha] = "absent"]_fetchVars
  <2> SUFFICES ASSUME FetchInv, FetchNext, NEW j \in Jobs, call[j].at = "finish", call'[j].at = "fetched", ~call[j].harm
               PROVE  \/ disk.tree[call[j].sha] = "whole" /\ disk.sizes[call[j].sha] = "whole"
                      \/ remote.mode = "offline" /\ disk.sizes[call[j].sha] = "absent"
    OBVIOUS
  <2>1. call[j].sha # None
    BY AnswerGiven
  <2>2. QED
    BY <2>1, Knows DEF HoldOK, Good, Old
<1>2. QED
  BY <1>1, FetchAlways, PTL DEF FetchSpec, FetchedIsIntact

\* FetchedIsCurrent: online, the commit answered with was the ref's at some
\* moment of the flight that fetched it.
THEOREM CurrentTheorem == FetchSpec => FetchedIsCurrent
<1>1. FetchInv /\ [FetchNext]_fetchVars =>
        [\A j \in Jobs :
          (remote.mode = "online" /\ call[j].at = "finish" /\ call'[j].at = "fetched") => call[j].sha \in call[j].seen]_fetchVars
  <2> SUFFICES ASSUME FetchInv, FetchNext, NEW j \in Jobs,
                      remote.mode = "online", call[j].at = "finish", call'[j].at = "fetched"
               PROVE  call[j].sha \in call[j].seen
    OBVIOUS
  <2>1. call[j].sha # None
    BY AnswerGiven
  <2>2. QED
    BY <2>1, Knows DEF SeenOK, Named
<1>2. QED
  BY <1>1, FetchAlways, PTL DEF FetchSpec, FetchedIsCurrent

\* A tree that is there is only damaged, or replaced under its lock.
LEMMA TreeChanges ==
    ASSUME FetchInv, FetchNext, NEW c \in Commits, disk.tree[c] # "absent",
           disk'.tree[c] # disk.tree[c], disk'.tree[c] # "damaged"
    PROVE  treeLock[c] = None \/ Moving(c)
<1>1. disk \in DirType /\ disk.tree \in [Commits -> {"absent", "whole", "damaged"}]
  BY DEF FetchInv, FetchTypeOK, DirType
<1>2. ~UNCHANGED disk
  OBVIOUS
<1>3. ASSUME NEW k \in Jobs, WriteSizes(k) PROVE FALSE
  <2>1. call[k].sha \in Commits
    BY <1>3, Knows DEF WriteSizes, HoldOK, Named
  <2>2. \/ disk' = [disk EXCEPT !.sizes[call[k].sha] = "torn"]
        \/ disk.tree[call[k].sha] = "absent"
             /\ disk' = [disk EXCEPT !.sizes[call[k].sha] = "whole", !.tree[call[k].sha] = "whole"]
        \/ disk' = [disk EXCEPT !.sizes[call[k].sha] = "whole"]
    BY <1>3 DEF WriteSizes
  <2>3. disk'.tree = disk.tree
        \/ (disk.tree[call[k].sha] = "absent" /\ disk'.tree = [disk.tree EXCEPT ![call[k].sha] = "whole"])
    BY <1>1, <2>1, <2>2 DEF DirType
  <2>4. QED
    BY <1>1, <2>1, <2>3
<1>4. ASSUME NEW k \in Jobs, SwapTree(k) PROVE treeLock[c] = None \/ Moving(c)
  <2>1. call[k].sha \in Commits
    BY <1>4, Knows DEF SwapTree, HoldOK, Named
  <2>2. \/ treeLock[call[k].sha] = None /\ disk' = [disk EXCEPT !.tree[call[k].sha] = "absent"]
        \/ call[k].at = "moved" /\ disk' = [disk EXCEPT !.tree[call[k].sha] = "whole"]
    BY <1>2, <1>4 DEF SwapTree
  <2>3. call[k].sha = c
    BY <1>1, <2>1, <2>2 DEF DirType
  <2>4. QED
    BY <2>2, <2>3 DEF Moving
<1>5. ASSUME NEW d \in Commits, TreeDamaged(d) PROVE FALSE
  <2>1. disk' = [disk EXCEPT !.tree[d] = "damaged"]
    BY <1>5 DEF TreeDamaged
  <2>2. QED
    BY <1>1, <2>1 DEF DirType
<1>6. ASSUME NEW e, \/ disk' = [disk EXCEPT !.clone = e]
                    \/ \E b : disk' = [disk EXCEPT !.record = e, !.etag = b]
      PROVE  FALSE
  BY <1>1, <1>6 DEF DirType
<1>7. ASSUME NEW k \in Jobs, ResolveClone(k) \/ WriteRecord(k) PROVE FALSE
  BY <1>6, <1>7 DEF ResolveClone, WriteRecord
<1>8. ASSUME NEW p \in Procs, Crash(p) PROVE FALSE
  <2>1. disk' = disk \/ disk' = [disk EXCEPT !.record = None, !.etag = FALSE]
    BY <1>8 DEF Crash
  <2>2. QED
    BY <1>2, <1>6, <2>1
<1>9. QED
  BY <1>2, <1>3, <1>4, <1>5, <1>7, <1>8 DEF FetchNext, FetchStep, Locking, FetchAction, FollowerGivesUp, Finish, Panic,
    ReadRecord, DownloadArchive, ResolveFails, ExtractTree, ExtractFails, ReadTree, LockDir, LockTree, CtxDone, RefMoves

\* ReadersUndisturbed: while a job holds a commit's directory, nobody replaces
\* it, and it is there unless a replacement failed or died half-way.
THEOREM UndisturbedTheorem == FetchSpec => ReadersUndisturbed
<1>1. FetchInv /\ [FetchNext]_fetchVars =>
        [\A j \in Jobs : call[j].at = "reading" =>
          IF disk.tree[call[j].sha] = "absent" THEN ~budget.swap
          ELSE disk'.tree[call[j].sha] \in {disk.tree[call[j].sha], "damaged"}]_fetchVars
  <2> SUFFICES ASSUME FetchInv, FetchNext, NEW j \in Jobs, call[j].at = "reading"
               PROVE  IF disk.tree[call[j].sha] = "absent" THEN ~budget.swap
                      ELSE disk'.tree[call[j].sha] \in {disk.tree[call[j].sha], "damaged"}
    OBVIOUS
  <2>1. /\ call[j].sha \in Commits /\ treeLock[call[j].sha] = j
        /\ budget.swap => disk.tree[call[j].sha] # "absent" \/ Moving(call[j].sha)
    BY Knows DEF ReadOK
  <2>2. ~Moving(call[j].sha)
    BY <2>1, Knows DEF Moving, HoldOK
  <2>3. j # None
    BY FetchAssumption
  <2>4. QED
    BY <2>1, <2>2, <2>3, TreeChanges
<1>2. QED
  BY <1>1, FetchAlways, PTL DEF FetchSpec, ReadersUndisturbed

=============================================================================
