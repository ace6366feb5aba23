------------------------ MODULE RingHealthAlert_proofs ------------------------
(***************************************************************************)
(* Theorems about RingHealthAlert, for every bound on the fails in a row:  *)
(* the properties hold of runs of any length, with the state lost at will. *)
(***************************************************************************)
EXTENDS RingHealthAlert, TLAPS

\* The saved state is that of the last run: its verdict and categories, and
\* the fails in a row as far as the state reaches back.
SavedIsLast ==
  saved # NoState =>
    /\ saved.verdict = observed.verdict
    /\ saved.cats = CategoriesOf(observed.reasons)

CountsAgree ==
  /\ saved.fails = carried
  /\ carried <= streak
  /\ saved.verdict = "fail" <=> carried >= 1
  /\ saved = NoState \/ saved.verdict # "none"

\* What the saved state takes the room to know, the room knows; it takes the
\* room to know nothing only if it does, or if the state was lost.
RoomAsSaved ==
  /\ saved.notified = "pass" => room.verdict = "pass"
  /\ saved.notified = "fail" =>
       /\ room = [verdict |-> "fail", cats |-> saved.cats]
       /\ saved.verdict = "fail"
  /\ saved.notified = "none" /\ ~ lost => room.verdict = "none"

\* A pass is told at once, a fail at the threshold.
Promoted ==
  /\ saved.verdict = "pass" => saved.notified = "pass"
  /\ carried >= FlipToFailThreshold => saved.notified = "fail"

IInv == TypeOK /\ SavedIsLast /\ CountsAgree /\ RoomAsSaved /\ Promoted

-----------------------------------------------------------------------------
LEMMA CategoriesTyped ==
  ASSUME NEW reasons \in SUBSET Reasons
  PROVE  CategoriesOf(reasons) \in SUBSET Categories
<1>1. \A r \in Reasons : Categorise(r) \in Categories
  BY DEF Reasons, Categories, Categorise
<1> QED BY <1>1 DEF CategoriesOf

LEMMA ObservationTyped ==
  ASSUME NEW o \in Observation
  PROVE  /\ o.verdict \in Verdict
         /\ o.reasons \in SUBSET Reasons
BY DEF Observation, Verdict

\* Where a run starts from: the state saved, or none.
Before(prev) ==
  /\ prev \in State
  /\ prev.fails = 0 \/ prev.verdict = "fail"
  /\ prev.verdict = "fail" => prev.fails >= 1
  /\ prev.verdict = "none" => prev = NoState
  /\ prev.notified = "pass" => room.verdict = "pass"
  /\ prev.notified = "fail" =>
       prev.verdict = "fail" /\ room = [verdict |-> "fail", cats |-> prev.cats]
  /\ prev.fails >= FlipToFailThreshold => prev.notified = "fail"

LEMMA BeforeSaved == IInv => Before(saved)
BY DEF IInv, TypeOK, CountsAgree, RoomAsSaved, Promoted, Before, State

LEMMA BeforeLost == Before(NoState)
BY DEF Before, NoState, State, Verdict, FlipToFailThreshold

\* What a run leaves: the new state, the room as it takes it to be, and a
\* message only with news.
Outcome(prev, o) ==
  /\ saved' \in State /\ header' \in Header /\ observed' = o /\ room' \in Told
  /\ streak' \in Nat /\ streak' = Count(streak, o)
  /\ saved'.verdict = o.verdict /\ saved'.cats = CategoriesOf(o.reasons)
  /\ saved'.fails = Count(prev.fails, o)
  /\ o.verdict = "pass" => saved'.notified = "pass"
  /\ saved'.fails >= FlipToFailThreshold => saved'.notified = "fail"
  /\ saved'.notified = "pass" => room'.verdict = "pass"
  /\ saved'.notified = "fail" =>
       o.verdict = "fail" /\ room' = [verdict |-> "fail", cats |-> saved'.cats]
  /\ saved'.notified = "none" => prev.notified = "none" /\ header' = "none"
  /\ header' = "none" => room' = room
  /\ room' # room => room'.verdict = saved'.notified
  /\ header' # "none" =>
       \/ prev.notified # saved'.notified
       \/ prev.notified = "fail" /\ room'.cats # prev.cats

LEMMA DiffOutcome ==
  ASSUME TypeOK, NEW prev, Before(prev), NEW o \in Observation, Diff(prev, o)
  PROVE  Outcome(prev, o)
<1> DEFINE curr == Diffed(prev, o)
<1>1. /\ o.verdict \in Verdict
      /\ CategoriesOf(o.reasons) \in SUBSET Categories
  BY ObservationTyped, CategoriesTyped
<1>2. prev.fails \in Nat /\ prev.verdict \in Verdict \cup {"none"}
      /\ prev.notified \in Verdict \cup {"none"} /\ prev.cats \in SUBSET Categories
  BY DEF Before, State
<1>3. ConsecutiveFails(prev, o.verdict) = Count(prev.fails, o)
  BY <1>1, <1>2 DEF ConsecutiveFails, Count, Before, Verdict
<1>4. Count(prev.fails, o) \in Nat
  BY <1>2 DEF Count
<1>5. /\ NotifiedVerdict(prev, o.verdict) \in Verdict \cup {"none"}
      /\ o.verdict = "pass" => NotifiedVerdict(prev, o.verdict) = "pass"
      /\ o.verdict = "fail" =>
           IF Count(prev.fails, o) >= FlipToFailThreshold
           THEN NotifiedVerdict(prev, o.verdict) = "fail"
           ELSE NotifiedVerdict(prev, o.verdict) = prev.notified
  BY <1>1, <1>2, <1>3 DEF NotifiedVerdict, Verdict
<1>6. /\ curr.verdict = o.verdict
      /\ curr.cats = CategoriesOf(o.reasons)
      /\ curr.fails = Count(prev.fails, o)
      /\ curr.notified = NotifiedVerdict(prev, o.verdict)
      /\ curr \in State
  BY <1>1, <1>3, <1>4, <1>5 DEF Diffed, State
<1> HIDE DEF curr
<1>7. /\ saved' = curr /\ observed' = o /\ streak' = Count(streak, o)
      /\ \/ /\ StateChanged(prev, curr)
            /\ header' = HeaderOf(prev, curr)
            /\ room' = [verdict |-> curr.notified, cats |-> curr.cats]
         \/ /\ ~ StateChanged(prev, curr)
            /\ header' = "none"
            /\ room' = room
  BY DEF Diff, curr
<1>8. HeaderOf(prev, curr) \in Header \ {"none"}
  BY DEF HeaderOf, Header
<1>9. streak' \in Nat
  BY <1>7 DEF TypeOK, Count
<1>10. Count(prev.fails, o) >= FlipToFailThreshold => o.verdict = "fail"
  BY <1>1 DEF Count, Verdict, FlipToFailThreshold
<1>11. o.verdict = "fail" \/ o.verdict = "pass"
  BY <1>1 DEF Verdict
<1>12. CASE StateChanged(prev, curr)
  <2>1. room' = [verdict |-> curr.notified, cats |-> curr.cats] /\ header' # "none"
    BY <1>7, <1>8, <1>12
  <2>2. curr.notified # "none"
    BY <1>5, <1>6, <1>11, <1>12 DEF StateChanged
  <2>3. room' \in Told
    BY <2>1, <1>6 DEF Told, State
  <2>4. curr.notified = "fail" => o.verdict = "fail"
    BY <1>5, <1>6, <1>11
  <2>5. prev.notified # curr.notified \/ (prev.notified = "fail" /\ room'.cats # prev.cats)
    BY <2>1, <1>12 DEF StateChanged
  <2>6. saved'.notified = "pass" => room'.verdict = "pass"
    BY <1>7, <2>1
  <2>7. saved'.notified = "fail" =>
          o.verdict = "fail" /\ room' = [verdict |-> "fail", cats |-> saved'.cats]
    BY <1>7, <2>1, <2>4
  <2>8. header' \in Header /\ room'.verdict = saved'.notified
    BY <1>7, <1>8, <1>12, <2>1
  <2>9. saved'.fails >= FlipToFailThreshold => saved'.notified = "fail"
    BY <1>5, <1>6, <1>7, <1>10
  <2> QED BY <1>5, <1>6, <1>7, <1>9, <2>1, <2>2, <2>3, <2>5, <2>6, <2>7, <2>8, <2>9 DEF Outcome
<1>13. CASE ~ StateChanged(prev, curr)
  <2>1. room' = room /\ header' = "none" /\ prev.notified = curr.notified
    BY <1>7, <1>13 DEF StateChanged
  <2>2. room' \in Told /\ header' \in Header
    BY <2>1 DEF TypeOK, Header
  <2>3. curr.notified = "fail" => o.verdict = "fail" /\ prev.cats = curr.cats
    BY <1>5, <1>6, <1>11, <1>13, <2>1 DEF StateChanged
  <2>4. /\ curr.notified = "pass" => room'.verdict = "pass"
        /\ curr.notified = "fail" => room' = [verdict |-> "fail", cats |-> curr.cats]
    BY <2>1, <2>3 DEF Before
  <2>5. saved'.fails >= FlipToFailThreshold => saved'.notified = "fail"
    BY <1>5, <1>6, <1>7, <1>10
  <2>6. saved'.notified = "fail" =>
          o.verdict = "fail" /\ room' = [verdict |-> "fail", cats |-> saved'.cats]
    BY <1>7, <2>3, <2>4
  <2> QED BY <1>5, <1>6, <1>7, <1>9, <2>1, <2>2, <2>4, <2>5, <2>6 DEF Outcome
<1> QED BY <1>12, <1>13

-----------------------------------------------------------------------------
LEMMA InitInv == Init => IInv
<1> SUFFICES ASSUME Init PROVE IInv
  OBVIOUS
<1>1. observed \in Observation
  BY DEF Init, Observation
<1>2. TypeOK
  BY <1>1 DEF Init, TypeOK, NoState, State, Header, Told, Verdict
<1>3. SavedIsLast /\ CountsAgree /\ RoomAsSaved /\ Promoted
  BY DEF Init, NoState, SavedIsLast, CountsAgree, RoomAsSaved, Promoted, FlipToFailThreshold
<1> QED BY <1>2, <1>3 DEF IInv

LEMMA StepInv == IInv /\ [Next]_vars => IInv'
<1> SUFFICES ASSUME IInv, [Next]_vars PROVE IInv'
  OBVIOUS
<1>1. CASE UNCHANGED vars
  BY <1>1 DEF vars, IInv, TypeOK, SavedIsLast, CountsAgree, RoomAsSaved, Promoted
<1>2. ASSUME NEW o \in Observation, NEW prev, Before(prev), Diff(prev, o),
             carried' = Count(prev.fails, o), prev.fails <= streak,
             lost' \in BOOLEAN,
             prev.notified = "none" /\ ~ lost' /\ header' = "none" => room.verdict = "none"
      PROVE  IInv'
  <2>1. TypeOK
    BY DEF IInv
  <2>2. o.verdict \in Verdict /\ prev.fails \in Nat /\ streak \in Nat
    BY <1>2, ObservationTyped DEF Before, State, IInv, TypeOK
  <2>3. /\ saved'.verdict = o.verdict
        /\ saved'.cats = CategoriesOf(o.reasons)
        /\ saved'.fails = carried'
        /\ observed' = o
        /\ streak' = Count(streak, o)
    BY <1>2, <2>1, DiffOutcome DEF Outcome
  <2>4. SavedIsLast'
    BY <2>3 DEF SavedIsLast
  <2>5. CountsAgree'
    BY <1>2, <2>2, <2>3 DEF CountsAgree, Count, Verdict
  <2>6. Promoted'
    BY <1>2, <2>1, <2>3, DiffOutcome DEF Outcome, Promoted
  <2>7. RoomAsSaved'
    BY <1>2, <2>1, <2>3, DiffOutcome DEF Outcome, RoomAsSaved
  <2>8. carried' \in Nat
    BY <1>2, <2>2 DEF Count
  <2>9. TypeOK'
    BY <1>2, <2>1, <2>8, DiffOutcome DEF Outcome, TypeOK
  <2> QED BY <2>4, <2>5, <2>6, <2>7, <2>9 DEF IInv
<1>3. ASSUME NEW o \in Observation, CarriedRun(o) PROVE IInv'
  <2>1. Before(saved) /\ saved.fails = carried /\ carried <= streak
    BY BeforeSaved DEF IInv, CountsAgree
  <2>2. saved.notified = "none" /\ ~ lost' /\ header' = "none" => room.verdict = "none"
    BY <1>3 DEF CarriedRun, IInv, RoomAsSaved
  <2> QED BY <1>2, <1>3, <2>1, <2>2 DEF CarriedRun, IInv, TypeOK
<1>4. ASSUME NEW o \in Observation, LostRun(o) PROVE IInv'
  <2>1. NoState.fails = 0 /\ 0 <= streak
    BY DEF NoState, IInv, TypeOK
  <2>2. header' = "none" => lost'
    BY <1>4 DEF LostRun
  <2> QED BY <1>2, <1>4, <2>1, <2>2, BeforeLost DEF LostRun
<1> QED BY <1>1, <1>3, <1>4 DEF Next

LEMMA Inductive == Spec => []IInv
BY InitInv, StepInv, PTL DEF Spec

-----------------------------------------------------------------------------
\* The variables keep their types.
THEOREM TypeCorrect == Spec => []TypeOK
BY Inductive, PTL DEF IInv

\* After a run that passed, PASS is the last the room heard.
THEOREM RecoveriesAreTold == Spec => []RecoveryTold
<1>1. IInv => RecoveryTold
  BY DEF IInv, SavedIsLast, Promoted, RoomAsSaved, RecoveryTold
<1> QED BY <1>1, Inductive, PTL

\* Two carried fails in a row reach the room, with their categories.
THEOREM RoomIsUpToDate == Spec => []RoomUpToDate
<1>1. IInv => RoomUpToDate
  <2> SUFFICES ASSUME IInv, carried >= FlipToFailThreshold
               PROVE  room = [verdict |-> "fail", cats |-> CategoriesOf(observed.reasons)]
    BY DEF RoomUpToDate
  <2>1. saved.verdict = "fail"
    BY DEF IInv, TypeOK, CountsAgree, FlipToFailThreshold
  <2>2. saved # NoState
    BY <2>1 DEF NoState
  <2> QED BY <2>2 DEF IInv, SavedIsLast, RoomAsSaved, Promoted
<1> QED BY <1>1, Inductive, PTL

\* A single bad run does not page.
THEOREM OneFailDoesNotPage == Spec => NoPageForOne
<1>1. IInv /\ [Next]_vars =>
        [room'.verdict = "fail" /\ room.verdict # "fail" => streak >= 1 /\ streak' >= 2]_vars
  <2>1. ASSUME IInv, NEW o \in Observation, NEW prev, Before(prev), Diff(prev, o),
               prev.fails <= streak, room'.verdict = "fail", room.verdict # "fail"
        PROVE  streak >= 1 /\ streak' >= 2
    <3>1. saved'.notified = "fail" /\ prev.notified # "fail"
      BY <2>1, DiffOutcome DEF Outcome, IInv, Before
    <3>2. o.verdict = "fail" /\ saved'.fails = Count(prev.fails, o) /\ streak' = Count(streak, o)
      BY <2>1, <3>1, DiffOutcome DEF Outcome, IInv
    <3>3. ConsecutiveFails(prev, o.verdict) >= FlipToFailThreshold
      <4>1. saved' = Diffed(prev, o)
        BY <2>1 DEF Diff
      <4>2. NotifiedVerdict(prev, o.verdict) = "fail"
        BY <3>1, <4>1 DEF Diffed
      <4> QED BY <3>1, <3>2, <4>2 DEF NotifiedVerdict
    <3>4. prev.fails \in Nat /\ streak \in Nat
      BY <2>1 DEF Before, State, IInv, TypeOK
    <3> QED BY <2>1, <3>2, <3>3, <3>4 DEF ConsecutiveFails, Count, FlipToFailThreshold
  <2>2. ASSUME IInv, NEW o \in Observation, CarriedRun(o) PROVE Before(saved) /\ saved.fails <= streak
    BY <2>2, BeforeSaved DEF IInv, CountsAgree
  <2>3. ASSUME IInv PROVE NoState.fails <= streak
    BY <2>3 DEF IInv, TypeOK, NoState
  <2> QED BY <2>1, <2>2, <2>3, BeforeLost DEF Next, CarriedRun, LostRun
<1> QED BY <1>1, Inductive, PTL DEF Spec, NoPageForOne

\* A message carries news.
THEOREM MessagesAreNews == Spec => NoNoise
<1>1. IInv /\ [Next]_vars =>
        [(\E o \in Observation : CarriedRun(o)) /\ ~ lost /\ header' # "none"
           => room' # room]_vars
  <2> SUFFICES ASSUME IInv, NEW o \in Observation, CarriedRun(o), ~ lost, header' # "none"
               PROVE  room' # room
    OBVIOUS
  <2>1. Before(saved) /\ Diff(saved, o)
    BY BeforeSaved DEF CarriedRun
  <2>2. CASE saved.notified # saved'.notified
    <3>1. saved'.notified # "none"
      BY <2>1, DiffOutcome DEF Outcome, IInv
    <3>2. room'.verdict = saved'.notified
      BY <2>1, <3>1, DiffOutcome DEF Outcome, IInv, TypeOK, State, Verdict
    <3>3. room.verdict = saved.notified
      BY DEF IInv, RoomAsSaved, TypeOK, State, Verdict
    <3> QED BY <2>2, <3>2, <3>3
  <2>3. CASE saved.notified = "fail" /\ room'.cats # saved.cats
    BY <2>3 DEF IInv, RoomAsSaved
  <2> QED BY <2>1, <2>2, <2>3, DiffOutcome DEF Outcome, IInv
<1> QED BY <1>1, Inductive, PTL DEF Spec, NoNoise

\* What a message says of the past is what the room had been told.
THEOREM HeadersAreTrue == Spec => HeaderTrue
<1> DEFINE A == /\ header' = "failing" => room.verdict = "pass"
                /\ header' = "recovered" => room.verdict = "fail"
                /\ header' = "changed" => room.verdict = "fail" /\ room.cats # room'.cats
<1>1. IInv /\ [Next]_vars => [A]_vars
  <2>1. ASSUME NEW o \in Observation, NEW prev, Before(prev), Diff(prev, o) PROVE A
    <3> DEFINE curr == Diffed(prev, o)
    <3>1. CASE StateChanged(prev, curr)
      <4>1. header' = HeaderOf(prev, curr) /\ room'.cats = curr.cats
        BY <2>1, <3>1 DEF Diff
      <4> QED BY <2>1, <4>1 DEF HeaderOf, Before
    <3>2. CASE ~ StateChanged(prev, curr)
      BY <2>1, <3>2 DEF Diff
    <3> QED BY <3>1, <3>2
  <2> QED BY <2>1, BeforeSaved, BeforeLost DEF Next, CarriedRun, LostRun
<1> QED BY <1>1, Inductive, PTL DEF Spec, HeaderTrue
=============================================================================
