------------------------ MODULE PricingOutcomesProofs ------------------------
(***************************************************************************)
(* The outcome of an action, for any number of reservations and of passes  *)
(* that overlap or die: what a pass still holds in its memory is compared  *)
(* with the row and with the provider as they are by now (PassesKnow), and *)
(* from that follow the claims about the row (RowKnows).                   *)
(***************************************************************************)
EXTENDS PricingOutcomes, FiniteSetTheorems, WellFoundedInduction, TLAPS

-----------------------------------------------------------------------------
(* Types.                                                                   *)

ProviderStates == {"ABSENT", "booked", "cancelled"}
Counts == 0 .. Cardinality(Reservations)

LEMMA ReservationsAreCounted ==
  /\ Cardinality(Reservations) \in Nat
  /\ \A S \in SUBSET Reservations : Cardinality(S) \in Counts
  /\ \A S \in SUBSET Reservations, r \in Reservations :
       r \notin S => Cardinality(S) + 1 \in Counts
<1>1. IsFiniteSet(Reservations) /\ Cardinality(Reservations) \in Nat
  BY OutcomeAssumption, FS_CardinalityType
<1>2. ASSUME NEW S \in SUBSET Reservations PROVE Cardinality(S) \in Counts
  <2>1. IsFiniteSet(S) /\ Cardinality(S) <= Cardinality(Reservations)
    BY <1>1, FS_Subset
  <2> QED BY <1>1, <2>1, FS_CardinalityType DEF Counts
<1>3. ASSUME NEW S \in SUBSET Reservations, NEW r \in Reservations, r \notin S
      PROVE  Cardinality(S) + 1 \in Counts
  <2>1. IsFiniteSet(S) /\ Cardinality(S) \in Nat
    BY <1>1, FS_Subset, FS_CardinalityType
  <2>2. Cardinality(S \cup {r}) = Cardinality(S) + 1
    BY <2>1, <1>3, FS_AddElement
  <2>3. S \cup {r} \in SUBSET Reservations
    OBVIOUS
  <2> QED BY <1>2, <2>1, <2>2, <2>3
<1> QED BY <1>1, <1>2, <1>3

\* Bookings are in an order, so of some there is an earliest one.
LEMMA EarliestExists ==
  ASSUME bookedAt \in [Reservations -> Nat],
         NEW S \in SUBSET Reservations, S # {}
  PROVE  Earliest(S) \in S
<1> DEFINE T == {bookedAt[r] : r \in S}
<1>1. T \subseteq Nat /\ T # {}
  OBVIOUS
<1>2. PICK n \in T : \A m \in T : ~ (<<m, n>> \in OpToRel(<, Nat))
  BY <1>1, NatLessThanWellFounded, WFMin
<1>3. \A m \in T : n <= m
  <2> SUFFICES ASSUME NEW m \in T, m < n PROVE FALSE
    BY <1>1
  <2>1. <<m, n>> \in Nat \X Nat
    BY <1>1
  <2>2. <<m, n>>[1] < <<m, n>>[2]
    OBVIOUS
  <2>3. <<m, n>> \in OpToRel(<, Nat)
    BY <2>1, <2>2, Zenon DEF OpToRel
  <2> QED BY <1>2, <2>3, Zenon
<1>4. \E r \in S : \A s \in S : bookedAt[r] <= bookedAt[s]
  BY <1>3
<1> QED BY <1>4 DEF Earliest

LEMMA StepsAreTyped ==
  ASSUME TypeOK, [Next]_vars
  PROVE  TypeOK'
<1> USE OutcomeAssumption
<1>a. Cardinality(Reservations) \in Nat
  BY ReservationsAreCounted
<1>1. CASE UNCHANGED vars
  BY <1>1 DEF TypeOK, vars, provider, rowVars, passVars
<1>2. CASE Day
  BY <1>2 DEF Day, TypeOK, provider, rowVars, passVars
<1>13. CASE Elapse
  BY <1>13 DEF Elapse, TypeOK, provider, passVars
<1>3. CASE RecordExecution
  <2>1. executed' \in Counts
    BY <1>3, ReservationsAreCounted DEF RecordExecution
  <2> QED
    BY <1>3, <2>1 DEF RecordExecution, TypeOK, Counts, provider, rowVars, passVars
<1>4. ASSUME NEW r \in Reservations, Book(r) PROVE TypeOK'
  <2>1. Cardinality({s \in Reservations : reserved[s] # "ABSENT"}) + 1 \in Counts
    BY <1>4, ReservationsAreCounted DEF Book
  <2> QED
    BY <1>4, <2>1 DEF Book, TypeOK, Counts, rowVars, passVars
<1>5. ASSUME NEW r \in Reservations, Unbook(r) PROVE TypeOK'
  BY <1>5 DEF Unbook, TypeOK, rowVars, passVars
<1>6. ASSUME NEW p \in Passes, StartPass(p) PROVE TypeOK'
  BY <1>6 DEF StartPass, Goto, TypeOK, Steps, Row, provider, rowVars
<1>7. ASSUME NEW p \in Passes, Fetch(p) PROVE TypeOK'
  BY <1>7 DEF Fetch, Goto, TypeOK, Steps, provider, rowVars
<1>8. ASSUME NEW p \in Passes, FetchFails(p) PROVE TypeOK'
  BY <1>8 DEF FetchFails, Finish, Goto, Forget, TypeOK, Steps, provider, rowVars
<1>14. ASSUME NEW p \in Passes, Crash(p) PROVE TypeOK'
  BY <1>14 DEF Crash, Finish, Goto, Forget, TypeOK, Steps, provider, rowVars
<1>9. ASSUME NEW p \in Passes, NoteFirst(p) PROVE TypeOK'
  <2>1. bookedAt \in [Reservations -> Nat] /\ Qualifying(p) \in SUBSET Reservations
    BY <1>a DEF TypeOK, Qualifying
  <2>2. Qualifying(p) # {} => Earliest(Qualifying(p)) \in Reservations
    BY <2>1, EarliestExists, Zenon
  <2>3. row' \in Row
    <3>1. row' = row \/ \E r \in Reservations \cup {None} : row' = [row EXCEPT !.first = r]
      BY <1>9, <2>2 DEF NoteFirst, Frozen, TypeOK, Row
    <3> QED BY <3>1 DEF TypeOK, Row
  <2> QED
    BY <1>9, <2>3 DEF NoteFirst, Goto, TypeOK, Steps, provider, passVars
<1>10. ASSUME NEW p \in Passes, SetCurrent(p) PROVE TypeOK'
  <2>1. Observed(p) \in BookingStatus
    BY DEF Observed, BookingStatus
  <2>2. row' \in Row
    <3> DEFINE lost == row.lost \/ Observed(p) = "cancelled"
               passes == Counted(row.passes)
    <3>1. row' = [row EXCEPT !.status = Observed(p), !.lost = lost, !.passes = passes]
      BY <1>10 DEF SetCurrent
    <3>2. passes \in 0 .. MinPasses
      BY DEF Counted, TypeOK, Row
    <3>3. lost \in BOOLEAN
      OBVIOUS
    <3> HIDE DEF lost, passes
    <3> QED BY <2>1, <3>1, <3>2, <3>3 DEF TypeOK, Row
  <2>3. agreed' \in 0 .. StablePasses
    BY <1>10 DEF SetCurrent, TypeOK
  <2> QED
    BY <1>10, <2>2, <2>3 DEF SetCurrent, Goto, TypeOK, Steps, provider, passVars
<1>11. ASSUME NEW p \in Passes, Look(p) PROVE TypeOK'
  BY <1>11 DEF Look, Goto, Forget, TypeOK, Steps, provider, rowVars
<1>12. ASSUME NEW p \in Passes, Finalize(p) PROVE TypeOK'
  <2>1. row' \in Row
    BY <1>12 DEF Finalize, TypeOK, Row
  <2> QED
    BY <1>12, <2>1 DEF Finalize, Finish, Goto, Forget, TypeOK, Steps, provider
<1> QED
  BY <1>1, <1>2, <1>3, <1>4, <1>5, <1>6, <1>7, <1>8, <1>9, <1>10, <1>11, <1>12,
     <1>13, <1>14
  DEF Next, PassStep

\* Every variable keeps its type, whatever the passes do to one another.
THEOREM TypeCorrect == Spec => []TypeOK
<1>1. Init => TypeOK
  BY OutcomeAssumption, ReservationsAreCounted DEF Init, TypeOK, Row, Steps
<1> QED
  BY <1>1, StepsAreTyped, PTL DEF Spec

-----------------------------------------------------------------------------
(* The evidence.                                                            *)

\* The stays that include the night are over and settled, and were looked at
\* often enough.
Settled ==
  /\ row.passes = MinPasses
  /\ today >= Night + SettleDays
  /\ \A r \in Reservations :
       reserved[r] # "ABSENT" /\ Covers(r) => today >= CheckOut[r] + SettleDays

Fetched == {"first", "current", "look"}

\* What a pass holds is old, but not wrong: the first booking it read is still the
\* row's, no reservation of its page has gone or come back, and one that its page
\* lacks was made later, for nights that were to come.
PassKnows(p) ==
  /\ pc[p] # "idle" => executed # None
  /\ moment[p] <= today
  /\ seen[p] # None => row.first = seen[p]
  /\ \A r \in Reservations :
       /\ page[p][r] # "ABSENT" => reserved[r] # "ABSENT"
       /\ page[p][r] = "cancelled" => reserved[r] = "cancelled"
       /\ pc[p] \in Fetched /\ seen[p] = r => page[p][r] # "ABSENT"
       /\ pc[p] \in Fetched /\ reserved[r] # "ABSENT" /\ page[p][r] = "ABSENT"
            => moment[p] <= CheckIn[r]
  /\ pc[p] = "current" /\ Qualifying(p) # {} => row.first # None
  /\ pc[p] = "finalize" => Settled

PassesKnow == \A p \in Passes : PassKnows(p)

\* What the row says is so: the first booking is a later one of the night, what
\* is current has its evidence, what is lost is cancelled, what is final settled.
RowKnows ==
  /\ row.first # None =>
       /\ executed # None
       /\ reserved[row.first] # "ABSENT"
       /\ Covers(row.first) /\ bookedAt[row.first] > executed
  /\ row.status \in {"booked", "cancelled"} => row.first # None
  /\ row.lost => row.first # None /\ reserved[row.first] = "cancelled"
  /\ row.finalized => Settled

Inv == PassesKnow /\ RowKnows

LEMMA SettledStays ==
  ASSUME TypeOK, [Next]_vars, Settled
  PROVE  Settled'
<1> USE OutcomeAssumption DEF Settled
<1>1. CASE UNCHANGED vars
  BY <1>1 DEF vars, provider, rowVars
<1>2. CASE Day
  BY <1>2 DEF Day, TypeOK, provider, rowVars
<1>3. CASE Elapse \/ RecordExecution
  BY <1>3 DEF Elapse, RecordExecution, provider
<1>4. ASSUME NEW r \in Reservations, Book(r) PROVE Settled'
  <2>1. ~Covers(r)
    <3>1. today <= CheckIn[r] /\ CheckIn[r] \in Nat /\ today \in Nat
      BY <1>4 DEF Book, TypeOK
    <3>2. Night \in Nat /\ SettleDays \in Nat \ {0} /\ today >= Night + SettleDays
      OBVIOUS
    <3> QED BY <3>1, <3>2 DEF Covers
  <2> QED BY <1>4, <2>1 DEF Book, Covers, TypeOK, rowVars
<1>5. ASSUME NEW r \in Reservations, Unbook(r) PROVE Settled'
  BY <1>5 DEF Unbook, Covers, TypeOK, rowVars
<1>6. ASSUME NEW p \in Passes, StartPass(p) \/ Fetch(p) \/ FetchFails(p) \/ Look(p) \/ Crash(p)
      PROVE  Settled'
  BY <1>6 DEF StartPass, Fetch, FetchFails, Look, Crash, provider, rowVars
<1>7. ASSUME NEW p \in Passes, NoteFirst(p) PROVE Settled'
  <2>1. row'.passes = row.passes
    BY <1>7 DEF NoteFirst, TypeOK, Row
  <2> QED BY <1>7, <2>1 DEF NoteFirst, provider, Covers
<1>8. ASSUME NEW p \in Passes, SetCurrent(p) PROVE Settled'
  <2>1. row'.passes = Counted(row.passes)
    BY <1>8 DEF SetCurrent, TypeOK, Row
  <2>2. row'.passes = row.passes
    BY <2>1 DEF Counted
  <2> QED BY <1>8, <2>2 DEF SetCurrent, provider, Covers
<1>9. ASSUME NEW p \in Passes, Finalize(p) PROVE Settled'
  <2>1. row'.passes = row.passes
    BY <1>9 DEF Finalize, TypeOK, Row
  <2> QED BY <1>9, <2>1 DEF Finalize, provider, Covers
<1> QED
  BY <1>1, <1>2, <1>3, <1>4, <1>5, <1>6, <1>7, <1>8, <1>9 DEF Next, PassStep

\* Time goes on, an execution is recorded once, the first booking is frozen, and a
\* reservation is made for days to come and may be cancelled, no more.
LEMMA StepsOnlyAdd ==
  ASSUME TypeOK, [Next]_vars
  PROVE  /\ today' >= today
         /\ executed # None => executed' = executed
         /\ row.first # None => row'.first = row.first
         /\ \A r \in Reservations :
              /\ reserved[r] # "ABSENT" => reserved'[r] # "ABSENT" /\ bookedAt'[r] = bookedAt[r]
              /\ reserved[r] = "cancelled" => reserved'[r] = "cancelled"
              /\ reserved[r] = "ABSENT" /\ reserved'[r] # "ABSENT" => today <= CheckIn[r]
<1> USE OutcomeAssumption
<1>0. today \in Nat
  BY DEF TypeOK
<1>1. CASE UNCHANGED vars
  BY <1>0, <1>1 DEF vars, provider, rowVars
<1>2. CASE Day \/ Elapse \/ RecordExecution
  BY <1>0, <1>2 DEF Day, Elapse, RecordExecution, provider, rowVars
<1>3. ASSUME NEW r \in Reservations, Book(r) \/ Unbook(r)
      PROVE  /\ today' = today /\ UNCHANGED rowVars
             /\ \A s \in Reservations :
                  /\ reserved[s] # "ABSENT" =>
                       reserved'[s] # "ABSENT" /\ bookedAt'[s] = bookedAt[s]
                  /\ reserved[s] = "cancelled" => reserved'[s] = "cancelled"
                  /\ reserved[s] = "ABSENT" /\ reserved'[s] # "ABSENT" => today <= CheckIn[s]
  BY <1>3 DEF Book, Unbook, TypeOK
<1>4. ASSUME NEW p \in Passes, StartPass(p) \/ Fetch(p) \/ FetchFails(p) \/ Look(p) \/ Crash(p)
      PROVE  UNCHANGED <<today, provider, rowVars>>
  BY <1>4 DEF StartPass, Fetch, FetchFails, Look, Crash
<1>5. ASSUME NEW p \in Passes, NoteFirst(p) \/ SetCurrent(p) \/ Finalize(p)
      PROVE  /\ UNCHANGED <<today, provider, executed>>
             /\ row.first # None => row'.first = row.first
  BY <1>5 DEF NoteFirst, SetCurrent, Finalize, Frozen, TypeOK, Row
<1> QED
  BY <1>0, <1>1, <1>2, <1>3, <1>4, <1>5 DEF Next, PassStep, provider, rowVars

\* A pass that does not step keeps what it knows, whatever the others do.
LEMMA OthersKnow ==
  ASSUME TypeOK, TypeOK', PassesKnow, [Next]_vars, NEW q \in Passes,
         pc'[q] = pc[q], moment'[q] = moment[q], seen'[q] = seen[q], page'[q] = page[q]
  PROVE  PassKnows(q)'
<1> USE OutcomeAssumption
<1>1. PassKnows(q)
  BY DEF PassesKnow
<1>2. (pc[q] # "idle" => executed # None)' /\ (moment[q] <= today)'
  BY <1>1, StepsOnlyAdd DEF PassKnows, TypeOK
<1>3. (seen[q] # None => row.first = seen[q])'
  BY <1>1, StepsOnlyAdd DEF PassKnows
<1>4. ASSUME NEW r \in Reservations
      PROVE  (/\ page[q][r] # "ABSENT" => reserved[r] # "ABSENT"
              /\ page[q][r] = "cancelled" => reserved[r] = "cancelled"
              /\ pc[q] \in Fetched /\ seen[q] = r => page[q][r] # "ABSENT"
              /\ pc[q] \in Fetched /\ reserved[r] # "ABSENT" /\ page[q][r] = "ABSENT"
                   => moment[q] <= CheckIn[r])'
  BY <1>1, StepsOnlyAdd DEF PassKnows, TypeOK
<1>5. pc[q] = "current" => Qualifying(q)' = Qualifying(q)
  BY <1>1, StepsOnlyAdd DEF PassKnows, Qualifying, Qualifies, Booked, Covers
<1>6. (pc[q] = "current" /\ Qualifying(q) # {} => row.first # None)'
  BY <1>1, <1>5, StepsOnlyAdd DEF PassKnows
<1>7. (pc[q] = "finalize" => Settled)'
  BY <1>1, SettledStays DEF PassKnows
<1> QED
  BY <1>2, <1>3, <1>4, <1>6, <1>7 DEF PassKnows

\* The pass that steps knows what the next step of it needs.
LEMMA StepperKnows ==
  ASSUME TypeOK, TypeOK', Inv, NEW p \in Passes, StartPass(p) \/ PassStep(p) \/ Crash(p)
  PROVE  PassKnows(p)'
<1> USE OutcomeAssumption
<1>0. PassKnows(p) /\ RowKnows
  BY DEF Inv, PassesKnow
<1>1. CASE StartPass(p)
  BY <1>0, <1>1 DEF StartPass, Goto, Fetched, PassKnows, TypeOK, provider, rowVars
<1>2. CASE Fetch(p)
  BY <1>0, <1>2 DEF Fetch, Goto, PassKnows, RowKnows, TypeOK, provider, rowVars
<1>3. CASE FetchFails(p) \/ Crash(p)
  <2>1. /\ pc'[p] = "idle" /\ moment'[p] = 0 /\ seen'[p] = None /\ today' \in Nat
        /\ \A r \in Reservations : page'[p][r] = "ABSENT"
    BY <1>3 DEF FetchFails, Crash, Finish, Goto, Forget, TypeOK
  <2> QED BY <2>1 DEF PassKnows, Fetched
<1>4. CASE NoteFirst(p)
  <2>1. /\ pc[p] = "first" /\ pc'[p] = "current"
        /\ UNCHANGED <<today, provider, executed, moment, seen, page>>
    BY <1>4 DEF NoteFirst, Goto, TypeOK
  <2>2. row.first # None => row'.first = row.first
    BY <1>4 DEF NoteFirst, Frozen, TypeOK, Row
  <2>3. Qualifying(p)' = Qualifying(p)
    BY <2>1 DEF Qualifying, Qualifies, Booked, Covers, provider
  <2>4. Qualifying(p) # {} => row'.first # None
    <3>1. bookedAt \in [Reservations -> Nat] /\ Qualifying(p) \in SUBSET Reservations
      BY ReservationsAreCounted DEF TypeOK, Qualifying
    <3>2. Qualifying(p) # {} => Earliest(Qualifying(p)) \in Reservations
      BY <3>1, EarliestExists, Zenon
    <3>3. CASE seen[p] # None
      BY <1>0, <2>2, <3>3 DEF PassKnows
    <3>4. CASE seen[p] = None
      BY <1>4, <3>2, <3>4 DEF NoteFirst, Frozen, TypeOK, Row
    <3> QED BY <3>3, <3>4
  <2> QED
    BY <1>0, <2>1, <2>2, <2>3, <2>4 DEF PassKnows, Fetched, provider, TypeOK
<1>5. CASE SetCurrent(p)
  <2>1. /\ pc[p] = "current" /\ pc'[p] = "look" /\ seen'[p] = None
        /\ UNCHANGED <<today, provider, executed, moment, page>>
    BY <1>5 DEF SetCurrent, Goto, TypeOK
  <2> QED BY <1>0, <2>1 DEF PassKnows, Fetched, provider
<1>6. CASE Look(p)
  <2>1. /\ pc[p] = "look" /\ seen'[p] = None /\ moment'[p] = 0
        /\ pc'[p] = IF Finalizable(p) THEN "finalize" ELSE "idle"
        /\ UNCHANGED <<today, provider, executed, row>>
        /\ \A r \in Reservations : page'[p][r] = "ABSENT"
    BY <1>6 DEF Look, Goto, Forget, TypeOK, rowVars
  <2>2. ASSUME Finalizable(p) PROVE Settled
    <3>1. row.passes = MinPasses
      <4>1. row.passes \in 0 .. MinPasses /\ MinPasses \in Nat
        BY DEF TypeOK, Row
      <4>2. row.passes >= MinPasses
        BY <2>2 DEF Finalizable, PassedEnough
      <4> QED BY <4>1, <4>2
    <3>2. moment[p] <= today /\ moment[p] \in Nat /\ today \in Nat
      BY <1>0 DEF PassKnows, TypeOK
    <3>3. /\ Night \in Nat /\ SettleDays \in Nat \ {0}
          /\ \A r \in Reservations : CheckIn[r] \in Nat /\ CheckOut[r] \in Nat
      OBVIOUS
    <3> DEFINE covering == {r \in Reservations : page[p][r] # "ABSENT" /\ Covers(r)}
    <3>4. \A r \in covering : moment[p] >= CheckOut[r] + SettleDays
      BY <2>2 DEF Finalizable, Anchors
    <3>5. moment[p] >= Night + SettleDays
      <4>1. CASE covering = {}
        BY <2>2, <4>1 DEF Finalizable, Anchors
      <4>2. CASE covering # {}
        <5>1. PICK r \in covering : TRUE
          BY <4>2
        <5>2. Night < CheckOut[r]
          BY DEF Covers
        <5> QED BY <3>2, <3>3, <3>4, <5>1, <5>2
      <4> QED BY <4>1, <4>2
    <3>6. ASSUME NEW r \in Reservations, reserved[r] # "ABSENT", Covers(r)
          PROVE  today >= CheckOut[r] + SettleDays
      <4>1. page[p][r] # "ABSENT"
        <5>1. page[p][r] = "ABSENT" => moment[p] <= CheckIn[r]
          BY <1>0, <2>1, <3>6 DEF PassKnows, Fetched
        <5> QED BY <3>2, <3>3, <3>5, <3>6, <5>1 DEF Covers
      <4>2. moment[p] >= CheckOut[r] + SettleDays
        BY <3>4, <3>6, <4>1
      <4> QED BY <3>2, <3>3, <4>2
    <3> QED BY <3>1, <3>2, <3>3, <3>5, <3>6 DEF Settled
  <2>3. Finalizable(p) => Settled'
    BY <2>1, <2>2 DEF Settled, Covers, provider
  <2> QED
    BY <1>0, <2>1, <2>3 DEF PassKnows, Fetched, TypeOK
<1>7. CASE Finalize(p)
  <2>1. /\ pc'[p] = "idle" /\ moment'[p] = 0 /\ seen'[p] = None /\ today' \in Nat
        /\ \A r \in Reservations : page'[p][r] = "ABSENT"
    BY <1>7 DEF Finalize, Finish, Goto, Forget, TypeOK
  <2> QED BY <2>1 DEF PassKnows, Fetched
<1> QED
  BY <1>1, <1>2, <1>3, <1>4, <1>5, <1>6, <1>7 DEF PassStep

\* The row stays true.
LEMMA RowStaysTrue ==
  ASSUME TypeOK, TypeOK', Inv, [Next]_vars
  PROVE  RowKnows'
<1> USE OutcomeAssumption
<1>0. RowKnows
  BY DEF Inv
<1>a. row \in Row /\ row' \in Row
  BY DEF TypeOK
<1>1. ASSUME row' = row PROVE RowKnows'
  <2>1. row.first # None => row.first \in Reservations
    BY <1>a DEF Row
  <2> QED
    BY <1>0, <1>1, <2>1, StepsOnlyAdd, SettledStays DEF RowKnows, Covers
<1>2. ASSUME NEW p \in Passes, NoteFirst(p) PROVE RowKnows'
  <2>1. PassKnows(p) /\ pc[p] = "first"
    BY <1>2 DEF Inv, PassesKnow, NoteFirst
  <2>2. CASE Qualifying(p) # {} /\ row.first = None /\ row' # row
    <3> DEFINE r == Earliest(Qualifying(p))
    <3>1. row' = [row EXCEPT !.first = r]
      BY <1>2, <2>2 DEF NoteFirst, Frozen
    <3>2. r \in Qualifying(p)
      <4>1. bookedAt \in [Reservations -> Nat] /\ Qualifying(p) \in SUBSET Reservations
        BY ReservationsAreCounted DEF TypeOK, Qualifying
      <4> QED BY <2>2, <4>1, EarliestExists, Zenon
    <3> HIDE DEF r
    <3>3. /\ r \in Reservations /\ page[p][r] = "booked"
          /\ bookedAt[r] > executed /\ Covers(r)
      BY <3>2 DEF Qualifying, Qualifies, Booked
    <3>4. executed # None /\ reserved[r] # "ABSENT"
      BY <2>1, <3>3 DEF PassKnows
    <3>5. UNCHANGED <<today, provider, executed>>
      BY <1>2 DEF NoteFirst
    <3>6. /\ row'.first = r /\ row'.status = row.status /\ row'.lost = row.lost
          /\ row'.finalized = row.finalized
      BY <3>1, <1>a DEF Row
    <3>7. r # None
      BY <3>3
    <3>8. ~row.lost
      BY <1>0, <2>2 DEF RowKnows
    <3>9. row'.finalized => Settled'
      BY <1>0, <3>6, SettledStays DEF RowKnows
    <3> QED
      BY <3>3, <3>4, <3>5, <3>6, <3>7, <3>8, <3>9 DEF RowKnows, Covers, provider
  <2>3. CASE row' = row
    BY <1>1, <2>3
  <2>4. row.first # None => row' = row
    BY <1>2, <1>a DEF NoteFirst, Frozen, Row
  <2>5. Qualifying(p) = {} => row' = row
    BY <1>2 DEF NoteFirst
  <2> QED BY <2>2, <2>3, <2>4, <2>5
<1>3. ASSUME NEW p \in Passes, SetCurrent(p) PROVE RowKnows'
  <2>1. PassKnows(p) /\ pc[p] = "current"
    BY <1>3 DEF Inv, PassesKnow, SetCurrent
  <2>2. /\ row'.first = row.first /\ row'.finalized = row.finalized
        /\ row'.status = Observed(p)
        /\ row'.lost => row.lost \/ Observed(p) = "cancelled"
    BY <1>3, <1>a DEF SetCurrent, Row
  <2>3. UNCHANGED <<today, provider, executed>>
    BY <1>3 DEF SetCurrent
  <2>4. Observed(p) = "booked" => row.first # None
    BY <2>1 DEF Observed, PassKnows
  <2>5. Observed(p) = "cancelled" =>
          row.first # None /\ reserved[row.first] = "cancelled"
    <3> SUFFICES ASSUME Observed(p) = "cancelled"
                 PROVE  row.first # None /\ reserved[row.first] = "cancelled"
      OBVIOUS
    <3>1. Qualifying(p) = {} /\ seen[p] # None
      BY DEF Observed, KnownFirst
    <3>2. row.first = seen[p] /\ row.first \in Reservations
      BY <2>1, <3>1, <1>a DEF PassKnows, Row
    <3>3. bookedAt[row.first] > executed /\ Covers(row.first)
      BY <1>0, <3>1, <3>2 DEF RowKnows
    <3>4. page[p][row.first] # "booked"
      BY <3>1, <3>2, <3>3 DEF Qualifying, Qualifies, Booked
    <3>5. page[p][row.first] # "ABSENT"
      BY <2>1, <3>2 DEF PassKnows, Fetched
    <3>6. page[p][row.first] = "cancelled"
      BY <3>2, <3>4, <3>5 DEF TypeOK
    <3> QED BY <2>1, <3>1, <3>2, <3>6 DEF PassKnows
  <2>6. row'.finalized => Settled'
    BY <1>0, <2>2, SettledStays DEF RowKnows
  <2> QED
    BY <1>0, <2>2, <2>3, <2>4, <2>5, <2>6 DEF RowKnows, Covers, provider
<1>4. ASSUME NEW p \in Passes, Finalize(p) PROVE RowKnows'
  <2>1. PassKnows(p) /\ pc[p] = "finalize"
    BY <1>4 DEF Inv, PassesKnow, Finalize
  <2>2. Settled'
    BY <2>1, SettledStays DEF PassKnows
  <2>3. row'.first = row.first /\ row'.status = row.status /\ row'.lost = row.lost
    BY <1>4, <1>a DEF Finalize, Row
  <2>4. UNCHANGED <<today, provider, executed>>
    BY <1>4 DEF Finalize
  <2> QED
    BY <1>0, <2>2, <2>3, <2>4 DEF RowKnows, Covers, provider
<1>5. ASSUME NEW p \in Passes, StartPass(p) \/ Fetch(p) \/ FetchFails(p) \/ Look(p) \/ Crash(p)
      PROVE  row' = row
  BY <1>5 DEF StartPass, Fetch, FetchFails, Look, Crash, rowVars
<1>6. CASE UNCHANGED vars \/ Day \/ Elapse \/ RecordExecution
  BY <1>1, <1>6 DEF vars, Day, Elapse, RecordExecution, rowVars
<1>7. ASSUME NEW r \in Reservations, Book(r) \/ Unbook(r) PROVE row' = row
  BY <1>7 DEF Book, Unbook, rowVars
<1> QED
  BY <1>1, <1>2, <1>3, <1>4, <1>5, <1>6, <1>7 DEF Next, PassStep

LEMMA InvIsInvariant == Spec => []Inv
<1>1. Init => Inv
  <2> SUFFICES ASSUME Init PROVE Inv
    OBVIOUS
  <2>1. ASSUME NEW p \in Passes PROVE PassKnows(p)
    BY DEF Init, PassKnows, Fetched
  <2>2. RowKnows
    BY OutcomeAssumption DEF Init, RowKnows
  <2> QED BY <2>1, <2>2 DEF Inv, PassesKnow
<1>2. TypeOK /\ TypeOK' /\ Inv /\ [Next]_vars => Inv'
  <2> SUFFICES ASSUME TypeOK, TypeOK', Inv, [Next]_vars PROVE Inv'
    OBVIOUS
  <2>1. ASSUME NEW q \in Passes PROVE PassKnows(q)'
    <3>1. CASE StartPass(q) \/ PassStep(q) \/ Crash(q)
      BY <3>1, StepperKnows
    <3>2. CASE /\ pc'[q] = pc[q] /\ moment'[q] = moment[q]
               /\ seen'[q] = seen[q] /\ page'[q] = page[q]
      BY <3>2, OthersKnow DEF Inv
    <3>3. ASSUME NEW p \in Passes, p # q, StartPass(p) \/ PassStep(p) \/ Crash(p)
          PROVE  /\ pc'[q] = pc[q] /\ moment'[q] = moment[q]
                 /\ seen'[q] = seen[q] /\ page'[q] = page[q]
      BY <3>3 DEF StartPass, PassStep, Crash, Fetch, FetchFails, NoteFirst, SetCurrent, Look,
                  Finalize, Finish, Goto, Forget, TypeOK, passVars
    <3>4. CASE UNCHANGED vars \/ Day \/ Elapse \/ RecordExecution
      BY <3>2, <3>4 DEF vars, Day, Elapse, RecordExecution, passVars
    <3>5. ASSUME NEW r \in Reservations, Book(r) \/ Unbook(r)
          PROVE  UNCHANGED passVars
      BY <3>5 DEF Book, Unbook
    <3> QED
      BY <3>1, <3>2, <3>3, <3>4, <3>5 DEF Next, passVars
  <2>2. RowKnows'
    BY RowStaysTrue
  <2> QED BY <2>1, <2>2 DEF Inv, PassesKnow
<1> QED
  BY <1>1, <1>2, TypeCorrect, PTL DEF Spec

-----------------------------------------------------------------------------
(* What is claimed of the row.                                              *)

\* The first booking, once noted, is never written over by a pass that saw
\* something else (note_first_booking).
THEOREM EvidenceIsFrozen == Spec => FirstIsFrozen
<1>1. TypeOK /\ [Next]_vars => [row.first # None => row'.first = row.first]_vars
  BY StepsOnlyAdd
<1> QED
  BY <1>1, TypeCorrect, PTL DEF Spec, FirstIsFrozen

\* The first booking was made after the action and includes the night (qualifies).
THEOREM EvidenceIsLater == Spec => []FirstIsAfterTheAction
<1>1. Inv => FirstIsAfterTheAction
  BY DEF Inv, RowKnows, FirstIsAfterTheAction
<1> QED
  BY <1>1, InvIsInvariant, PTL

\* A row that says booked or cancelled has the booking it speaks of, although two
\* transactions write them (_reconcile).
THEOREM CurrentIsBacked == Spec => []CurrentHasEvidence
<1>1. Inv => CurrentHasEvidence
  BY DEF Inv, RowKnows, CurrentHasEvidence
<1> QED
  BY <1>1, InvIsInvariant, PTL

\* A loss that is recorded is a cancellation at the provider, although the page it
\* is concluded from is old (_reconcile).
THEOREM LossesAreReal == Spec => []LossIsReal
<1>1. Inv => LossIsReal
  BY DEF Inv, RowKnows, LossIsReal
<1> QED
  BY <1>1, InvIsInvariant, PTL

\* A row is final after its stay has ended and settled, although the booking may
\* have been noted by another pass than the one that finalizes (_finalizable).
THEOREM FinalRowsAreSettled == Spec => []FinalIsSettled
<1>1. TypeOK /\ Inv => FinalIsSettled
  BY DEF Inv, RowKnows, FinalIsSettled, Settled, TypeOK, Row
<1> QED
  BY <1>1, TypeCorrect, InvIsInvariant, PTL
=============================================================================
