------------------------ MODULE PricingCleanupProofs ------------------------
(***************************************************************************)
(* Theorems about PricingCleanup, for every set of records, workers,       *)
(* operators and dates and every bound.                                    *)
(***************************************************************************)
EXTENDS PricingCleanup, TLAPS

(* What the helpers of the model return. *)

\* What a POST leaves at the provider is an override that carries the
\* marker of its own record or none.
LEMMA StoredOverride ==
  ASSUME NEW r \in Records
  PROVE  /\ Stored(r) \subseteq Override
         /\ \A o \in Stored(r) : o.marker \in {r, NoMarker}
  BY DEF Stored

\* mark_active and _confirm settle a row to one of three states.
LEMMA ConfirmedStates ==
  ASSUME NEW result
  PROVE  ConfirmedState(result) \in {"ACTIVE", "NEEDS_REVIEW", "VANISHED"}
  BY DEF ConfirmedState

\* A removal ends in one of three verdicts, whatever its outcome.
LEMMA RemovalStates ==
  ASSUME NEW outcome
  PROVE  RemovalState(outcome)
           \in {"CLEANED_UP", "UNKNOWN_CLEANUP_STATE", "NEEDS_REVIEW"}
  BY DEF RemovalState

LEMMA SomeRecordIsOne == SomeRecord \in Records
  BY ConstantsAssumption DEF SomeRecord

\* What the confirming re-read yields is a WriteResult.
LEMMA VerifySetResults ==
  ASSUME NEW r \in Records
  PROVE  VerifySet(r) \cup {NoResult} \subseteq WriteResult
<1>1. NoResult \in WriteResult
  BY DEF NoResult, WriteResult, Outcomes
<1>2. VerifySet(r) \subseteq WriteResult
  BY Zenon DEF VerifySet
<1> QED BY <1>1, <1>2

-----------------------------------------------------------------------------
(* Type correctness. *)

LEMMA InitTypeOK == Init => TypeOK
  BY ConstantsAssumption, SomeRecordIsOne
     DEF Init, TypeOK, CleanupState, Override, Requests, NoResult, WriteResult,
         Outcomes, AuditEvents

LEMMA ProviderTypeOK ==
  ASSUME TypeOK,
         \/ \E r \in Records : LatePost(r) \/ LateDelete(r)
         \/ \E d \in Dates : PersonPins(d) \/ PersonEdits(d) \/ PinRemoved(d)
  PROVE  TypeOK'
<1> USE DEF rowVars, labsVars, applyVars, passVars, manualVars, ghostVars, boundVars
<1>1. ASSUME NEW r \in Records, LatePost(r) PROVE TypeOK'
  BY <1>1, StoredOverride, ZenonT(60) DEF TypeOK, LatePost, Posted
<1>2. ASSUME NEW r \in Records, LateDelete(r) PROVE TypeOK'
  BY <1>2 DEF TypeOK, LateDelete, Removed
<1>3. ASSUME NEW d \in Dates, PersonPins(d) PROVE TypeOK'
  BY <1>3 DEF TypeOK, PersonPins, Override
<1>4. ASSUME NEW d \in Dates, PersonEdits(d) PROVE TypeOK'
  BY <1>4 DEF TypeOK, PersonEdits
<1>5. ASSUME NEW d \in Dates, PinRemoved(d) PROVE TypeOK'
  BY <1>5 DEF TypeOK, PinRemoved
<1> QED BY <1>1, <1>2, <1>3, <1>4, <1>5

LEMMA ClockTypeOK ==
  ASSUME TypeOK, NEW r \in Records, Arrive(r) \/ Lapse(r)
  PROVE  TypeOK'
<1> USE DEF labsVars, applyVars, passVars, manualVars, ghostVars, boundVars
<1>1. CASE Arrive(r)
  BY <1>1 DEF TypeOK, Arrive
<1>2. CASE Lapse(r)
  BY <1>2 DEF TypeOK, Lapse
<1> QED BY <1>1, <1>2

LEMMA ApplyTypeOK ==
  ASSUME TypeOK, NEW r \in Records, Apply(r) \/ ApplyCrash(r)
  PROVE  TypeOK'
<1> USE DEF rowVars, labsVars, applyVars, passVars, manualVars, ghostVars, boundVars
<1>1. CASE ApplyRefused(r)
  BY <1>1 DEF TypeOK, ApplyRefused
<1>2. CASE RecordIntent(r)
  BY <1>2 DEF TypeOK, RecordIntent, CleanupState
<1>3. CASE RecordReasonSent(r)
  BY <1>3 DEF TypeOK, RecordReasonSent
<1>4. CASE SetOverrideStops(r)
  BY <1>4 DEF TypeOK, SetOverrideStops
<1>5. CASE Post(r)
  <2>1. /\ override' \in [Dates -> Override \cup {NoOverride}]
        /\ late' \subseteq Requests
        /\ aack' \in [Records -> BOOLEAN]
    <3>1. PICK acked \in BOOLEAN : aack' = [aack EXCEPT ![r] = acked]
      BY <1>5, Zenon DEF Post
    <3>2. \/ \E o \in Stored(r) : override' = [override EXCEPT ![StayDate[r]] = o]
          \/ override' = override
      BY <1>5, Zenon DEF Post, Posted, labsVars
    <3>3. late' = late \/ late' = late \cup {<<"POST", r>>}
      BY <1>5, Zenon DEF Post, labsVars
    <3> QED BY <3>1, <3>2, <3>3, StoredOverride DEF TypeOK, Requests
  <2>2. /\ apc' = [apc EXCEPT ![r] = "verify"]
        /\ UNCHANGED <<rowVars, aresult, passVars, manualVars, ghostVars, boundVars>>
    BY <1>5 DEF Post
  <2> QED BY <2>1, <2>2 DEF TypeOK
<1>6. CASE VerifyWrite(r)
  BY <1>6, VerifySetResults DEF TypeOK, VerifyWrite
<1>7. CASE Confirm(r)
  BY <1>7, ConfirmedStates, ZenonT(60) DEF TypeOK, Confirm, ApplyForgets, CleanupState,
     NoResult, WriteResult, Outcomes
<1>8. CASE ApplyCrash(r)
  BY <1>8 DEF TypeOK, ApplyCrash, ApplyForgets, NoResult, WriteResult, Outcomes
<1> QED BY <1>1, <1>2, <1>3, <1>4, <1>5, <1>6, <1>7, <1>8 DEF Apply

LEMMA PassTypeOK ==
  ASSUME TypeOK, NEW w \in Workers, Pass(w) \/ PassCrash(w)
  PROVE  TypeOK'
<1> USE DEF rowVars, labsVars, applyVars, passVars, manualVars, ghostVars, boundVars
<1>1. CASE StartPass(w)
  BY <1>1 DEF TypeOK, StartPass, ExpiredClaims
<1>2. CASE Reconcile(w)
  BY <1>2 DEF TypeOK, Reconcile, CleanupState
<1>3. CASE SelectDue(w)
  BY <1>3 DEF TypeOK, SelectDue, DueRows
<1>4. CASE EndPass(w)
  BY <1>4 DEF TypeOK, EndPass
<1>5. CASE Claim(w)
  <2>1. PICK e \in queue[w], t \in Tokens :
          /\ queue' = [queue EXCEPT ![w] = @ \ {e}]
          /\ IF Claimable(e[1])
               THEN /\ state' = [state EXCEPT ![e[1]] = "CLAIMED"]
                    /\ token' = [token EXCEPT ![e[1]] = t]
                    /\ lapsed' = [lapsed EXCEPT ![e[1]] = FALSE]
                    /\ rec' = [rec EXCEPT ![w] = e[1]]
                    /\ mine' = [mine EXCEPT ![w] = t]
                    /\ pc' = [pc EXCEPT ![w] = "claimed"]
               ELSE UNCHANGED <<state, token, lapsed, rec, mine, pc>>
    BY <1>5 DEF Claim
  <2>2. /\ e[1] \in Records
        /\ queue' \in [Workers -> SUBSET (Records \X (Tokens \cup {NoToken}))]
    BY <2>1 DEF TypeOK
  <2>3. UNCHANGED <<arrived, created, reasonSent, labsVars, applyVars, loop, ack,
                    verdict, deleted, manualVars, ghostVars, boundVars>>
    BY <1>5 DEF Claim
  <2>4. CASE Claimable(e[1])
    <3>1. /\ state' = [state EXCEPT ![e[1]] = "CLAIMED"]
          /\ token' = [token EXCEPT ![e[1]] = t]
          /\ lapsed' = [lapsed EXCEPT ![e[1]] = FALSE]
          /\ rec' = [rec EXCEPT ![w] = e[1]]
          /\ mine' = [mine EXCEPT ![w] = t]
          /\ pc' = [pc EXCEPT ![w] = "claimed"]
      BY <2>1, <2>4, Zenon
    <3> QED BY <2>2, <2>3, <3>1 DEF TypeOK, CleanupState
  <2>5. CASE ~Claimable(e[1])
    BY <2>1, <2>2, <2>3, <2>5 DEF TypeOK
  <2> QED BY <2>4, <2>5
<1>6. CASE ProcessNoBands(w)
  BY <1>6 DEF TypeOK, ProcessNoBands, Decide, CleanupState
<1>7. CASE ProcessUnread(w)
  BY <1>7 DEF TypeOK, ProcessUnread
<1>8. CASE ProcessRead(w)
  <2>1. /\ pc' \in [Workers -> {"idle", "loop", "claimed", "proved", "fenced",
                "send", "verify", "resolve", "committed", "stale", "release"}]
        /\ verdict' \in [Workers -> CleanupState]
        /\ deleted' \in [Workers -> BOOLEAN]
    <3>1. CASE Decide(w, "VANISHED", FALSE)
      BY <3>1 DEF TypeOK, Decide, CleanupState
    <3>2. CASE Decide(w, "NEEDS_REVIEW", FALSE)
      BY <3>2 DEF TypeOK, Decide, CleanupState
    <3>3. CASE /\ pc' = [pc EXCEPT ![w] = "proved"]
               /\ UNCHANGED <<verdict, deleted>>
      BY <3>3 DEF TypeOK
    <3> QED BY <1>8, <3>1, <3>2, <3>3, Zenon DEF ProcessRead
  <2>2. UNCHANGED <<rowVars, labsVars, applyVars, loop, queue, rec, mine, ack,
                    manualVars, ghostVars, boundVars>>
    BY <1>8 DEF ProcessRead
  <2> QED BY <2>1, <2>2 DEF TypeOK
<1>9. CASE SwitchedOff(w)
  BY <1>9 DEF TypeOK, SwitchedOff
<1>10. CASE BeginDelete(w)
  <2>1. CASE MayDelete(w)
    <3>1. /\ state' = [state EXCEPT ![rec[w]] = "DELETE_STARTED"]
          /\ pc' = [pc EXCEPT ![w] = "fenced"]
          /\ UNCHANGED <<verdict, deleted>>
      BY <1>10, <2>1, Zenon DEF BeginDelete
    <3>2. UNCHANGED <<token, lapsed, arrived, created, reasonSent, labsVars,
                      applyVars, loop, queue, rec, mine, ack, manualVars,
                      ghostVars, boundVars>>
      BY <1>10, Zenon DEF BeginDelete
    <3> QED BY <3>1, <3>2 DEF TypeOK, CleanupState
  <2>2. CASE ~MayDelete(w)
    <3>1. /\ verdict' = [verdict EXCEPT ![w] = "DELETE_STARTED"]
          /\ deleted' = [deleted EXCEPT ![w] = FALSE]
          /\ pc' = [pc EXCEPT ![w] = "stale"]
          /\ UNCHANGED state
      BY <1>10, <2>2, Zenon DEF BeginDelete
    <3>2. UNCHANGED <<token, lapsed, arrived, created, reasonSent, labsVars,
                      applyVars, loop, queue, rec, mine, ack, manualVars,
                      ghostVars, boundVars>>
      BY <1>10, Zenon DEF BeginDelete
    <3> QED BY <3>1, <3>2 DEF TypeOK, CleanupState
  <2> QED BY <2>1, <2>2
<1>11. CASE GuardRaises(w)
  BY <1>11 DEF TypeOK, GuardRaises
<1>12. CASE BeforeUnread(w)
  BY <1>12 DEF TypeOK, BeforeUnread, Decide, CleanupState
<1>13. CASE BeforeRead(w)
  BY <1>13 DEF TypeOK, BeforeRead
<1>14. CASE SendDelete(w)
  <2>1. /\ override' \in [Dates -> Override \cup {NoOverride}]
        /\ late' \subseteq Requests
        /\ ack' \in [Workers -> BOOLEAN]
    <3>1. PICK acked \in BOOLEAN : ack' = [ack EXCEPT ![w] = acked]
      BY <1>14, Zenon DEF SendDelete
    <3>2. \/ override' = [override EXCEPT ![StayDate[rec[w]]] = NoOverride]
          \/ override' = override
      BY <1>14, Zenon DEF SendDelete, Removed, labsVars
    <3>3. late' = late \/ late' = late \cup {<<"DELETE", rec[w]>>}
      BY <1>14, Zenon DEF SendDelete, labsVars
    <3> QED BY <3>1, <3>2, <3>3 DEF TypeOK, Requests
  <2>2. /\ pc' = [pc EXCEPT ![w] = "verify"]
        /\ deletes' = [deletes EXCEPT ![rec[w]] = @ + 1]
        /\ UNCHANGED <<rowVars, applyVars, loop, queue, rec, mine, verdict,
                       deleted, manualVars, audit, boundVars>>
    BY <1>14 DEF SendDelete
  <2> QED BY <2>1, <2>2 DEF TypeOK
<1>15. CASE VerifyDelete(w)
  <2>1. PICK v \in {"CLEANED_UP", "UNKNOWN_CLEANUP_STATE", "NEEDS_REVIEW"} :
          Decide(w, v, TRUE)
    BY <1>15, RemovalStates DEF VerifyDelete
  <2>2. UNCHANGED <<rowVars, labsVars, applyVars, loop, queue, rec, mine, ack,
                    manualVars, ghostVars, boundVars>>
    BY <1>15 DEF VerifyDelete
  <2> QED BY <2>1, <2>2 DEF TypeOK, Decide, CleanupState
<1>16. CASE Resolve(w)
  <2>1. CASE MayResolve(w)
    <3>1. /\ state' = [state EXCEPT ![rec[w]] = verdict[w]]
          /\ token' = [token EXCEPT ![rec[w]] = NoToken]
          /\ lapsed' = [lapsed EXCEPT ![rec[w]] = FALSE]
          /\ pc' = [pc EXCEPT ![w] = "committed"]
      BY <1>16, <2>1, Zenon DEF Resolve
    <3>2. UNCHANGED <<arrived, created, reasonSent, labsVars, applyVars, loop, queue,
                      rec, mine, ack, verdict, deleted, manualVars, ghostVars,
                      boundVars>>
      BY <1>16, Zenon DEF Resolve
    <3> QED BY <3>1, <3>2 DEF TypeOK
  <2>2. CASE ~MayResolve(w)
    BY <1>16, <2>2 DEF TypeOK, Resolve
  <2> QED BY <2>1, <2>2
<1>17. CASE RecordAudit(w)
  BY <1>17, SomeRecordIsOne DEF TypeOK, RecordAudit, PassForgets, AuditEvents,
     CleanupState
<1>18. CASE Release(w)
  <2>1. CASE token[rec[w]] = mine[w]
    <3>1. /\ state' = [state EXCEPT ![rec[w]] = "ACTIVE"]
          /\ token' = [token EXCEPT ![rec[w]] = NoToken]
          /\ lapsed' = [lapsed EXCEPT ![rec[w]] = FALSE]
      BY <1>18, <2>1, Zenon DEF Release
    <3>2. /\ pc' = [pc EXCEPT ![w] = "loop"]
          /\ PassForgets(w)
          /\ UNCHANGED <<arrived, created, reasonSent, labsVars, applyVars, loop,
                         queue, manualVars, ghostVars, boundVars>>
      BY <1>18, Zenon DEF Release
    <3> QED BY <3>1, <3>2, SomeRecordIsOne DEF TypeOK, PassForgets, CleanupState
  <2>2. CASE token[rec[w]] # mine[w]
    BY <1>18, <2>2, SomeRecordIsOne DEF TypeOK, Release, PassForgets, CleanupState
  <2> QED BY <2>1, <2>2
<1>19. CASE PassCrash(w)
  BY <1>19, SomeRecordIsOne DEF TypeOK, PassCrash, PassForgets, CleanupState
<1> QED
  BY <1>1, <1>2, <1>3, <1>4, <1>5, <1>6, <1>7, <1>8, <1>9, <1>10, <1>11, <1>12,
     <1>13, <1>14, <1>15, <1>16, <1>17, <1>18, <1>19 DEF Pass

LEMMA ManualTypeOK ==
  ASSUME TypeOK, NEW o \in Operators, Manual(o)
  PROVE  TypeOK'
<1> USE DEF rowVars, labsVars, applyVars, passVars, manualVars, ghostVars, boundVars
<1>1. CASE ManualRead(o)
  BY <1>1 DEF TypeOK, ManualRead
<1>2. CASE ManualResolve(o)
  <2>1. CASE state[orec[o]] \in ManuallyResolvableStates
    <3>1. /\ state' = [state EXCEPT ![orec[o]] = "MANUALLY_RESOLVED"]
          /\ opc' = [opc EXCEPT ![o] = "audit"]
          /\ UNCHANGED <<orec, oprev>>
      BY <1>2, <2>1, Zenon DEF ManualResolve
    <3>2. UNCHANGED <<token, lapsed, arrived, created, reasonSent, labsVars, applyVars,
                      passVars, ghostVars, boundVars>>
      BY <1>2, Zenon DEF ManualResolve
    <3> QED BY <3>1, <3>2 DEF TypeOK, CleanupState
  <2>2. CASE state[orec[o]] \notin ManuallyResolvableStates
    BY <1>2, <2>2, SomeRecordIsOne, SMTT(30) DEF TypeOK, ManualResolve, ManualForgets
  <2> QED BY <2>1, <2>2
<1>3. CASE ManualAudit(o)
  <2>1. audit' \subseteq AuditEvents
    <3>1. [event |-> "PRICING_CLEANUP_MANUALLY_RESOLVED", rec |-> orec[o],
           state |-> oprev[o], deleted |-> FALSE] \in AuditEvents
      BY DEF TypeOK, AuditEvents
    <3> QED BY <1>3, <3>1 DEF TypeOK, ManualAudit
  <2> QED BY <1>3, <2>1, SomeRecordIsOne DEF TypeOK, ManualAudit, ManualForgets
<1> QED BY <1>1, <1>2, <1>3 DEF Manual

LEMMA StutterTypeOK ==
  ASSUME TypeOK, UNCHANGED vars
  PROVE  TypeOK'
  BY DEF TypeOK, vars, rowVars, labsVars, applyVars, passVars, manualVars,
         ghostVars, boundVars

\* Every column, request, local variable and audit event has its type in
\* every reachable state.
THEOREM TypeCorrect == Spec => []TypeOK
<1>1. TypeOK /\ [Next]_vars => TypeOK'
  BY ProviderTypeOK, ClockTypeOK, ApplyTypeOK, PassTypeOK, ManualTypeOK,
     StutterTypeOK DEF Next
<1> QED BY InitTypeOK, <1>1, PTL DEF Spec

-----------------------------------------------------------------------------
(* The claim, the fence and the DELETE. *)

claimVars == <<state, token, apc, pc, loop, rec, mine, verdict, deletes>>

LEMMA InitCleanupInv == Init => CleanupInv
  BY DEF Init, CleanupInv, PassShape, WriterShape, ClaimsAreTokened,
     HeldOrSettled, UniqueHolder, FenceShape, SentNeverReenters,
     AtMostOneDelete, Holder

\* Steps of people, of the clock and of the provider do not touch it.
LEMMA QuietCleanupInv ==
  ASSUME CleanupInv, UNCHANGED claimVars
  PROVE  CleanupInv'
  BY DEF claimVars, CleanupInv, PassShape, WriterShape, ClaimsAreTokened,
     HeldOrSettled, UniqueHolder, FenceShape, SentNeverReenters,
     AtMostOneDelete, Holder

LEMMA ApplyCleanupInv ==
  ASSUME TypeOK, CleanupInv, NEW r \in Records, Apply(r) \/ ApplyCrash(r)
  PROVE  CleanupInv'
<1> USE DEF TypeOK, CleanupInv, PassShape, WriterShape, ClaimsAreTokened,
            HeldOrSettled, UniqueHolder, FenceShape, SentNeverReenters,
            AtMostOneDelete, Holder, TerminalStates, rowVars, passVars, ghostVars
<1>1. CASE ApplyRefused(r)
  BY <1>1 DEF ApplyRefused
<1>2. CASE RecordIntent(r)
  BY <1>2 DEF RecordIntent
<1>3. CASE RecordReasonSent(r)
  BY <1>3 DEF RecordReasonSent
<1>4. CASE SetOverrideStops(r)
  BY <1>4 DEF SetOverrideStops
<1>5. CASE Post(r)
  BY <1>5 DEF Post
<1>6. CASE VerifyWrite(r)
  BY <1>6 DEF VerifyWrite
<1>7. CASE Confirm(r)
  BY <1>7, ConfirmedStates DEF Confirm
<1>8. CASE ApplyCrash(r)
  BY <1>8 DEF ApplyCrash
<1> QED BY <1>1, <1>2, <1>3, <1>4, <1>5, <1>6, <1>7, <1>8 DEF Apply

LEMMA PassCleanupInv ==
  ASSUME TypeOK, CleanupInv, NEW w \in Workers, Pass(w) \/ PassCrash(w)
  PROVE  CleanupInv'
<1> USE DEF TypeOK, CleanupInv, PassShape, WriterShape, ClaimsAreTokened,
            HeldOrSettled, UniqueHolder, FenceShape, SentNeverReenters,
            AtMostOneDelete, Holder, TerminalStates, rowVars, applyVars, ghostVars
<1>1. CASE StartPass(w)
  BY <1>1 DEF StartPass
<1>2. CASE Reconcile(w)
  BY <1>2 DEF Reconcile
<1>3. CASE SelectDue(w)
  BY <1>3 DEF SelectDue
<1>4. CASE EndPass(w)
  BY <1>4 DEF EndPass
<1>5. CASE Claim(w)
  <2>1. PICK e \in queue[w], t \in Tokens :
          IF Claimable(e[1])
            THEN /\ state' = [state EXCEPT ![e[1]] = "CLAIMED"]
                 /\ token' = [token EXCEPT ![e[1]] = t]
                 /\ rec' = [rec EXCEPT ![w] = e[1]]
                 /\ mine' = [mine EXCEPT ![w] = t]
                 /\ pc' = [pc EXCEPT ![w] = "claimed"]
            ELSE UNCHANGED <<state, token, rec, mine, pc>>
    BY <1>5, ZenonT(60) DEF Claim
  <2>2. /\ pc[w] = "loop" /\ loop[w] = "due"
        /\ UNCHANGED <<apc, loop, verdict, deletes>>
    BY <1>5, Zenon DEF Claim, applyVars, ghostVars
  <2>3. CASE Claimable(e[1])
    <3>1. /\ state' = [state EXCEPT ![e[1]] = "CLAIMED"]
          /\ token' = [token EXCEPT ![e[1]] = t]
          /\ rec' = [rec EXCEPT ![w] = e[1]]
          /\ mine' = [mine EXCEPT ![w] = t]
          /\ pc' = [pc EXCEPT ![w] = "claimed"]
      BY <2>1, <2>3, Zenon
    <3>2. /\ e[1] \in Records /\ t \in Tokens /\ t # NoToken
          /\ state[e[1]] = "ACTIVE" /\ token[e[1]] = NoToken
          /\ deletes[e[1]] = 0
      <4>1. e[1] \in Records
        OBVIOUS
      <4>2. t # NoToken
        BY ConstantsAssumption
      <4>3. state[e[1]] = "ACTIVE"
        BY <2>3 DEF Claimable
      <4>4. deletes[e[1]] \in Nat /\ ~(deletes[e[1]] > 0)
        BY <4>1, <4>3
      <4> QED BY <4>1, <4>2, <4>3, <4>4
    <3>3. ASSUME NEW v \in Workers, Holder(v), rec[v] = e[1] PROVE FALSE
      <4>1. token[rec[v]] = mine[v] \/ state[rec[v]] \in TerminalStates
        BY <3>3, Zenon
      <4>2. mine[v] # NoToken
        BY <3>3, Zenon
      <4> QED BY <3>2, <3>3, <4>1, <4>2
    <3>10. PassShape'
      BY <2>2, <3>1, <3>2, <3>3
    <3>20. WriterShape'
      BY <2>2, <3>1, <3>2, <3>3
    <3>30. ClaimsAreTokened'
      BY <2>2, <3>1, <3>2, <3>3
    <3>40. HeldOrSettled'
      BY <2>2, <3>1, <3>2, <3>3
    <3>50. UniqueHolder'
      BY <2>2, <3>1, <3>2, <3>3
    <3>60. FenceShape'
      BY <2>2, <3>1, <3>2, <3>3
    <3>70. SentNeverReenters'
      BY <2>2, <3>1, <3>2, <3>3
    <3>80. AtMostOneDelete'
      BY <2>2, <3>1, <3>2, <3>3
    <3> QED BY <3>10, <3>20, <3>30, <3>40, <3>50, <3>60, <3>70, <3>80
  <2>4. CASE ~Claimable(e[1])
    <3>1. UNCHANGED claimVars
      BY <2>1, <2>2, <2>4, Zenon DEF claimVars
    <3> QED BY <3>1, QuietCleanupInv
  <2> QED BY <2>3, <2>4
<1>6. CASE ProcessNoBands(w)
  BY <1>6 DEF ProcessNoBands, Decide
<1>7. CASE ProcessUnread(w)
  BY <1>7 DEF ProcessUnread
<1>8. CASE ProcessRead(w)
  BY <1>8 DEF ProcessRead, Decide
<1>9. CASE SwitchedOff(w)
  BY <1>9 DEF SwitchedOff
<1>10. CASE BeginDelete(w)
  <2>1. CASE MayDelete(w)
    <3>1. /\ state' = [state EXCEPT ![rec[w]] = "DELETE_STARTED"]
          /\ pc' = [pc EXCEPT ![w] = "fenced"]
          /\ UNCHANGED <<token, apc, loop, rec, mine, verdict, deletes>>
      BY <1>10, <2>1, Zenon DEF BeginDelete, ghostVars, applyVars
    <3>2. Holder(w) /\ pc[w] = "proved" /\ deletes[rec[w]] = 0
      BY <1>10 DEF BeginDelete
    <3>3. state[rec[w]] = "CLAIMED"
      BY <2>1 DEF MayDelete
    <3>10. PassShape'
      BY <3>1, <3>2, <3>3
    <3>20. WriterShape'
      BY <3>1, <3>2, <3>3
    <3>30. ClaimsAreTokened'
      BY <3>1, <3>2, <3>3
    <3>40. HeldOrSettled'
      BY <3>1, <3>2, <3>3
    <3>50. UniqueHolder'
      BY <3>1, <3>2, <3>3
    <3>60. FenceShape'
      BY <3>1, <3>2, <3>3
    <3>70. SentNeverReenters'
      BY <3>1, <3>2, <3>3
    <3>80. AtMostOneDelete'
      BY <3>1, <3>2, <3>3
    <3> QED BY <3>10, <3>20, <3>30, <3>40, <3>50, <3>60, <3>70, <3>80
  <2>2. CASE ~MayDelete(w)
    <3>1. /\ pc[w] = "proved"
          /\ pc' = [pc EXCEPT ![w] = "stale"]
          /\ verdict' = [verdict EXCEPT ![w] = "DELETE_STARTED"]
          /\ UNCHANGED <<state, token, apc, loop, rec, mine, deletes>>
      BY <1>10, <2>2, Zenon DEF BeginDelete
    <3> QED BY <3>1
  <2> QED BY <2>1, <2>2
<1>11. CASE GuardRaises(w)
  BY <1>11 DEF GuardRaises
<1>12. CASE BeforeUnread(w)
  BY <1>12 DEF BeforeUnread, Decide
<1>13. CASE BeforeRead(w)
  BY <1>13 DEF BeforeRead
<1>14. CASE SendDelete(w)
  BY <1>14, SMTT(30) DEF SendDelete
<1>15. CASE VerifyDelete(w)
  <2>1. /\ pc[w] = "verify"
        /\ UNCHANGED <<state, token, apc, loop, rec, mine, deletes>>
    BY <1>15 DEF VerifyDelete
  <2>2. PICK v \in {"CLEANED_UP", "UNKNOWN_CLEANUP_STATE", "NEEDS_REVIEW"} :
          /\ pc' = [pc EXCEPT ![w] = "resolve"]
          /\ verdict' = [verdict EXCEPT ![w] = v]
    BY <1>15, RemovalStates DEF VerifyDelete, Decide
  <2> QED BY <2>1, <2>2
<1>16. CASE Resolve(w)
  <2>1. CASE MayResolve(w)
    <3>1. /\ state' = [state EXCEPT ![rec[w]] = verdict[w]]
          /\ token' = [token EXCEPT ![rec[w]] = NoToken]
          /\ pc' = [pc EXCEPT ![w] = "committed"]
          /\ UNCHANGED <<apc, loop, rec, mine, verdict, deletes>>
      BY <1>16, <2>1, Zenon DEF Resolve, ghostVars
    <3>2. pc[w] = "resolve" /\ verdict[w] \in TerminalStates \ {"MANUALLY_RESOLVED"}
      BY <1>16 DEF Resolve
    <3>3. state[rec[w]] \in {"CLAIMED", "DELETE_STARTED"}
      BY <2>1 DEF MayResolve
    <3>10. PassShape'
      BY <3>1, <3>2, <3>3
    <3>20. WriterShape'
      BY <3>1, <3>2, <3>3
    <3>30. ClaimsAreTokened'
      BY <3>1, <3>2, <3>3
    <3>40. HeldOrSettled'
      BY <3>1, <3>2, <3>3
    <3>50. UniqueHolder'
      BY <3>1, <3>2, <3>3
    <3>60. FenceShape'
      BY <3>1, <3>2, <3>3
    <3>70. SentNeverReenters'
      BY <3>1, <3>2, <3>3
    <3>80. AtMostOneDelete'
      BY <3>1, <3>2, <3>3
    <3> QED BY <3>10, <3>20, <3>30, <3>40, <3>50, <3>60, <3>70, <3>80
  <2>2. CASE ~MayResolve(w)
    <3>1. /\ pc[w] = "resolve"
          /\ pc' = [pc EXCEPT ![w] = "stale"]
          /\ UNCHANGED <<state, token, apc, loop, rec, mine, verdict, deletes>>
      BY <1>16, <2>2, Zenon DEF Resolve
    <3> QED BY <3>1
  <2> QED BY <2>1, <2>2
<1>17. CASE RecordAudit(w)
  BY <1>17 DEF RecordAudit, PassForgets
<1>18. CASE Release(w)
  <2>1. CASE token[rec[w]] = mine[w]
    <3>1. /\ state' = [state EXCEPT ![rec[w]] = "ACTIVE"]
          /\ token' = [token EXCEPT ![rec[w]] = NoToken]
          /\ pc' = [pc EXCEPT ![w] = "loop"]
          /\ rec' = [rec EXCEPT ![w] = SomeRecord]
          /\ mine' = [mine EXCEPT ![w] = NoToken]
          /\ verdict' = [verdict EXCEPT ![w] = "NEEDS_REVIEW"]
          /\ UNCHANGED <<apc, loop, deletes>>
      BY <1>18, <2>1, Zenon DEF Release, PassForgets
    <3>2. Holder(w) /\ pc[w] = "release" /\ deletes[rec[w]] = 0
      BY <1>18 DEF Release
    <3>3. state[rec[w]] \in {"CLAIMED", "DELETE_STARTED"}
      BY <2>1, <3>2
    <3>10. PassShape'
      BY <2>1, <3>1, <3>2, <3>3
    <3>20. WriterShape'
      BY <2>1, <3>1, <3>2, <3>3
    <3>30. ClaimsAreTokened'
      BY <2>1, <3>1, <3>2, <3>3
    <3>40. HeldOrSettled'
      BY <2>1, <3>1, <3>2, <3>3
    <3>50. UniqueHolder'
      BY <2>1, <3>1, <3>2, <3>3
    <3>60. FenceShape'
      BY <2>1, <3>1, <3>2, <3>3
    <3>70. SentNeverReenters'
      BY <2>1, <3>1, <3>2, <3>3
    <3>80. AtMostOneDelete'
      BY <2>1, <3>1, <3>2, <3>3
    <3> QED BY <3>10, <3>20, <3>30, <3>40, <3>50, <3>60, <3>70, <3>80
  <2>2. CASE token[rec[w]] # mine[w]
    BY <1>18, <2>2 DEF Release, PassForgets
  <2> QED BY <2>1, <2>2
<1>19. CASE PassCrash(w)
  BY <1>19 DEF PassCrash, PassForgets
<1> QED
  BY <1>1, <1>2, <1>3, <1>4, <1>5, <1>6, <1>7, <1>8, <1>9, <1>10, <1>11, <1>12,
     <1>13, <1>14, <1>15, <1>16, <1>17, <1>18, <1>19
     DEF Pass

LEMMA ManualCleanupInv ==
  ASSUME TypeOK, CleanupInv, NEW o \in Operators, Manual(o)
  PROVE  CleanupInv'
<1>1. CASE ManualRead(o) \/ ManualAudit(o)
  <2>1. UNCHANGED claimVars
    BY <1>1, Zenon DEF ManualRead, ManualAudit, claimVars, rowVars, applyVars,
       passVars, ghostVars
  <2> QED BY <2>1, QuietCleanupInv
<1>2. CASE ManualResolve(o)
  <2>1. CASE state[orec[o]] \in ManuallyResolvableStates
    <3>1. /\ state' = [state EXCEPT ![orec[o]] = "MANUALLY_RESOLVED"]
          /\ UNCHANGED <<token, apc, pc, loop, rec, mine, verdict, deletes>>
      BY <1>2, <2>1, Zenon DEF ManualResolve, applyVars, passVars, ghostVars
    <3> QED BY <2>1, <3>1
        DEF TypeOK, CleanupInv, PassShape, WriterShape, ClaimsAreTokened,
            HeldOrSettled, UniqueHolder, FenceShape, SentNeverReenters,
            AtMostOneDelete, Holder, TerminalStates, ManuallyResolvableStates
  <2>2. CASE state[orec[o]] \notin ManuallyResolvableStates
    <3>1. UNCHANGED claimVars
      BY <1>2, <2>2, Zenon DEF ManualResolve, claimVars, applyVars, passVars, ghostVars
    <3> QED BY <3>1, QuietCleanupInv
  <2> QED BY <2>1, <2>2
<1> QED BY <1>1, <1>2 DEF Manual

LEMMA StepCleanupInv ==
  ASSUME TypeOK, CleanupInv, [Next]_vars
  PROVE  CleanupInv'
<1>1. CASE \/ UNCHANGED vars
           \/ \E r \in Records : \/ Arrive(r) \/ Lapse(r)
                                 \/ LatePost(r) \/ LateDelete(r)
           \/ \E d \in Dates : PersonPins(d) \/ PersonEdits(d) \/ PinRemoved(d)
  <2>1. UNCHANGED claimVars
    BY <1>1, Zenon DEF vars, claimVars, rowVars, applyVars, passVars, ghostVars,
       Arrive, Lapse, LatePost, LateDelete, PersonPins, PersonEdits, PinRemoved
  <2> QED BY <2>1, QuietCleanupInv
<1> QED BY <1>1, ApplyCleanupInv, PassCleanupInv, ManualCleanupInv DEF Next

\* The claim, the fence and the one DELETE hold together in every reachable
\* state: the strengthening the safety theorems follow from.
THEOREM CleanupInvariant == Spec => []CleanupInv
<1>1. TypeOK /\ CleanupInv /\ [Next]_vars => CleanupInv'
  BY StepCleanupInv
<1> QED BY InitCleanupInv, TypeCorrect, <1>1, PTL DEF Spec

\* One obligation, at most one automatic DELETE.
THEOREM OneDelete == Spec => []AtMostOneDelete
<1>1. CleanupInv => AtMostOneDelete
  BY DEF CleanupInv
<1> QED BY CleanupInvariant, <1>1, PTL

\* Two processes never hold an ownership proof for the same row.
THEOREM ProofIsExclusive == Spec => []ExclusiveProof
<1>1. CleanupInv => ExclusiveProof
  BY DEF CleanupInv, ExclusiveProof, Proving, PassShape, UniqueHolder, Holder
<1> QED BY CleanupInvariant, <1>1, PTL

\* A row whose DELETE was sent never goes back to the queue.
THEOREM NeverReenters == Spec => []SentNeverReenters
<1>1. CleanupInv => SentNeverReenters
  BY DEF CleanupInv
<1> QED BY CleanupInvariant, <1>1, PTL

\* A claimed row has a token and no other row has one: resolve_unclaimed has
\* nothing to do.
THEOREM ClaimsHaveTokens == Spec => []ClaimsAreTokened
<1>1. CleanupInv => ClaimsAreTokened
  BY DEF CleanupInv
<1> QED BY CleanupInvariant, <1>1, PTL

-----------------------------------------------------------------------------
(* Every step is a move of the lifecycle. *)

LEMMA ApplyMoves ==
  ASSUME TypeOK, CleanupInv, NEW r \in Records, Apply(r) \/ ApplyCrash(r)
  PROVE  [Lifecycle!Next]_(Lifecycle!vars)
<1> USE DEF Lifecycle!vars, Lifecycle!Next, Lifecycle!Move, rowVars, ghostVars
<1>1. CASE RecordIntent(r)
  <2>1. Lifecycle!Intend(r)
    BY <1>1 DEF RecordIntent, CleanupInv, WriterShape, Lifecycle!Intend
  <2> QED BY <2>1
<1>2. CASE Confirm(r)
  <2>1. Lifecycle!Confirm(r)
    BY <1>2, ConfirmedStates DEF Confirm, CleanupInv, WriterShape, Lifecycle!Confirm
  <2> QED BY <2>1
<1>3. CASE \/ ApplyRefused(r) \/ RecordReasonSent(r) \/ SetOverrideStops(r)
           \/ Post(r) \/ VerifyWrite(r) \/ ApplyCrash(r)
  BY <1>3, Zenon DEF ApplyRefused, RecordReasonSent, SetOverrideStops, Post,
     VerifyWrite, ApplyCrash
<1> QED BY <1>1, <1>2, <1>3 DEF Apply

LEMMA PassMoves ==
  ASSUME TypeOK, CleanupInv, NEW w \in Workers, Pass(w) \/ PassCrash(w)
  PROVE  [Lifecycle!Next]_(Lifecycle!vars)
<1> USE DEF Lifecycle!vars, Lifecycle!Next, Lifecycle!Move, rowVars, ghostVars
<1>1. CASE Claim(w)
  <2>1. PICK e \in queue[w] :
          IF Claimable(e[1]) THEN state' = [state EXCEPT ![e[1]] = "CLAIMED"]
                             ELSE UNCHANGED state
    BY <1>1 DEF Claim
  <2>2. e[1] \in Records /\ UNCHANGED deletes
    BY <1>1 DEF Claim, TypeOK
  <2>3. CASE Claimable(e[1])
    <3>1. Lifecycle!Claim(e[1])
      BY <2>1, <2>2, <2>3 DEF Claimable, Lifecycle!Claim
    <3> QED BY <2>2, <3>1
  <2>4. CASE ~Claimable(e[1])
    BY <2>1, <2>2, <2>4
  <2> QED BY <2>3, <2>4
<1>2. CASE BeginDelete(w)
  <2>1. UNCHANGED deletes /\ rec[w] \in Records
    BY <1>2 DEF BeginDelete, TypeOK
  <2>2. CASE MayDelete(w)
    <3>1. Lifecycle!Cross(rec[w])
      BY <1>2, <2>1, <2>2 DEF BeginDelete, MayDelete, Lifecycle!Cross
    <3> QED BY <2>1, <3>1
  <2>3. CASE ~MayDelete(w)
    BY <1>2, <2>1, <2>3, Zenon DEF BeginDelete
  <2> QED BY <2>2, <2>3
<1>3. CASE SendDelete(w)
  <2>1. /\ rec[w] \in Records
        /\ deletes[rec[w]] = 0
        /\ state[rec[w]] \in {"DELETE_STARTED", "NEEDS_REVIEW", "MANUALLY_RESOLVED"}
    BY <1>3 DEF SendDelete, TypeOK, CleanupInv, FenceShape, PassShape, Holder
  <2>2. /\ deletes' = [deletes EXCEPT ![rec[w]] = 1]
        /\ UNCHANGED state
    BY <1>3, <2>1 DEF SendDelete, TypeOK
  <2>3. Lifecycle!Send(rec[w])
    BY <2>1, <2>2 DEF Lifecycle!Send
  <2> QED BY <2>1, <2>3
<1>4. CASE Resolve(w)
  <2>1. UNCHANGED deletes /\ rec[w] \in Records /\ pc[w] = "resolve"
    BY <1>4 DEF Resolve, TypeOK
  <2>2. CASE MayResolve(w)
    <3>1. state' = [state EXCEPT ![rec[w]] = verdict[w]]
      BY <1>4, <2>2, Zenon DEF Resolve
    <3>2. verdict[w] \in {"CLEANED_UP", "VANISHED", "NEEDS_REVIEW", "UNKNOWN_CLEANUP_STATE"}
      BY <2>1 DEF CleanupInv, PassShape, TerminalStates
    <3>3. state[rec[w]] \in {"CLAIMED", "DELETE_STARTED"}
      BY <2>1, <2>2 DEF MayResolve, CleanupInv, ClaimsAreTokened
    <3>4. Lifecycle!Settle(rec[w])
      BY <2>1, <3>1, <3>2, <3>3 DEF Lifecycle!Settle
    <3> QED BY <2>1, <3>4
  <2>3. CASE ~MayResolve(w)
    BY <1>4, <2>1, <2>3, Zenon DEF Resolve
  <2> QED BY <2>2, <2>3
<1>5. CASE Release(w)
  <2>1. /\ UNCHANGED deletes
        /\ rec[w] \in Records
        /\ deletes[rec[w]] = 0
        /\ mine[w] # NoToken
    BY <1>5 DEF Release, TypeOK, CleanupInv, FenceShape, PassShape, Holder
  <2>2. CASE token[rec[w]] = mine[w]
    <3>1. state[rec[w]] \in {"CLAIMED", "DELETE_STARTED"}
      BY <2>1, <2>2 DEF CleanupInv, ClaimsAreTokened
    <3>2. state' = [state EXCEPT ![rec[w]] = "ACTIVE"]
      BY <1>5, <2>2, Zenon DEF Release
    <3>3. Lifecycle!PutDown(rec[w])
      BY <2>1, <3>1, <3>2 DEF Lifecycle!PutDown
    <3> QED BY <2>1, <3>3
  <2>3. CASE token[rec[w]] # mine[w]
    BY <1>5, <2>1, <2>3, Zenon DEF Release
  <2> QED BY <2>2, <2>3
<1>6. CASE \/ StartPass(w) \/ Reconcile(w) \/ SelectDue(w) \/ EndPass(w)
           \/ ProcessNoBands(w) \/ ProcessUnread(w) \/ ProcessRead(w)
           \/ SwitchedOff(w) \/ GuardRaises(w) \/ BeforeUnread(w)
           \/ BeforeRead(w) \/ VerifyDelete(w) \/ RecordAudit(w) \/ PassCrash(w)
  BY <1>6, Zenon DEF StartPass, Reconcile, SelectDue, EndPass, ProcessNoBands,
     ProcessUnread, ProcessRead, SwitchedOff, GuardRaises, BeforeUnread,
     BeforeRead, VerifyDelete, RecordAudit, PassCrash
<1> QED BY <1>1, <1>2, <1>3, <1>4, <1>5, <1>6 DEF Pass

LEMMA StepMoves ==
  ASSUME TypeOK, CleanupInv, [Next]_vars
  PROVE  [Lifecycle!Next]_(Lifecycle!vars)
<1> USE DEF Lifecycle!vars
<1>1. ASSUME NEW o \in Operators, ManualResolve(o)
      PROVE  [Lifecycle!Next]_(Lifecycle!vars)
  <2>1. UNCHANGED deletes /\ orec[o] \in Records
    BY <1>1 DEF ManualResolve, TypeOK, ghostVars
  <2>2. CASE state[orec[o]] \in ManuallyResolvableStates
    <3>1. state' = [state EXCEPT ![orec[o]] = "MANUALLY_RESOLVED"]
      BY <1>1, <2>2, Zenon DEF ManualResolve
    <3>2. Lifecycle!Close(orec[o])
      BY <2>1, <2>2, <3>1
         DEF Lifecycle!Close, Lifecycle!Move, ManuallyResolvableStates
    <3> QED BY <2>1, <3>2 DEF Lifecycle!Next
  <2>3. CASE state[orec[o]] \notin ManuallyResolvableStates
    BY <1>1, <2>1, <2>3, Zenon DEF ManualResolve
  <2> QED BY <2>2, <2>3
<1>2. CASE \/ UNCHANGED vars
           \/ \E o \in Operators : ManualRead(o) \/ ManualAudit(o)
           \/ \E r \in Records : \/ Arrive(r) \/ Lapse(r)
                                 \/ LatePost(r) \/ LateDelete(r)
           \/ \E d \in Dates : PersonPins(d) \/ PersonEdits(d) \/ PinRemoved(d)
  BY <1>2, Zenon DEF vars, rowVars, ghostVars, ManualRead, ManualAudit, Arrive,
     Lapse, LatePost, LateDelete, PersonPins, PersonEdits, PinRemoved
<1> QED BY <1>1, <1>2, ApplyMoves, PassMoves DEF Next, Manual

\* The detailed system implements the lifecycle the documentation draws.
THEOREM LifecycleImplemented == Spec => ImplementsLifecycle
<1>1. Init => Lifecycle!Init
  BY DEF Init, Lifecycle!Init
<1>2. TypeOK /\ CleanupInv /\ [Next]_vars => [Lifecycle!Next]_(Lifecycle!vars)
  BY StepMoves
<1> QED
  BY TypeCorrect, CleanupInvariant, <1>1, <1>2, PTL
     DEF Spec, ImplementsLifecycle, Lifecycle!Spec

\* What a step may do to a settled row.
Final ==
  \A r \in Records :
    state[r] \in TerminalStates /\ state'[r] # state[r] =>
      state[r] \in ManuallyResolvableStates /\ state'[r] = "MANUALLY_RESOLVED"

LEMMA StepFinal ==
  ASSUME TypeOK, CleanupInv, [Next]_vars
  PROVE  Final
<1>1. [Lifecycle!Next]_(Lifecycle!vars)
  BY StepMoves
<1> QED
  BY <1>1 DEF Final, TypeOK, Lifecycle!Next, Lifecycle!vars, Lifecycle!Move,
     Lifecycle!Intend, Lifecycle!Confirm, Lifecycle!Claim, Lifecycle!Cross,
     Lifecycle!PutDown, Lifecycle!Send, Lifecycle!Settle, Lifecycle!Close,
     TerminalStates, ManuallyResolvableStates

\* A settled row is settled: only a person closes what automation gave up on.
THEOREM VerdictsAreFinal == Spec => VerdictIsFinal
<1>1. TypeOK /\ CleanupInv /\ [Next]_vars => [Final]_vars
  BY StepFinal
<1> QED
  BY TypeCorrect, CleanupInvariant, <1>1, PTL DEF Spec, VerdictIsFinal, Final

-----------------------------------------------------------------------------
(* The audit trail. *)

\* A pass that says its verdict was committed wrote it, in this step or
\* earlier.
LEMMA CommittedIsAnnounced ==
  ASSUME TypeOK, CleanupInv, AuditInv, [Next]_vars, NEW w \in Workers,
         pc'[w] = "committed"
  PROVE  /\ Announced(rec[w], verdict[w])'
         /\ verdict'[w] \in TerminalStates \ {"MANUALLY_RESOLVED"}
<1>1. Final /\ CleanupInv'
  BY StepFinal, StepCleanupInv
<1>2. verdict'[w] \in TerminalStates \ {"MANUALLY_RESOLVED"}
  BY <1>1 DEF CleanupInv, PassShape
<1>3. CASE pc[w] = "committed" /\ UNCHANGED <<rec[w], verdict[w]>>
  <2>1. Announced(rec[w], verdict[w])
    BY <1>3 DEF AuditInv
  <2>2. rec[w] \in Records /\ verdict[w] \in TerminalStates \ {"MANUALLY_RESOLVED"}
    BY <1>2, <1>3 DEF TypeOK
  <2>3. Announced(rec[w], verdict[w])' <=> state'[rec[w]] \in {verdict[w]} \cup
          (IF verdict[w] \in ManuallyResolvableStates THEN {"MANUALLY_RESOLVED"} ELSE {})
    BY <1>3 DEF Announced
  <2> QED BY <1>1, <1>2, <2>1, <2>2, <2>3
          DEF Announced, Final, TerminalStates, ManuallyResolvableStates
<1>4. CASE Resolve(w)
  <2>1. rec[w] \in Records
    BY DEF TypeOK
  <2>2. CASE MayResolve(w)
    <3>1. /\ state' = [state EXCEPT ![rec[w]] = verdict[w]]
          /\ UNCHANGED <<rec, verdict>>
      BY <1>4, <2>2, Zenon DEF Resolve
    <3> QED BY <1>2, <2>1, <3>1 DEF Announced, TypeOK
  <2>3. CASE ~MayResolve(w)
    <3>1. pc' = [pc EXCEPT ![w] = "stale"]
      BY <1>4, <2>3, Zenon DEF Resolve
    <3> QED BY <3>1 DEF TypeOK
  <2> QED BY <2>2, <2>3
<1>5. CASE ~Resolve(w)
  <2>1. CASE UNCHANGED <<pc, rec, verdict>>
    BY <1>3, <2>1
  <2>2. CASE \E v \in Workers : Pass(v) \/ PassCrash(v)
    <3>1. PICK v \in Workers : Pass(v) \/ PassCrash(v)
      BY <2>2
    <3>2. CASE v = w
      <4>1. pc'[w] # "committed"
        BY <1>5, <3>1, <3>2
           DEF Pass, StartPass, Reconcile, SelectDue, EndPass, Claim, ProcessNoBands,
               ProcessUnread, ProcessRead, SwitchedOff, BeginDelete, GuardRaises,
               BeforeUnread, BeforeRead, SendDelete, VerifyDelete, RecordAudit,
               Release, PassCrash, Decide, TypeOK
      <4> QED BY <4>1
    <3>3. CASE v # w
      <4>1. UNCHANGED <<pc[w], rec[w], verdict[w]>>
        BY <3>1, <3>3
           DEF Pass, StartPass, Reconcile, SelectDue, EndPass, Claim, ProcessNoBands,
               ProcessUnread, ProcessRead, SwitchedOff, BeginDelete, GuardRaises,
               BeforeUnread, BeforeRead, SendDelete, VerifyDelete, Resolve,
               RecordAudit, Release, PassCrash, Decide, PassForgets, TypeOK
      <4> QED BY <1>3, <4>1
    <3> QED BY <3>2, <3>3
  <2>3. CASE \/ UNCHANGED vars
             \/ \E r \in Records : \/ Apply(r) \/ ApplyCrash(r) \/ Arrive(r) \/ Lapse(r)
                                   \/ LatePost(r) \/ LateDelete(r)
             \/ \E d \in Dates : PersonPins(d) \/ PersonEdits(d) \/ PinRemoved(d)
             \/ \E o \in Operators : Manual(o)
    <3>1. UNCHANGED <<pc, rec, verdict>>
      BY <2>3, Zenon DEF vars, passVars, Apply, ApplyRefused, RecordIntent,
         RecordReasonSent, SetOverrideStops, Post, VerifyWrite, Confirm, ApplyCrash,
         Arrive, Lapse, LatePost, LateDelete, PersonPins, PersonEdits, PinRemoved,
         Manual, ManualRead, ManualResolve, ManualAudit
    <3> QED BY <2>1, <3>1
  <2> QED BY <2>2, <2>3 DEF Next
<1> QED BY <1>4, <1>5

\* An event that a step adds is announced by a pass that committed it, or is
\* not a PRICING_CLEANUP event.
LEMMA NewEvents ==
  ASSUME TypeOK, CleanupInv, [Next]_vars, NEW e \in audit' \ audit,
         e.event = "PRICING_CLEANUP"
  PROVE  \E w \in Workers : /\ pc[w] = "committed"
                            /\ e.rec = rec[w] /\ e.state = verdict[w]
<1>1. PICK w \in Workers : RecordAudit(w)
  <2>1. \/ \E w \in Workers : RecordAudit(w)
        \/ \E o \in Operators : ManualAudit(o)
        \/ audit' = audit
    BY ZenonT(60) DEF Next, vars, ghostVars, Apply, ApplyRefused, RecordIntent,
       RecordReasonSent, SetOverrideStops, Post, VerifyWrite, Confirm, ApplyCrash,
       Arrive, Lapse, LatePost, LateDelete, PersonPins, PersonEdits, PinRemoved,
       Manual, ManualRead, ManualResolve, Pass, StartPass, Reconcile, SelectDue,
       EndPass, Claim, ProcessNoBands, ProcessUnread, ProcessRead, SwitchedOff,
       BeginDelete, GuardRaises, BeforeUnread, BeforeRead, SendDelete, VerifyDelete,
       Resolve, Release, PassCrash
  <2>2. ASSUME NEW o \in Operators, ManualAudit(o) PROVE FALSE
    BY <2>2 DEF ManualAudit
  <2> QED BY <2>1, <2>2
<1>2. e = [event   |-> IF pc[w] = "committed" THEN "PRICING_CLEANUP"
                                              ELSE "PRICING_CLEANUP_STALE_OWNER",
           rec     |-> rec[w],
           state   |-> verdict[w],
           deleted |-> deleted[w]]
  BY <1>1 DEF RecordAudit
<1> QED BY <1>2

LEMMA StepAuditInv ==
  ASSUME TypeOK, CleanupInv, AuditInv, [Next]_vars
  PROVE  AuditInv'
<1>1. Final
  BY StepFinal
<1>2. \A w \in Workers : pc'[w] = "committed" => Announced(rec[w], verdict[w])'
  BY CommittedIsAnnounced
<1>3. ASSUME NEW e \in audit', e.event = "PRICING_CLEANUP"
      PROVE  /\ e.state \in TerminalStates \ {"MANUALLY_RESOLVED"}
             /\ state'[e.rec] \in {e.state} \cup
                  (IF e.state \in ManuallyResolvableStates
                     THEN {"MANUALLY_RESOLVED"} ELSE {})
  <2>1. /\ e.rec \in Records
        /\ e.state \in TerminalStates \ {"MANUALLY_RESOLVED"}
        /\ state[e.rec] \in {e.state} \cup
             (IF e.state \in ManuallyResolvableStates
                THEN {"MANUALLY_RESOLVED"} ELSE {})
    <3>1. CASE e \in audit
      BY <1>3, <3>1 DEF AuditInv, AuditTellsTheRow, TypeOK, AuditEvents
    <3>2. CASE e \notin audit
      <4>1. PICK w \in Workers : pc[w] = "committed" /\ e.rec = rec[w] /\ e.state = verdict[w]
        BY <1>3, <3>2, NewEvents
      <4> QED BY <4>1 DEF TypeOK, CleanupInv, PassShape, AuditInv, Announced
    <3> QED BY <3>1, <3>2
  <2> QED BY <1>1, <2>1 DEF Final, TerminalStates, ManuallyResolvableStates
<1> QED BY <1>2, <1>3 DEF AuditInv, AuditTellsTheRow

\* The audit trail never disagrees with the table.
THEOREM AuditIsTrue == Spec => []AuditTellsTheRow
<1>1. Init => AuditInv
  BY DEF Init, AuditInv, AuditTellsTheRow
<1>2. TypeOK /\ CleanupInv /\ AuditInv /\ [Next]_vars => AuditInv'
  BY StepAuditInv
<1>3. AuditInv => AuditTellsTheRow
  BY DEF AuditInv
<1> QED BY TypeCorrect, CleanupInvariant, <1>1, <1>2, <1>3, PTL DEF Spec

-----------------------------------------------------------------------------
(* Where a marker can be. *)

LEMMA InitPinInv == Init => PinInv
  BY DEF Init, PinInv, PinHome, PinOfRecord, PinOfWorker, MarkedAt, Marked, Pending, Holder

\* Steps that put no marker anywhere and send no POST.
LEMMA FewerPins ==
  ASSUME PinInv,
         \A r \in Records, d \in Dates : MarkedAt(r, d)' => MarkedAt(r, d),
         \A r \in Records : r \in Pending' => r \in Pending,
         UNCHANGED <<reasonSent, state, apc, aack, aresult, pc, loop, rec, verdict>>
  PROVE  PinInv'
<1>1. Marked' \subseteq Marked /\ Pending' \subseteq Pending
  BY DEF Marked, Pending
<1>2. PinHome'
  BY DEF PinInv, PinHome
<1>3. ASSUME NEW r \in Records PROVE PinOfRecord(r)'
  BY <1>1 DEF PinInv, PinOfRecord
<1>4. ASSUME NEW w \in Workers PROVE PinOfWorker(w)'
  BY <1>1 DEF PinInv, PinOfWorker, Holder
<1> QED BY <1>2, <1>3, <1>4 DEF PinInv

LEMMA ProviderPinInv ==
  ASSUME TypeOK, CleanupInv, PinInv,
         \/ \E r \in Records : LatePost(r) \/ LateDelete(r)
         \/ \E d \in Dates : PersonPins(d) \/ PersonEdits(d) \/ PinRemoved(d)
  PROVE  PinInv'
<1> USE DEF rowVars, applyVars, passVars
<1>1. ASSUME NEW r \in Records, LatePost(r) PROVE PinInv'
  <2>1. PICK o \in Stored(r) : override' = [override EXCEPT ![StayDate[r]] = o]
    BY <1>1 DEF LatePost, Posted
  <2>2. /\ r \in Pending
        /\ late' = late \ {<<"POST", r>>}
        /\ UNCHANGED <<reasonSent, state, apc, aack, aresult, pc, loop, rec, verdict>>
    BY <1>1 DEF LatePost, Pending
  <2>3. \A q \in Records, d \in Dates :
          MarkedAt(q, d)' => MarkedAt(q, d) \/ (q = r /\ d = StayDate[r])
    BY <2>1, StoredOverride, ConstantsAssumption DEF MarkedAt, TypeOK
  <2>4. \A q \in Records : q \in Pending' <=> q \in Pending /\ q # r
    BY <2>2 DEF Pending
  <2>5. \A q \in Records : q \in Marked' => q \in Marked \/ q = r
    BY <2>3 DEF Marked
  <2>6. Marked' \subseteq Marked \cup {r} /\ Pending' = Pending \ {r}
    BY <2>4, <2>5 DEF Marked, Pending
  <2>7. PinHome'
    BY <2>3 DEF PinInv, PinHome
  <2>8. ASSUME NEW q \in Records PROVE PinOfRecord(q)'
    BY <2>2, <2>6 DEF PinInv, PinOfRecord
  <2>9. ASSUME NEW w \in Workers PROVE PinOfWorker(w)'
    BY <2>2, <2>6 DEF PinInv, PinOfWorker, Holder
  <2> QED BY <2>7, <2>8, <2>9 DEF PinInv
<1>2. ASSUME NEW r \in Records, LateDelete(r) PROVE PinInv'
  BY <1>2, FewerPins DEF LateDelete, Removed, MarkedAt, Pending, TypeOK
<1>3. ASSUME NEW d \in Dates, PersonPins(d) PROVE PinInv'
  <2>1. \A r \in Records, e \in Dates : MarkedAt(r, e)' => MarkedAt(r, e)
    BY <1>3, ConstantsAssumption DEF PersonPins, MarkedAt, TypeOK
  <2> QED BY <1>3, <2>1, FewerPins DEF PersonPins, Pending
<1>4. ASSUME NEW d \in Dates, PersonEdits(d) PROVE PinInv'
  <2>1. \A r \in Records, e \in Dates : MarkedAt(r, e)' => MarkedAt(r, e)
    BY <1>4, ConstantsAssumption DEF PersonEdits, MarkedAt, TypeOK
  <2> QED BY <1>4, <2>1, FewerPins DEF PersonEdits, Pending
<1>5. ASSUME NEW d \in Dates, PinRemoved(d) PROVE PinInv'
  BY <1>5, FewerPins DEF PinRemoved, MarkedAt, Pending, TypeOK
<1> QED BY <1>1, <1>2, <1>3, <1>4, <1>5

LEMMA ApplyPinInv ==
  ASSUME TypeOK, CleanupInv, PinInv, NEW r \in Records, Apply(r) \/ ApplyCrash(r)
  PROVE  PinInv'
<1> USE DEF rowVars, labsVars, passVars
<1>w. \A w \in Workers : Holder(w) => rec[w] # r \/ apc[r] \in {"ended", "crashed"}
  BY DEF CleanupInv, WriterShape, HeldOrSettled, PassShape, ClaimsAreTokened,
     TerminalStates, TypeOK
<1>1. CASE Post(r)
  <2>1. /\ apc[r] = "guard"
        /\ apc' = [apc EXCEPT ![r] = "verify"]
        /\ state[r] = "PENDING_WRITE"
        /\ UNCHANGED <<reasonSent, state, aresult, pc, loop, rec, verdict>>
    BY <1>1 DEF Post, CleanupInv, WriterShape
  <2>2. reasonSent[r] /\ r \notin Marked /\ r \notin Pending
    BY <2>1 DEF PinInv, PinOfRecord
  <2>3. PICK acked \in BOOLEAN :
          /\ aack' = [aack EXCEPT ![r] = acked]
          /\ \/ Posted(r) /\ UNCHANGED late /\ acked
             \/ UNCHANGED <<override, late>>
             \/ late' = late \cup {<<"POST", r>>} /\ UNCHANGED override /\ acked
    BY <1>1, Zenon DEF Post
  <2>4. /\ \A q \in Records, d \in Dates :
             MarkedAt(q, d)' => MarkedAt(q, d) \/ (q = r /\ d = StayDate[r])
        /\ \/ Pending' = Pending /\ acked
           \/ Pending' = Pending /\ Marked' = Marked
           \/ Pending' = Pending \cup {r} /\ Marked' = Marked /\ acked
    <3>1. CASE Posted(r) /\ UNCHANGED late /\ acked
      BY <3>1, StoredOverride, ConstantsAssumption
         DEF Posted, MarkedAt, Pending, TypeOK
    <3>2. CASE UNCHANGED <<override, late>>
      BY <3>2 DEF MarkedAt, Pending, Marked
    <3>3. CASE late' = late \cup {<<"POST", r>>} /\ UNCHANGED override /\ acked
      BY <3>3 DEF MarkedAt, Pending, Marked
    <3> QED BY <2>3, <3>1, <3>2, <3>3
  <2>5. Marked' \subseteq Marked \cup {r}
    BY <2>4 DEF Marked
  <2>6. PinHome'
    BY <2>4 DEF PinInv, PinHome
  <2>7. PinOfRecord(r)'
    BY <2>1, <2>2, <2>3, <2>4 DEF PinInv, PinOfRecord, TypeOK
  <2>8. ASSUME NEW q \in Records, q # r PROVE PinOfRecord(q)'
    <3>1. /\ apc'[q] = apc[q]
          /\ aack'[q] = aack[q]
      BY <2>1, <2>3, <2>8 DEF TypeOK
    <3>2. (q \in Marked' => q \in Marked) /\ (q \in Pending' => q \in Pending)
      BY <2>4, <2>5, <2>8
    <3> QED BY <2>1, <3>1, <3>2 DEF PinInv, PinOfRecord
  <2>9. ASSUME NEW w \in Workers PROVE PinOfWorker(w)'
    <3>1. Holder(w)' <=> Holder(w)
      BY <2>1 DEF Holder
    <3>2. rec[w] = r => ~Holder(w)
      BY <1>w, <2>1
    <3>3. pc[w] = "resolve" /\ loop[w] = "due" => Holder(w)
      BY DEF Holder
    <3> QED BY <2>1, <2>4, <2>5, <3>1, <3>2, <3>3 DEF PinInv, PinOfWorker
  <2> QED BY <2>6, <2>7, <2>8, <2>9 DEF PinInv
<1>2. CASE ~Post(r)
  <2>1. UNCHANGED <<override, late, pc, loop, rec, verdict>>
    BY <1>2, Zenon DEF Apply, ApplyRefused, RecordIntent, RecordReasonSent,
       SetOverrideStops, VerifyWrite, Confirm, ApplyCrash
  <2>2. Marked' = Marked /\ Pending' = Pending
    BY <2>1 DEF Marked, MarkedAt, Pending
  <2>3. PinHome'
    BY <2>1 DEF PinInv, PinHome, MarkedAt
  <2>4. ASSUME NEW w \in Workers PROVE PinOfWorker(w)'
    BY <2>1, <2>2 DEF PinInv, PinOfWorker, Holder
  <2>5. ASSUME NEW q \in Records, q # r PROVE PinOfRecord(q)'
    <3>1. /\ apc'[q] = apc[q] /\ state'[q] = state[q]
          /\ aack'[q] = aack[q] /\ aresult'[q] = aresult[q]
          /\ reasonSent'[q] = reasonSent[q]
      BY <1>2, <2>5 DEF Apply, ApplyRefused, RecordIntent, RecordReasonSent,
         SetOverrideStops, VerifyWrite, Confirm, ApplyCrash, ApplyForgets, TypeOK
    <3> QED BY <2>2, <3>1 DEF PinInv, PinOfRecord
  <2>6. CASE ApplyRefused(r) \/ RecordIntent(r) \/ SetOverrideStops(r) \/ ApplyCrash(r)
    <3>1. /\ apc'[r] \in {"ended", "crashed", "reason"}
          /\ reasonSent'[r] = reasonSent[r]
          /\ \/ state'[r] = state[r]
             \/ apc[r] = "start" /\ state'[r] = "PENDING_WRITE"
          /\ apc'[r] = "reason" => apc[r] = "start"
      BY <2>6 DEF ApplyRefused, RecordIntent, SetOverrideStops, ApplyCrash, TypeOK
    <3>2. PinOfRecord(r)'
      BY <2>2, <3>1 DEF PinInv, PinOfRecord
    <3> QED BY <2>3, <2>4, <2>5, <3>2 DEF PinInv
  <2>7. CASE RecordReasonSent(r)
    <3>1. apc[r] = "reason" /\ apc'[r] = "guard" /\ state'[r] = state[r]
      BY <2>7 DEF RecordReasonSent, TypeOK
    <3>2. state[r] = "PENDING_WRITE"
      BY <3>1 DEF CleanupInv, WriterShape
    <3>3. reasonSent'[r]
      BY <2>7, <3>2 DEF RecordReasonSent, TypeOK
    <3>4. PinOfRecord(r)'
      BY <2>2, <3>1, <3>3 DEF PinInv, PinOfRecord
    <3> QED BY <2>3, <2>4, <2>5, <3>4 DEF PinInv
  <2>8. CASE VerifyWrite(r)
    <3>1. PICK result \in VerifySet(r) \cup {NoResult} :
            aresult' = [aresult EXCEPT ![r] = result]
      BY <2>8 DEF VerifyWrite
    <3>2. /\ apc[r] = "verify" /\ apc'[r] = "confirm"
          /\ UNCHANGED <<reasonSent, state>>
          /\ aresult'[r] = result
      BY <2>8, <3>1 DEF VerifyWrite, TypeOK
    <3>3. result.outcome = "CONFIRMED_FAILED" => r \notin Marked \cup Pending
      <4>1. result.outcome = "CONFIRMED_FAILED" => ~aack[r]
        BY <3>1 DEF VerifySet, NoResult, NotConfirmed
      <4> QED BY <3>2, <4>1 DEF PinInv, PinOfRecord
    <3>4. result.intact => r \notin Pending
      <4>1. result.intact => MarkedAt(r, StayDate[r])
        BY <3>1 DEF VerifySet, NoResult, MarkedAt
      <4>2. result.intact => r \in Marked
        BY <4>1, ConstantsAssumption DEF Marked
      <4> QED BY <4>2 DEF PinInv, PinOfRecord
    <3>5. PinOfRecord(r)'
      BY <2>2, <3>2, <3>3, <3>4 DEF PinInv, PinOfRecord
    <3> QED BY <2>3, <2>4, <2>5, <3>5 DEF PinInv
  <2>9. CASE Confirm(r)
    <3>1. /\ apc[r] = "confirm" /\ apc'[r] = "ended"
          /\ state'[r] = ConfirmedState(aresult[r])
          /\ UNCHANGED reasonSent
      BY <2>9 DEF Confirm, TypeOK
    <3>2. ConfirmedState(aresult[r]) = "VANISHED" => aresult[r].outcome = "CONFIRMED_FAILED"
      BY DEF ConfirmedState
    <3>3. ConfirmedState(aresult[r]) = "ACTIVE" => aresult[r].intact
      BY DEF ConfirmedState
    <3>4. PinOfRecord(r)
      BY DEF PinInv
    <3>5. r \in Pending => state'[r] = "NEEDS_REVIEW"
      BY <3>1, <3>2, <3>3, <3>4, ConfirmedStates DEF PinOfRecord
    <3>6. r \in Marked => state'[r] \in {"ACTIVE", "NEEDS_REVIEW"}
      BY <3>1, <3>2, <3>4, ConfirmedStates DEF PinOfRecord
    <3>7. PinOfRecord(r)'
      BY <2>2, <3>1, <3>4, <3>5, <3>6 DEF PinOfRecord
    <3> QED BY <2>3, <2>4, <2>5, <3>7 DEF PinInv
  <2> QED BY <1>2, <2>6, <2>7, <2>8, <2>9 DEF Apply
<1> QED BY <1>1, <1>2

LEMMA PassPinInv ==
  ASSUME TypeOK, CleanupInv, PinInv, NEW w \in Workers, Pass(w) \/ PassCrash(w)
  PROVE  PinInv'
<1> USE DEF rowVars, labsVars, applyVars, MarkedAt, Marked, Pending, Holder, TypeOK
<1>1. override[StayDate[rec[w]]] = NoOverride => rec[w] \notin Marked
  BY DEF PinInv, PinHome, PinOfRecord, PinOfWorker
<1>2. CASE Claim(w)
  <2>1. PICK e \in queue[w], t \in Tokens :
          IF Claimable(e[1])
            THEN /\ state' = [state EXCEPT ![e[1]] = "CLAIMED"]
                 /\ rec' = [rec EXCEPT ![w] = e[1]]
                 /\ pc' = [pc EXCEPT ![w] = "claimed"]
            ELSE UNCHANGED <<state, rec, pc>>
    BY <1>2 DEF Claim
  <2>2. /\ pc[w] = "loop" /\ loop[w] = "due" /\ e[1] \in Records
        /\ UNCHANGED <<override, late, reasonSent, apc, aack, aresult, loop, verdict>>
    BY <1>2 DEF Claim
  <2>3. CASE Claimable(e[1])
    <3>1. /\ state' = [state EXCEPT ![e[1]] = "CLAIMED"]
          /\ rec' = [rec EXCEPT ![w] = e[1]]
          /\ pc' = [pc EXCEPT ![w] = "claimed"]
      BY <2>1, <2>3, Zenon
    <3>2. state[e[1]] = "ACTIVE"
      BY <2>3 DEF Claimable
    <3>3. e[1] \notin Pending
      BY <2>2, <3>2 DEF PinInv, PinHome, PinOfRecord, PinOfWorker
    <3> QED BY <2>2, <3>1, <3>2, <3>3 DEF PinInv, PinHome, PinOfRecord, PinOfWorker
  <2>4. CASE ~Claimable(e[1])
    <3>1. UNCHANGED <<state, rec, pc>>
      BY <2>1, <2>4, Zenon
    <3> QED BY <2>2, <3>1 DEF PinInv, PinHome, PinOfRecord, PinOfWorker
  <2> QED BY <2>3, <2>4
<1>3. CASE BeginDelete(w)
  <2>1. CASE MayDelete(w)
    <3>1. /\ pc[w] = "proved" /\ loop[w] = "due"
          /\ state[rec[w]] = "CLAIMED"
          /\ state' = [state EXCEPT ![rec[w]] = "DELETE_STARTED"]
          /\ pc' = [pc EXCEPT ![w] = "fenced"]
          /\ UNCHANGED <<override, late, reasonSent, apc, aack, aresult, loop, rec, verdict>>
      BY <1>3, <2>1 DEF BeginDelete, MayDelete, CleanupInv, PassShape
    <3> QED BY <3>1 DEF PinInv, PinHome, PinOfRecord, PinOfWorker
  <2>2. CASE ~MayDelete(w)
    <3>1. /\ verdict' = [verdict EXCEPT ![w] = "DELETE_STARTED"]
          /\ pc' = [pc EXCEPT ![w] = "stale"]
          /\ UNCHANGED <<override, late, reasonSent, state, apc, aack, aresult, loop, rec>>
      BY <1>3, <2>2, Zenon DEF BeginDelete
    <3> QED BY <3>1 DEF PinInv, PinHome, PinOfRecord, PinOfWorker
  <2> QED BY <2>1, <2>2
<1>4. CASE ProcessRead(w) \/ VerifyDelete(w)
  <2>1. /\ pc[w] \in {"claimed", "verify"} /\ loop[w] = "due"
        /\ UNCHANGED <<override, late, reasonSent, state, apc, aack, aresult, loop, rec>>
    BY <1>4 DEF ProcessRead, VerifyDelete, CleanupInv, PassShape
  <2>2. \/ /\ pc' = [pc EXCEPT ![w] = "proved"]
           /\ UNCHANGED verdict
        \/ \E v \in CleanupState :
             /\ pc' = [pc EXCEPT ![w] = "resolve"]
             /\ verdict' = [verdict EXCEPT ![w] = v]
             /\ v \in {"CLEANED_UP", "VANISHED"} => override[StayDate[rec[w]]] = NoOverride
    BY <1>4 DEF ProcessRead, VerifyDelete, Decide, RemovalState, NotConfirmed, CleanupState
  <2> QED BY <1>1, <2>1, <2>2 DEF PinInv, PinHome, PinOfRecord, PinOfWorker
<1>5. CASE SendDelete(w)
  <2>1. /\ pc[w] = "send" /\ loop[w] = "due"
        /\ pc' = [pc EXCEPT ![w] = "verify"]
        /\ UNCHANGED <<reasonSent, state, apc, aack, aresult, loop, rec, verdict>>
    BY <1>5 DEF SendDelete, CleanupInv, PassShape
  <2>2. \A r \in Records, d \in Dates : MarkedAt(r, d)' => MarkedAt(r, d)
    BY <1>5 DEF SendDelete, Removed
  <2>3. \A r \in Records : r \in Pending' => r \in Pending
    BY <1>5 DEF SendDelete
  <2> QED BY <2>1, <2>2, <2>3 DEF PinInv, PinHome, PinOfRecord, PinOfWorker
<1>6. CASE Resolve(w)
  <2>1. CASE MayResolve(w)
    <3>1. /\ pc[w] = "resolve"
          /\ state' = [state EXCEPT ![rec[w]] = verdict[w]]
          /\ pc' = [pc EXCEPT ![w] = "committed"]
          /\ UNCHANGED <<override, late, reasonSent, apc, aack, aresult, loop, rec, verdict>>
      BY <1>6, <2>1, Zenon DEF Resolve
    <3>2. /\ state[rec[w]] \in {"CLAIMED", "DELETE_STARTED"}
          /\ verdict[w] \in TerminalStates
      BY <2>1, <3>1 DEF MayResolve, CleanupInv, ClaimsAreTokened, PassShape
    <3>3. rec[w] \notin Pending
      BY <3>2 DEF PinInv, PinHome, PinOfRecord, PinOfWorker
    <3>4. verdict[w] \in {"CLEANED_UP", "VANISHED"} => rec[w] \notin Marked
      BY <3>1 DEF PinInv, PinHome, PinOfRecord, PinOfWorker
    <3> QED BY <3>1, <3>2, <3>3, <3>4 DEF PinInv, PinHome, PinOfRecord, PinOfWorker, TerminalStates
  <2>2. CASE ~MayResolve(w)
    <3>1. /\ pc' = [pc EXCEPT ![w] = "stale"]
          /\ UNCHANGED <<override, late, reasonSent, state, apc, aack, aresult, loop, rec, verdict>>
      BY <1>6, <2>2, Zenon DEF Resolve
    <3> QED BY <3>1 DEF PinInv, PinHome, PinOfRecord, PinOfWorker
  <2> QED BY <2>1, <2>2
<1>7. CASE Release(w)
  <2>1. /\ pc[w] = "release" /\ mine[w] # NoToken
        /\ pc' = [pc EXCEPT ![w] = "loop"]
        /\ rec' = [rec EXCEPT ![w] = SomeRecord]
        /\ verdict' = [verdict EXCEPT ![w] = "NEEDS_REVIEW"]
        /\ UNCHANGED <<override, late, reasonSent, apc, aack, aresult, loop>>
    BY <1>7 DEF Release, PassForgets, CleanupInv, PassShape
  <2>2. CASE token[rec[w]] = mine[w]
    <3>1. state' = [state EXCEPT ![rec[w]] = "ACTIVE"]
      BY <1>7, <2>2, Zenon DEF Release
    <3>2. state[rec[w]] \in {"CLAIMED", "DELETE_STARTED"}
      BY <2>1, <2>2 DEF CleanupInv, ClaimsAreTokened
    <3> QED BY <2>1, <3>1, <3>2 DEF PinInv, PinHome, PinOfRecord, PinOfWorker
  <2>3. CASE token[rec[w]] # mine[w]
    <3>1. UNCHANGED state
      BY <1>7, <2>3, Zenon DEF Release
    <3> QED BY <2>1, <3>1 DEF PinInv, PinHome, PinOfRecord, PinOfWorker
  <2> QED BY <2>2, <2>3
<1>8. CASE StartPass(w) \/ Reconcile(w) \/ SelectDue(w) \/ EndPass(w)
  BY <1>8, SMTT(30) DEF StartPass, Reconcile, SelectDue, EndPass, PinInv, PinHome,
     PinOfRecord, PinOfWorker, CleanupInv, PassShape
<1>9. CASE ProcessNoBands(w) \/ ProcessUnread(w) \/ SwitchedOff(w) \/ GuardRaises(w)
  BY <1>9, SMTT(30) DEF ProcessNoBands, ProcessUnread, SwitchedOff, GuardRaises,
     Decide, PinInv, PinHome, PinOfRecord, PinOfWorker, CleanupInv, PassShape
<1>10. CASE BeforeUnread(w) \/ BeforeRead(w)
  BY <1>10, SMTT(30) DEF BeforeUnread, BeforeRead, Decide, PinInv, PinHome,
     PinOfRecord, PinOfWorker, CleanupInv, PassShape
<1>11. CASE RecordAudit(w) \/ PassCrash(w)
  BY <1>11, SMTT(30) DEF RecordAudit, PassCrash, PassForgets, PinInv, PinHome,
     PinOfRecord, PinOfWorker, CleanupInv, PassShape
<1> QED
  BY <1>2, <1>3, <1>4, <1>5, <1>6, <1>7, <1>8, <1>9, <1>10, <1>11 DEF Pass

LEMMA StepPinInv ==
  ASSUME TypeOK, CleanupInv, PinInv, [Next]_vars
  PROVE  PinInv'
<1>1. CASE \/ UNCHANGED vars
           \/ \E o \in Operators : ManualRead(o) \/ ManualAudit(o)
           \/ \E r \in Records : Arrive(r) \/ Lapse(r)
  <2>1. UNCHANGED <<override, late, reasonSent, state, apc, aack, aresult, pc, loop,
                    rec, verdict>>
    BY <1>1, Zenon DEF vars, rowVars, labsVars, applyVars, passVars, ManualRead,
       ManualAudit, Arrive, Lapse
  <2> QED BY <2>1, FewerPins DEF MarkedAt, Pending
<1>2. ASSUME NEW o \in Operators, ManualResolve(o) PROVE PinInv'
  <2>1. /\ UNCHANGED <<override, late, reasonSent, apc, aack, aresult, pc, loop, rec, verdict>>
        /\ orec[o] \in Records
        /\ \/ /\ state[orec[o]] \in ManuallyResolvableStates
              /\ state' = [state EXCEPT ![orec[o]] = "MANUALLY_RESOLVED"]
           \/ UNCHANGED state
    BY <1>2 DEF ManualResolve, TypeOK, labsVars, applyVars, passVars
  <2>2. /\ Marked' = Marked /\ Pending' = Pending
        /\ \A r \in Records, d \in Dates : MarkedAt(r, d)' <=> MarkedAt(r, d)
    BY <2>1 DEF Marked, MarkedAt, Pending
  <2>3. \A r \in Records :
          \/ state'[r] = state[r]
          \/ state'[r] = "MANUALLY_RESOLVED" /\ state[r] \in ManuallyResolvableStates
    BY <2>1 DEF TypeOK
  <2>4. PinHome'
    BY <2>2 DEF PinInv, PinHome
  <2>5. ASSUME NEW r \in Records PROVE PinOfRecord(r)'
    BY <2>1, <2>2, <2>3 DEF PinInv, PinOfRecord, ManuallyResolvableStates
  <2>6. ASSUME NEW w \in Workers PROVE PinOfWorker(w)'
    BY <2>1, <2>2 DEF PinInv, PinOfWorker, Holder
  <2> QED BY <2>4, <2>5, <2>6 DEF PinInv
<1> QED
  BY <1>1, <1>2, ProviderPinInv, ApplyPinInv, PassPinInv DEF Next, Manual

\* No stranded pin, whatever is lost, late, edited or crashed.
THEOREM PinsAreOwed == Spec => []NoStrandedPin
<1>1. TypeOK /\ CleanupInv /\ PinInv /\ [Next]_vars => PinInv'
  BY StepPinInv
<1>2. TypeOK /\ PinInv => NoStrandedPin
  BY DEF TypeOK, PinInv, PinOfRecord, NoStrandedPin, Marked, MarkedAt, Pending, CleanupState,
     OpenStates
<1> QED BY InitPinInv, TypeCorrect, CleanupInvariant, <1>1, <1>2, PTL DEF Spec

-----------------------------------------------------------------------------
(* What was sent is confessed. *)

\* A worker that sent a DELETE for the record and has yet to write its event.
Confessing(w, r) ==
  /\ rec[w] = r
  /\ \/ pc[w] = "verify"
     \/ pc[w] \in {"resolve", "committed", "stale"} /\ deleted[w]

Confessed(r) == \E e \in audit : e.rec = r /\ e.deleted

\* No event is lost on its way unless a process dies.
ConfessInv ==
  \A r \in Records :
    deletes[r] > 0 /\ crashes = 0 => Confessed(r) \/ \E w \in Workers : Confessing(w, r)

\* Whoever was to confess still is, or has.
StillConfessed ==
  \A r \in Records :
    /\ Confessed(r) => Confessed(r)'
    /\ \A w \in Workers : Confessing(w, r) =>
         crashes' # 0 \/ Confessed(r)' \/ Confessing(w, r)'

LEMMA PassConfesses ==
  ASSUME TypeOK, NEW w \in Workers, Pass(w)
  PROVE  StillConfessed
<1> USE DEF Confessing, Confessed, StillConfessed
<1>1. CASE RecordAudit(w)
  <2> DEFINE e == [event   |-> IF pc[w] = "committed" THEN "PRICING_CLEANUP"
                                                   ELSE "PRICING_CLEANUP_STALE_OWNER",
                   rec     |-> rec[w],
                   state   |-> verdict[w],
                   deleted |-> deleted[w]]
  <2>1. /\ e \in audit'
        /\ audit \subseteq audit'
        /\ e.rec = rec[w]
        /\ e.deleted = deleted[w]
    BY <1>1 DEF RecordAudit
  <2>2. \A v \in Workers : v # w =>
          pc'[v] = pc[v] /\ rec'[v] = rec[v] /\ deleted'[v] = deleted[v]
    BY <1>1 DEF RecordAudit, PassForgets, TypeOK
  <2>3. pc[w] \in {"committed", "stale"}
    BY <1>1 DEF RecordAudit
  <2> HIDE DEF e
  <2> QED BY <2>1, <2>2, <2>3
<1>2. CASE \/ BeginDelete(w) \/ BeforeUnread(w) \/ BeforeRead(w) \/ SendDelete(w)
           \/ VerifyDelete(w) \/ Resolve(w) \/ GuardRaises(w) \/ SwitchedOff(w)
  <2>1. UNCHANGED <<audit, rec>>
    BY <1>2, Zenon DEF BeginDelete, BeforeUnread, BeforeRead, SendDelete, VerifyDelete,
       Resolve, GuardRaises, SwitchedOff, ghostVars
  <2>2. \A v \in Workers : v # w => pc'[v] = pc[v] /\ deleted'[v] = deleted[v]
    BY <1>2 DEF BeginDelete, BeforeUnread, BeforeRead, SendDelete, VerifyDelete, Resolve,
       GuardRaises, SwitchedOff, Decide, TypeOK
  <2>3. CASE VerifyDelete(w)
    <3>1. pc'[w] = "resolve" /\ deleted'[w] = TRUE
      BY <2>3 DEF VerifyDelete, Decide, TypeOK
    <3> QED BY <2>1, <2>2, <3>1
  <2>4. CASE Resolve(w)
    <3>1. /\ pc'[w] \in {"committed", "stale"}
          /\ deleted'[w] = deleted[w]
          /\ pc[w] = "resolve"
      BY <2>4 DEF Resolve, TypeOK
    <3> QED BY <2>1, <2>2, <3>1
  <2>5. CASE \/ BeginDelete(w) \/ BeforeUnread(w) \/ BeforeRead(w) \/ SendDelete(w)
             \/ GuardRaises(w) \/ SwitchedOff(w)
    <3>1. pc[w] \in {"proved", "fenced", "send"}
      BY <2>5 DEF BeginDelete, BeforeUnread, BeforeRead, SendDelete, GuardRaises, SwitchedOff
    <3> QED BY <2>1, <2>2, <3>1
  <2> QED BY <1>2, <2>3, <2>4, <2>5
<1>3. CASE \/ StartPass(w) \/ Reconcile(w) \/ SelectDue(w) \/ EndPass(w) \/ Claim(w)
           \/ ProcessNoBands(w) \/ ProcessUnread(w) \/ ProcessRead(w) \/ Release(w)
  <2>1. UNCHANGED audit
    BY <1>3, Zenon DEF StartPass, Reconcile, SelectDue, EndPass, Claim, ProcessNoBands,
       ProcessUnread, ProcessRead, Release, ghostVars
  <2>2. pc[w] \in {"idle", "loop", "claimed", "release"}
    BY <1>3 DEF StartPass, Reconcile, SelectDue, EndPass, Claim, ProcessNoBands,
       ProcessUnread, ProcessRead, Release
  <2>3. \A v \in Workers : v # w =>
          pc'[v] = pc[v] /\ rec'[v] = rec[v] /\ deleted'[v] = deleted[v]
    BY <1>3 DEF StartPass, Reconcile, SelectDue, EndPass, Claim, ProcessNoBands,
       ProcessUnread, ProcessRead, Release, PassForgets, Decide, TypeOK, passVars
  <2> QED BY <2>1, <2>2, <2>3
<1> QED BY <1>1, <1>2, <1>3 DEF Pass

\* The DELETEs a step sends, and whether it is a death.
LEMMA DeletesSent ==
  ASSUME TypeOK, [Next]_vars
  PROVE  /\ crashes' = 0 => crashes = 0
         /\ \A r \in Records : deletes'[r] = deletes[r]
              \/ \E w \in Workers : rec'[w] = r /\ pc'[w] = "verify"
<1>1. CASE UNCHANGED vars
  BY <1>1 DEF vars, ghostVars, boundVars
<1>2. CASE \E r \in Records : Apply(r) \/ ApplyCrash(r) \/ Arrive(r) \/ Lapse(r)
                              \/ LatePost(r) \/ LateDelete(r)
  BY <1>2 DEF TypeOK, Apply, ApplyRefused, RecordIntent, RecordReasonSent, SetOverrideStops,
     Post, VerifyWrite, Confirm, ApplyCrash, Arrive, Lapse, LatePost, LateDelete,
     ghostVars, boundVars
<1>3. CASE \E d \in Dates : PersonPins(d) \/ PersonEdits(d) \/ PinRemoved(d)
  BY <1>3 DEF PersonPins, PersonEdits, PinRemoved, ghostVars, boundVars
<1>4. CASE \E o \in Operators : Manual(o)
  BY <1>4 DEF Manual, ManualRead, ManualResolve, ManualAudit, ghostVars, boundVars
<1>5. ASSUME NEW w \in Workers, SendDelete(w)
      PROVE  /\ crashes' = 0 => crashes = 0
             /\ \A r \in Records : deletes'[r] = deletes[r]
                  \/ \E v \in Workers : rec'[v] = r /\ pc'[v] = "verify"
  <2>1. /\ deletes' = [deletes EXCEPT ![rec[w]] = @ + 1]
        /\ pc'[w] = "verify"
        /\ UNCHANGED <<rec, crashes>>
    BY <1>5 DEF SendDelete, boundVars, TypeOK
  <2> QED BY <2>1 DEF TypeOK
<1>6. ASSUME NEW w \in Workers, Pass(w), ~SendDelete(w)
      PROVE  UNCHANGED <<deletes, crashes>>
  <2>1. CASE RecordAudit(w)
    BY <2>1, Zenon DEF RecordAudit, boundVars
  <2>2. CASE ~RecordAudit(w)
    BY <1>6, <2>2, Zenon DEF Pass, StartPass, Reconcile, SelectDue, EndPass, Claim,
       ProcessNoBands, ProcessUnread, ProcessRead, SwitchedOff, BeginDelete, GuardRaises,
       BeforeUnread, BeforeRead, VerifyDelete, Resolve, Release, ghostVars, boundVars
  <2> QED BY <2>1, <2>2
<1>7. CASE \E w \in Workers : PassCrash(w)
  BY <1>7 DEF PassCrash, TypeOK, ghostVars
<1> QED BY <1>1, <1>2, <1>3, <1>4, <1>5, <1>6, <1>7 DEF Next

LEMMA StepConfesses ==
  ASSUME TypeOK, [Next]_vars, crashes' = 0
  PROVE  StillConfessed
<1>1. CASE UNCHANGED <<audit, pc, rec, deleted>>
  BY <1>1 DEF StillConfessed, Confessing, Confessed
<1>2. CASE \E o \in Operators : ManualAudit(o)
  <2>1. audit \subseteq audit' /\ UNCHANGED <<pc, rec, deleted>>
    BY <1>2 DEF ManualAudit, passVars
  <2> QED BY <2>1 DEF StillConfessed, Confessing, Confessed
<1>3. CASE \E w \in Workers : Pass(w)
  BY <1>3, PassConfesses
<1>4. CASE \E w \in Workers : PassCrash(w)
  BY <1>4 DEF PassCrash, TypeOK
<1>5. CASE \/ UNCHANGED vars
           \/ \E r \in Records : Apply(r) \/ ApplyCrash(r) \/ Arrive(r) \/ Lapse(r)
                                 \/ LatePost(r) \/ LateDelete(r)
           \/ \E d \in Dates : PersonPins(d) \/ PersonEdits(d) \/ PinRemoved(d)
           \/ \E o \in Operators : ManualRead(o) \/ ManualResolve(o)
  <2>1. UNCHANGED <<audit, pc, rec, deleted>>
    BY <1>5 DEF Apply, ApplyRefused, RecordIntent, RecordReasonSent, SetOverrideStops,
       Post, VerifyWrite, Confirm, ApplyCrash, Arrive, Lapse, LatePost, LateDelete,
       PersonPins, PersonEdits, PinRemoved, ManualRead, ManualResolve,
       vars, ghostVars, passVars
  <2> QED BY <1>1, <2>1
<1> QED BY <1>1, <1>2, <1>3, <1>4, <1>5 DEF Next, Manual

LEMMA StepConfessInv ==
  ASSUME TypeOK, ConfessInv, [Next]_vars
  PROVE  ConfessInv'
<1> SUFFICES ASSUME NEW r \in Records, deletes'[r] > 0, crashes' = 0
             PROVE  Confessed(r)' \/ \E w \in Workers : Confessing(w, r)'
  BY DEF ConfessInv
<1>1. crashes = 0
  BY DeletesSent
<1>2. CASE \E w \in Workers : rec'[w] = r /\ pc'[w] = "verify"
  BY <1>2 DEF Confessing
<1>3. CASE deletes'[r] = deletes[r]
  <2>1. Confessed(r) \/ \E w \in Workers : Confessing(w, r)
    BY <1>1, <1>3 DEF ConfessInv
  <2> QED BY <2>1, StepConfesses DEF StillConfessed
<1> QED BY <1>2, <1>3, DeletesSent

\* Every DELETE that automation sent has its audit event, once no pass is at
\* work on the row, unless a process died.
THEOREM DeletesAreConfessed == Spec => []DeleteIsAudited
<1>1. Init => ConfessInv
  BY DEF Init, ConfessInv
<1>2. TypeOK /\ ConfessInv /\ [Next]_vars => ConfessInv'
  BY StepConfessInv
<1>3. ConfessInv => DeleteIsAudited
  BY DEF ConfessInv, Confessing, Confessed, DeleteIsAudited
<1> QED BY TypeCorrect, <1>1, <1>2, <1>3, PTL DEF Spec

=============================================================================
