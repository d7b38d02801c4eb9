----------------------------- MODULE StayPolicies -----------------------------
(***************************************************************************)
(* What a guest conversation still asks for, and who may answer it: the    *)
(* analysis of a thread (hospitality), the four stay policies (late        *)
(* checkout, early check-in, stay extension, cancellation), the guidance   *)
(* the drafting model is given and the outcome one refresh records         *)
(* (conversation_refresh).                                                 *)
(*                                                                         *)
(* The wording of a message is its marks: the signals, categories and      *)
(* requests whose marker lists match it. Its sentences keep what the       *)
(* checkout policy reads in them: whether they speak of leaving or of      *)
(* arriving, and the clock readings they name.                             *)
(***************************************************************************)
EXTENDS Integers, Sequences, FiniteSets, FiniteSetsExt

ActionableMarks == {"question_mark", "question", "request", "problem", "plan_change"}

ClosingMarks == {"closing_phrase", "self_resolution"}

BusinessMarks ==
  {"availability", "reservation_change", "early_check_in", "late_checkout", "parking",
   "amenity_present", "refunds", "cancellations", "discounts", "pricing", "payments",
   "access_credentials", "additional_guests", "pets", "damage_maintenance_safety",
   "cleaning", "noise", "lost_and_found", "smoking", "parties_events",
   "luggage_storage", "deliveries", "accessibility", "compensation", "internet",
   "utilities", "security", "keys_lockouts"}

\* What the policies look for: LATE_CHECKOUT_MARKERS, EARLY_CHECK_IN_MARKERS,
\* EXTENSION_MARKERS, UNSPECIFIED_MECHANICS, ACCEPTANCE_MARKERS, the retention
\* offer's "30%", any other percentage, and an owner's promise.
PolicyMarks ==
  {"asks_late", "asks_early", "asks_extension", "mechanics", "accepts", "offer_30",
   "other_discount", "commitment"}

-----------------------------------------------------------------------------
(* Clock readings.                                                          *)

\* Mutant: noon read as midnight's other end.
ToMinutesTwelve(reading) ==
  IF reading.meridiem = "p" THEN (reading.hour + 12) * 60 + reading.minute
  ELSE IF reading.hour \in 1 .. 9 THEN (reading.hour + 12) * 60 + reading.minute
  ELSE reading.hour * 60 + reading.minute

\* to_minutes; -1 is no time. "oclock" falls through to the bare hours.
ToMinutes(reading) ==
  LET h == reading.hour
      m == reading.minute
      afternoon == (h % 12) + 12
  IN  IF m \notin 0 .. 59 THEN -1
      ELSE IF reading.meridiem # "none" /\ h \notin 1 .. 12 THEN -1
      ELSE IF reading.meridiem = "p" THEN afternoon * 60 + m
      ELSE IF reading.meridiem = "a" THEN (h % 12) * 60 + m
      ELSE IF h \in 10 .. 23 THEN h * 60 + m
      ELSE IF h \in 1 .. 9 THEN (h + 12) * 60 + m
      ELSE -1

Noon == 12 * 60
CeilingMinutes == 11 * 60
StandardCheckout == 10 * 60

\* checkout_sentences and latest_checkout_time; -1 where no time is named.
LatestCheckoutTime(message) ==
  LET leaving == {s \in message.sentences : s.leaving /\ ~s.arriving}
      times   == UNION {{ToMinutes(r) : r \in s.readings} : s \in leaving}
      noon    == IF \E s \in leaving : s.noon THEN {Noon} ELSE {}
  IN  Max(times \cup noon \cup {-1})

IsLateCheckoutRequest(message) ==
  "asks_late" \in message.marks \/ LatestCheckoutTime(message) > StandardCheckout

ExceedsCeiling(message) == LatestCheckoutTime(message) > CeilingMinutes

-----------------------------------------------------------------------------
(* The analysis of a thread.                                                *)

ActionableSignals(message) == message.marks \cap ActionableMarks

IsClosingMessage(message) ==
  ActionableSignals(message) = {} /\ message.marks \cap ClosingMarks # {}

LastOwner(thread) == Max({i \in DOMAIN thread : thread[i].from = "Owner"} \cup {0})

Unanswered(thread) ==
  {thread[i] : i \in {j \in DOMAIN thread : j > LastOwner(thread) /\ thread[j].from = "Renter"}}

\* Mutant: the last of several open messages decides for all of them.
SuggestedOutcomeLast(thread) ==
  IF Unanswered(thread) = {} THEN "already_replied"
  ELSE IF IsClosingMessage(thread[Len(thread)]) THEN "no_reply_needed" ELSE "reply_needed"

SuggestedOutcome(thread) ==
  IF Unanswered(thread) = {} THEN "already_replied"
  ELSE IF \A m \in Unanswered(thread) : IsClosingMessage(m) THEN "no_reply_needed"
  ELSE "reply_needed"

\* analyse_conversation.
Analysis(thread) ==
  LET open == Unanswered(thread)
  IN  [outcome    |-> SuggestedOutcome(thread),
       signals    |-> UNION {ActionableSignals(m) : m \in open},
       categories |-> UNION {m.marks \cap BusinessMarks : m \in open},
       late       |-> \E m \in open : IsLateCheckoutRequest(m),
       beyond     |-> \E m \in open : ExceedsCeiling(m),
       early      |-> \E m \in open : "asks_early" \in m.marks,
       extension  |-> \E m \in open : "asks_extension" \in m.marks]

-----------------------------------------------------------------------------
(* The arrival day's schedule.                                              *)

\* Mutant: a cancelled stay keeps the property occupied.
DeparturesAnyStatus(bookings, property, date) ==
  {b \in bookings : b.property = property /\ b.departure = date}

\* departures_on: the confirmed stays that end there on that day.
DeparturesOn(bookings, property, date) ==
  {b \in bookings : /\ b.property = property /\ b.departure = date
                    /\ b.status = "Booked"}

\* turnover_for, and _same_day_checkout over it: "unknown" where the arrival
\* cannot be read or the provider cannot be reached.
SameDayCheckout(bookings, stay, reachable) ==
  IF stay.arrival < 0 \/ ~reachable THEN "unknown"
  ELSE IF \E other \in DeparturesOn(bookings, stay.property, stay.arrival) : other.id # stay.id
    THEN "yes" ELSE "no"

\* early_check_in.outcome_for: the verdict, and whether the owner signs it off.
EarlyVerdict(checkout) ==
  CASE checkout = "yes" -> "declined" [] checkout = "no" -> "possible" [] OTHER -> "unknown"

EarlyNeedsOwner(checkout) == checkout # "yes"

-----------------------------------------------------------------------------
(* The retention offer.                                                     *)

\* is_cancelled, of the status and of a cancellation date.
IsCancelled(status, canceledAt) ==
  IF canceledAt THEN "yes"
  ELSE IF status = "missing" THEN "unknown"
  ELSE IF status \in {"cancelled", "canceled"} THEN "yes" ELSE "no"

OfferAlreadyMade(thread) ==
  \E i \in DOMAIN thread : thread[i].from = "Owner" /\ "offer_30" \in thread[i].marks

GuestMarks(thread) ==
  UNION {thread[i].marks : i \in {j \in DOMAIN thread : thread[j].from = "Renter"}}

\* Mutant: the offer is repeated as long as the stay is cancelled.
CancellationOutcomeAgain(cancelled, thread) ==
  [offer |-> cancelled = "yes", escalates |-> "mechanics" \in GuestMarks(thread),
   why |-> "trigger"]

\* cancellation.outcome_for; it reads every guest message, answered or not.
CancellationOutcome(cancelled, thread) ==
  CASE "mechanics" \in GuestMarks(thread) ->
         [offer |-> FALSE, escalates |-> TRUE, why |-> "mechanics"]
    [] "mechanics" \notin GuestMarks(thread) /\ cancelled # "yes" ->
         [offer |-> FALSE, escalates |-> FALSE, why |-> "none"]
    [] OTHER ->
         IF "accepts" \in GuestMarks(thread)
           THEN [offer |-> FALSE, escalates |-> TRUE, why |-> "acceptance"]
         ELSE IF OfferAlreadyMade(thread)
           THEN [offer |-> FALSE, escalates |-> FALSE, why |-> "none"]
         ELSE [offer |-> TRUE, escalates |-> FALSE, why |-> "trigger"]

\* draft_violates_policy.
DraftViolatesPolicy(text) == text.marks \cap {"other_discount", "mechanics"} # {}

-----------------------------------------------------------------------------
(* The guidance a drafting model is given.                                  *)

\* conversation_exceptions: approved topics an owner's promise speaks of.
ConversationExceptions(thread, approved) ==
  {topic \in approved :
     \E i \in DOMAIN thread : /\ thread[i].from = "Owner"
                              /\ "commitment" \in thread[i].marks
                              /\ topic \in thread[i].marks}

\* The last of the reasons that apply is the one that stands.
LastReason(reasons) ==
  LET given == {i \in DOMAIN reasons : reasons[i] # "none"}
  IN  IF given = {} THEN "none" ELSE reasons[Max(given)]

\* get_guest_conversation hands reply_guidance the turnover record, and its
\* early-check-in rule compares what it is given with True and with False.
GuidanceCheckout(turnover) == "unknown"

\* reply_guidance.
ReplyGuidance(thread, approved, turnover, cancelled) ==
  LET state   == Analysis(thread)
      outcome == CancellationOutcome(cancelled, thread)
      checkout == GuidanceCheckout(turnover)
  IN  [exceptions |-> ConversationExceptions(thread, approved),
       sensitivity |-> IF state.categories # {} THEN "business"
                       ELSE IF state.signals # {} THEN "general" ELSE "none",
       early      |-> IF state.early THEN EarlyVerdict(checkout) ELSE "none",
       extension  |-> state.extension,
       offer      |-> outcome.offer,
       owner      |-> LastReason(<<
                        IF state.beyond THEN "late_checkout" ELSE "none",
                        IF state.early /\ EarlyNeedsOwner(checkout)
                          THEN EarlyVerdict(checkout) ELSE "none",
                        IF state.extension THEN "extension" ELSE "none",
                        IF outcome.escalates THEN outcome.why ELSE "none">>)]

\* enquiry_reply_guidance: no booking, so neither turnover nor cancellation.
EnquiryGuidance(thread, approved) == ReplyGuidance(thread, approved, "unknown", "unknown")

-----------------------------------------------------------------------------
(* A reply to an enquiry, drafted for a person and kept nowhere.            *)

\* Mutant: the model's silence is taken at its word.
EnquiryDraftSilent(thread, readable, answer) ==
  [text |-> FALSE, detail |-> IF answer.kind = "no_reply" THEN "nothing_to_say" ELSE "declined"]

\* EnquiryReplyService.draft.
EnquiryDraft(thread, readable, answer) ==
  CASE ~readable \/ thread = << >> -> [text |-> FALSE, detail |-> "unreadable"]
    [] readable /\ thread # << >> /\ answer.kind = "no_reply" ->
         [text   |-> FALSE,
          detail |-> IF SuggestedOutcome(thread) = "reply_needed" THEN "declined"
                                                                  ELSE "nothing_to_say"]
    [] readable /\ thread # << >> /\ answer.kind = "text" -> [text |-> TRUE, detail |-> "drafted"]
    [] OTHER -> [text |-> FALSE, detail |-> "model_failed"]

-----------------------------------------------------------------------------
(* What one refresh records.                                                *)

\* process, of the analysis and the policies that follow it.
EscalationReason(thread, cancelled, turnover) ==
  LET state   == Analysis(thread)
      outcome == CancellationOutcome(cancelled, thread)
  IN  LastReason(<<IF state.beyond THEN "late_checkout" ELSE "none",
                   IF state.early /\ EarlyNeedsOwner(turnover)
                     THEN EarlyVerdict(turnover) ELSE "none",
                   IF state.extension THEN "extension" ELSE "none",
                   IF outcome.escalates THEN outcome.why ELSE "none">>)

Recorded(status, text) == [status |-> status, text |-> text]

\* Mutant: the finished text is not read before it is called ready.
DraftedUnread(thread, escalated, answer) ==
  CASE answer.kind = "no_reply" ->
         IF SuggestedOutcome(thread) = "reply_needed" THEN "NEEDS_HUMAN_REVIEW"
                                                      ELSE "NO_REPLY_NEEDED"
    [] answer.kind = "text" /\ ~escalated -> "DRAFT_READY"
    [] OTHER -> "NEEDS_HUMAN_REVIEW"

\* _draft, of what the agent's run came back with.
Drafted(thread, escalated, answer) ==
  CASE answer.kind = "no_reply" ->
         IF SuggestedOutcome(thread) = "reply_needed" THEN "NEEDS_HUMAN_REVIEW"
                                                      ELSE "NO_REPLY_NEEDED"
    [] /\ answer.kind = "text" /\ ~escalated
       /\ ~ExceedsCeiling(answer) /\ ~DraftViolatesPolicy(answer) -> "DRAFT_READY"
    [] OTHER -> "NEEDS_HUMAN_REVIEW"

\* process on a state that has no settled draft yet, or when forced.
ProcessOutcome(thread, cancelled, turnover, force, answer) ==
  LET verdict == SuggestedOutcome(thread)
      reason  == EscalationReason(thread, cancelled, turnover)
  IN  IF verdict = "already_replied" \/ (verdict = "no_reply_needed" /\ ~force)
        THEN Recorded("NO_REPLY_NEEDED", FALSE)
        ELSE Recorded(Drafted(thread, reason # "none", answer), answer.kind = "text")
=============================================================================
