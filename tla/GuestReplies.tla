---------------------------- MODULE GuestReplies ----------------------------
(***************************************************************************)
(* One guest conversation: the thread at the provider, the table           *)
(* conversation_drafts (DraftStore), the passes that prepare replies       *)
(* (ConversationRefreshService, started by a poll, a webhook or            *)
(* Regenerate), the people who edit a draft, and the replies that are      *)
(* submitted, approved, sent and settled (LodgifyInbox.send_reply,         *)
(* settle_confirmed_send). Requests and background tasks are served by     *)
(* threads side by side; a thread may die anywhere.                        *)
(*                                                                         *)
(* A thread of messages only grows, so a state of the conversation, which  *)
(* the code knows by its fingerprint, is the number of messages in it. A   *)
(* reply is identified with its approval, which is resolved once here:     *)
(* AgentRuntime has the resolutions that overlap.                          *)
(***************************************************************************)
EXTENDS Naturals, Sequences

CONSTANTS
  Threads,      \* server threads: requests and background tasks
  Replies,      \* approvals of send_guest_reply
  Drafted,      \* texts a drafting run may come up with
  Typed,        \* texts a person may write
  NoText, NoRow, None,
  MaxMessages,  \* bound: messages in the conversation
  MaxTouches,   \* bound: edits and regenerations by people
  MaxCrashes    \* bound: threads that die in the middle of their work

ASSUME RepliesAssumption ==
  /\ MaxMessages \in Nat \ {0}
  /\ MaxTouches \in Nat
  /\ MaxCrashes \in Nat
  /\ NoText \notin Drafted \cup Typed
  /\ {"asks", "closes"} \cap (Drafted \cup Typed) = {}
  /\ None \notin Replies

Texts == Drafted \cup Typed

\* A guest's message needs an answer or closes the conversation
\* (is_closing_message); one of ours is its text.
Message == {"asks", "closes"} \cup Texts

States == 1 .. MaxMessages

DraftStatus == {"DRAFT_READY", "EDITED", "NO_REPLY_NEEDED", "NEEDS_HUMAN_REVIEW",
                "SENT", "DISCARDED"}
Sendable == {"DRAFT_READY", "EDITED"}

Row == [status : DraftStatus, text : Texts \cup {NoText}]
ASSUME NoRowAssumption == NoRow \notin Row

SendStatus == {"confirmed_sent", "confirmed_failed", "unknown_send_state"}

VARIABLES
  thread,    \* the conversation at the provider
  onTheWay,  \* replies whose POST was not answered and may still take effect
  rows,      \* conversation_drafts, by the state a row is about
  order,     \* their states in the order of their ids
  reply,     \* each reply: none, parked, denied, approved, or its outcome
  words,     \* the text of each submitted reply
  since,     \* history: the length of the thread when a reply was granted
  arrived,   \* history: replies that reached the guest
  \* the work of each thread: its step, the state it is about, whether it is a
  \* Regenerate, the row its session loaded, the outcome to store, its reply
  pc, fp, forced, loaded, out, rep,
  touches, crashes

boundVars == <<touches, crashes>>
guestVars == <<thread, onTheWay, arrived>>
rowVars == <<rows, order>>
replyVars == <<reply, words, since>>
locals == <<fp, forced, loaded, out, rep>>
vars == <<guestVars, rowVars, replyVars, pc, locals, boundVars>>

Init ==
  /\ thread \in {<<"asks">>, <<"closes">>}
  /\ onTheWay = {}
  /\ rows = [f \in States |-> NoRow]
  /\ order = <<>>
  /\ reply = [r \in Replies |-> "none"]
  /\ words \in [Replies -> {NoText}]
  /\ since = [r \in Replies |-> 0]
  /\ arrived = {}
  /\ pc = [t \in Threads |-> "idle"]
  /\ fp = [t \in Threads |-> 0]
  /\ forced = [t \in Threads |-> FALSE]
  /\ loaded = [t \in Threads |-> NoRow]
  /\ out = [t \in Threads |-> NoRow]
  /\ rep = [t \in Threads |-> None]
  /\ touches = 0
  /\ crashes = 0

Now == Len(thread)
Newest == order[Len(order)]

-----------------------------------------------------------------------------
(* What the code works out from a conversation and a row.                   *)

\* analyse_conversation: the guest's messages after our last one are open.
Unanswered(f) ==
  {i \in 1 .. f : thread[i] \in {"asks", "closes"}
                    /\ \A j \in i .. f : thread[j] \notin Texts}

Verdict(f) ==
  IF Unanswered(f) = {} THEN "already_replied"
  ELSE IF \A i \in Unanswered(f) : thread[i] = "closes" THEN "no_reply_needed"
  ELSE "reply_needed"

\* is_settled: nothing automatic redoes it.
Settled(row) ==
  row # NoRow /\ (row.status = "NEEDS_HUMAN_REVIEW" => row.text # NoText)

\* process, where no model is asked: a closing that nobody forces, or our own
\* message, which no button gets past.
NeedsNoModel(verdict, force) ==
  \/ verdict = "already_replied"
  \/ verdict = "no_reply_needed" /\ ~force

Silence == [status |-> "NO_REPLY_NEEDED", text |-> NoText]
Failure == [status |-> "NEEDS_HUMAN_REVIEW", text |-> NoText]

\* Mutant: the model's silence closes the conversation.
PreparedTrusting(verdict) ==
  {Failure, Silence}
  \cup [status : {"DRAFT_READY", "NEEDS_HUMAN_REVIEW"}, text : Drafted]

\* _draft: the run failed or produced nothing; a text, that a person has to
\* decide about or not; the model's silence, which stands only where the
\* analyser agrees.
Prepared(verdict) ==
  {Failure}
  \cup [status : {"DRAFT_READY", "NEEDS_HUMAN_REVIEW"}, text : Drafted]
  \cup (IF verdict = "reply_needed" THEN {} ELSE {Silence})

\* An UPDATE of a row loaded earlier sets the columns whose value is to change
\* from what was loaded, and no others.
Updated(row, old, new) ==
  [status |-> IF new.status = old.status THEN row.status ELSE new.status,
   text   |-> IF new.text = old.text THEN row.text ELSE new.text]

-----------------------------------------------------------------------------
(* The guest, and the owner writing in the provider's own application.      *)

GuestWrites ==
  /\ Now < MaxMessages
  /\ \E m \in {"asks", "closes"} : thread' = Append(thread, m)
  /\ UNCHANGED <<onTheWay, arrived, rowVars, replyVars, pc, locals, boundVars>>

OwnerWrites ==
  /\ Now < MaxMessages
  /\ \E m \in Typed : thread' = Append(thread, m)
  /\ UNCHANGED <<onTheWay, arrived, rowVars, replyVars, pc, locals, boundVars>>

Delivered(r) ==
  /\ Now < MaxMessages
  /\ thread' = Append(thread, words[r])
  /\ arrived' = arrived \cup {r}

\* A POST that was not answered takes effect after all.
LateArrival(r) ==
  /\ r \in onTheWay
  /\ Delivered(r)
  /\ onTheWay' = onTheWay \ {r}
  /\ UNCHANGED <<rowVars, replyVars, pc, locals, boundVars>>

-----------------------------------------------------------------------------
(* A thread's work ends, normally or because it dies.                       *)

Leave(t) ==
  /\ pc' = [pc EXCEPT ![t] = "idle"]
  /\ fp' = [fp EXCEPT ![t] = 0]
  /\ forced' = [forced EXCEPT ![t] = FALSE]
  /\ loaded' = [loaded EXCEPT ![t] = NoRow]
  /\ out' = [out EXCEPT ![t] = NoRow]
  /\ rep' = [rep EXCEPT ![t] = None]

Goto(t, step) == pc' = [pc EXCEPT ![t] = step]

Crash(t) ==
  /\ pc[t] # "idle"
  /\ crashes < MaxCrashes
  /\ crashes' = crashes + 1
  /\ Leave(t)
  /\ UNCHANGED <<guestVars, rowVars, replyVars, touches>>

\* A person takes something up.
Touch ==
  /\ touches < MaxTouches
  /\ touches' = touches + 1
  /\ UNCHANGED crashes

-----------------------------------------------------------------------------
(* ConversationRefreshService.process                                       *)

\* A poll or a webhook's background task reads the conversation. One that
\* cannot be read changes nothing: the previous state is kept.
Refresh(t) ==
  /\ pc[t] = "idle"
  /\ fp' = [fp EXCEPT ![t] = Now]
  /\ Goto(t, "check")
  /\ UNCHANGED <<guestVars, rowVars, replyVars, forced, loaded, out, rep, boundVars>>

Regenerate(t) ==
  /\ pc[t] = "idle"
  /\ fp' = [fp EXCEPT ![t] = Now]
  /\ forced' = [forced EXCEPT ![t] = TRUE]
  /\ Goto(t, "check")
  /\ Touch
  /\ UNCHANGED <<guestVars, rowVars, replyVars, loaded, out, rep>>

\* The idempotency boundary.
Skip(t) ==
  /\ pc[t] = "check"
  /\ Settled(rows[fp[t]]) /\ ~forced[t]
  /\ Leave(t)
  /\ UNCHANGED <<guestVars, rowVars, replyVars, boundVars>>

\* Recorded without force, so it leaves a settled row alone.
Conclude(t) ==
  /\ pc[t] = "check"
  /\ forced[t] \/ ~Settled(rows[fp[t]])
  /\ NeedsNoModel(Verdict(fp[t]), forced[t])
  /\ out' = [out EXCEPT ![t] = Silence]
  /\ forced' = [forced EXCEPT ![t] = FALSE]
  /\ Goto(t, "select")
  /\ UNCHANGED <<guestVars, rowVars, replyVars, fp, loaded, rep, boundVars>>

\* The model is called, and the drafting run ends with one of its outcomes.
Draft(t) ==
  /\ pc[t] = "check"
  /\ forced[t] \/ ~Settled(rows[fp[t]])
  /\ ~NeedsNoModel(Verdict(fp[t]), forced[t])
  /\ \E o \in Prepared(Verdict(fp[t])) : out' = [out EXCEPT ![t] = o]
  /\ Goto(t, "select")
  /\ UNCHANGED <<guestVars, rowVars, replyVars, fp, forced, loaded, rep, boundVars>>

-----------------------------------------------------------------------------
(* DraftStore: each write is a session that loads the row and commits.      *)

\* record_outcome: an outcome that is not a failure or an escalation stays,
\* unless a Regenerate goes on to replace it.
MayRefill(row) == row.status = "NEEDS_HUMAN_REVIEW"

Select(t) ==
  /\ pc[t] = "select"
  /\ LET row == rows[fp[t]] IN
     \/ /\ row = NoRow
        /\ Goto(t, "insert")
        /\ UNCHANGED locals
     \/ /\ row # NoRow
        /\ MayRefill(row)
        /\ loaded' = [loaded EXCEPT ![t] = row]
        /\ Goto(t, "update")
        /\ UNCHANGED <<fp, forced, out, rep>>
     \/ /\ row # NoRow
        /\ ~MayRefill(row)
        /\ forced[t]
        /\ Goto(t, "replace")
        /\ UNCHANGED locals
     \/ /\ row # NoRow
        /\ ~MayRefill(row)
        /\ ~forced[t]
        /\ Leave(t)
  /\ UNCHANGED <<guestVars, rowVars, replyVars, boundVars>>

\* Mutant: one row per conversation instead of one per state of it.
InsertOncePerConversation(t) ==
  /\ pc[t] = "insert"
  /\ \/ /\ order = <<>>
        /\ rows' = [rows EXCEPT ![fp[t]] = out[t]]
        /\ order' = Append(order, fp[t])
     \/ /\ order # <<>>
        /\ UNCHANGED rowVars
  /\ Leave(t)
  /\ UNCHANGED <<guestVars, replyVars, boundVars>>

\* draft_ref is unique: the row is created, or another session was faster and
\* the commit raises IntegrityError.
Insert(t) ==
  /\ pc[t] = "insert"
  /\ \/ /\ rows[fp[t]] = NoRow
        /\ rows' = [rows EXCEPT ![fp[t]] = out[t]]
        /\ order' = Append(order, fp[t])
     \/ /\ rows[fp[t]] # NoRow
        /\ UNCHANGED rowVars
  /\ Leave(t)
  /\ UNCHANGED <<guestVars, replyVars, boundVars>>

\* replace: whatever the row holds by now.
Replace(t) ==
  /\ pc[t] = "replace"
  /\ loaded' = [loaded EXCEPT ![t] = rows[fp[t]]]
  /\ Goto(t, "overwrite")
  /\ UNCHANGED <<guestVars, rowVars, replyVars, fp, forced, out, rep, boundVars>>

\* The commit of record_outcome, replace, edit or mark_sent.
Commits == {"update", "overwrite", "save", "retire"}

Commit(t) ==
  /\ pc[t] \in Commits
  /\ rows' = [rows EXCEPT ![fp[t]] = Updated(@, loaded[t], out[t])]
  /\ \/ /\ pc[t] = "update" /\ forced[t]
        /\ Goto(t, "replace")
        /\ UNCHANGED locals
     \/ /\ ~(pc[t] = "update" /\ forced[t])
        /\ Leave(t)
  /\ UNCHANGED <<guestVars, order, replyVars, boundVars>>

-----------------------------------------------------------------------------
(* The console: editing a draft, submitting a reply, resolving it.          *)

\* edit_draft: the draft is picked, and then loaded in a session of its own.
Edit(t) ==
  /\ pc[t] = "idle"
  /\ order # <<>>
  /\ fp' = [fp EXCEPT ![t] = Newest]
  /\ Goto(t, "edit")
  /\ Touch
  /\ UNCHANGED <<guestVars, rowVars, replyVars, forced, loaded, out, rep>>

\* A new message, or only a new subject.
EditDraft(t) ==
  /\ pc[t] = "edit"
  /\ LET row == rows[fp[t]] IN
     \/ /\ row.status \in {"SENT", "DISCARDED"}
        /\ Leave(t)
     \/ /\ row.status \notin {"SENT", "DISCARDED"}
        /\ loaded' = [loaded EXCEPT ![t] = row]
        /\ \E m \in Typed \cup {row.text} :
             out' = [out EXCEPT ![t] = [status |-> "EDITED", text |-> m]]
        /\ Goto(t, "save")
        /\ UNCHANGED <<fp, forced, rep>>
  /\ UNCHANGED <<guestVars, rowVars, replyVars, boundVars>>

\* request_guest_reply: the fingerprint is the live one, or the provider could
\* not be read and any will do. The text is whatever the console submits.
Submit(r) ==
  /\ reply[r] = "none"
  /\ reply' = [reply EXCEPT ![r] = "parked"]
  /\ \E m \in Texts : words' = [words EXCEPT ![r] = m]
  /\ UNCHANGED <<guestVars, rowVars, since, pc, locals, boundVars>>

Deny(r) ==
  /\ reply[r] = "parked"
  /\ reply' = [reply EXCEPT ![r] = "denied"]
  /\ UNCHANGED <<guestVars, rowVars, words, since, pc, locals, boundVars>>

Approve(t, r) ==
  /\ pc[t] = "idle"
  /\ reply[r] = "parked"
  /\ reply' = [reply EXCEPT ![r] = "approved"]
  /\ since' = [since EXCEPT ![r] = Now]
  /\ rep' = [rep EXCEPT ![t] = r]
  /\ Goto(t, "before")
  /\ UNCHANGED <<guestVars, rowVars, words, fp, forced, loaded, out, boundVars>>

-----------------------------------------------------------------------------
(* LodgifyInbox.send_reply and settle_confirmed_send                        *)

Outcome(t, result) == reply' = [reply EXCEPT ![rep[t]] = result]

\* The snapshot; without one nothing is sent.
SendBefore(t) ==
  /\ pc[t] = "before"
  /\ \/ /\ fp' = [fp EXCEPT ![t] = Now]
        /\ Goto(t, "post")
        /\ UNCHANGED <<replyVars, forced, loaded, out, rep>>
     \/ /\ Outcome(t, "confirmed_failed")
        /\ Leave(t)
        /\ UNCHANGED <<words, since>>
  /\ UNCHANGED <<guestVars, rowVars, boundVars>>

\* What became of a POST that may have taken effect.
Ambiguous(r) ==
  \/ Delivered(r) /\ UNCHANGED onTheWay
  \/ onTheWay' = onTheWay \cup {r} /\ UNCHANGED <<thread, arrived>>

\* Mutant: a connection that broke counts as refused.
RefusedByTimeout(t) ==
  /\ Outcome(t, "confirmed_failed")
  /\ Ambiguous(rep[t])

\* LodgifySendRefused: a 4xx, or no connection.
Refused(t) ==
  /\ Outcome(t, "confirmed_failed")
  /\ UNCHANGED guestVars

\* LodgifySendAmbiguous: a 5xx, or a connection that broke.
Unanswered5xx(t) ==
  /\ Outcome(t, "unknown_send_state")
  /\ Ambiguous(rep[t])

\* Mutant: a POST that broke is tried again.
PostRetried(t) ==
  /\ pc[t] = "post"
  /\ \/ Refused(t) /\ Leave(t)
     \/ Ambiguous(rep[t]) /\ UNCHANGED <<pc, reply, locals>>
     \/ Ambiguous(rep[t]) /\ Goto(t, "verify") /\ UNCHANGED <<reply, locals>>
  /\ UNCHANGED <<rowVars, words, since, boundVars>>

\* Exactly one POST.
Post(t) ==
  /\ pc[t] = "post"
  /\ \/ /\ Refused(t) \/ Unanswered5xx(t)
        /\ Leave(t)
     \/ /\ Ambiguous(rep[t])
        /\ Goto(t, "verify")
        /\ UNCHANGED <<reply, locals>>
  /\ UNCHANGED <<rowVars, words, since, boundVars>>

\* Mutant: the whole conversation is searched for the text.
MatchesEver(t) == {k \in 1 .. Now : thread[k] = words[rep[t]]}

\* verify: messages of ours that were not there before, with exactly the text
\* that was sent; several are believed only when they look like one send.
Matches(t) == {k \in fp[t] + 1 .. Now : thread[k] = words[rep[t]]}

\* Mutant: the draft is settled whatever the verification saw.
VerifyHopefully(t) ==
  /\ pc[t] = "verify"
  /\ \/ Outcome(t, "unknown_send_state")
     \/ Matches(t) # {} /\ Outcome(t, "confirmed_sent")
  /\ Goto(t, "settle")
  /\ UNCHANGED <<guestVars, rowVars, words, since, locals, boundVars>>

Verify(t) ==
  /\ pc[t] = "verify"
  /\ \/ /\ Outcome(t, "unknown_send_state")
        /\ Leave(t)
     \/ /\ Matches(t) # {}
        /\ Outcome(t, "confirmed_sent")
        /\ Goto(t, "settle")
        /\ UNCHANGED locals
  /\ UNCHANGED <<guestVars, rowVars, words, since, boundVars>>

\* Which draft a confirmed send retires: the newest row, if it can be sent.
MayRetire == order # <<>> /\ rows[Newest].status \in Sendable

Settle(t) ==
  /\ pc[t] = "settle"
  /\ \/ /\ MayRetire
        /\ fp' = [fp EXCEPT ![t] = Newest]
        /\ Goto(t, "mark")
        /\ UNCHANGED <<forced, loaded, out, rep>>
     \/ /\ ~MayRetire
        /\ Leave(t)
  /\ UNCHANGED <<guestVars, rowVars, replyVars, boundVars>>

MarkSent(t) ==
  /\ pc[t] = "mark"
  /\ loaded' = [loaded EXCEPT ![t] = rows[fp[t]]]
  /\ out' = [out EXCEPT ![t] = [status |-> "SENT", text |-> rows[fp[t]].text]]
  /\ Goto(t, "retire")
  /\ UNCHANGED <<guestVars, rowVars, replyVars, fp, forced, rep, boundVars>>

-----------------------------------------------------------------------------
\* The next step of a thread that is at work.
Step(t) ==
  \/ Skip(t) \/ Conclude(t) \/ Draft(t)
  \/ Select(t) \/ Insert(t) \/ Replace(t) \/ Commit(t)
  \/ EditDraft(t)
  \/ SendBefore(t) \/ Post(t) \/ Verify(t) \/ Settle(t) \/ MarkSent(t)

TakeUp(t) ==
  \/ Refresh(t) \/ Regenerate(t) \/ Edit(t)
  \/ \E r \in Replies : Approve(t, r)

Next ==
  \/ GuestWrites \/ OwnerWrites
  \/ \E r \in Replies : LateArrival(r) \/ Submit(r) \/ Deny(r)
  \/ \E t \in Threads :
       TakeUp(t) \/ Step(t) \/ Crash(t)

Spec == Init /\ [][Next]_vars

-----------------------------------------------------------------------------
\* The row and the reply that the step of a thread works on.
AtWork(t) ==
  /\ pc[t] \in {"check", "select", "insert", "post", "verify"} => fp[t] \in 1 .. Now
  /\ pc[t] \in {"replace", "edit", "mark"} \cup Commits =>
       fp[t] \in 1 .. Now /\ rows[fp[t]] # NoRow
  /\ pc[t] \in {"select", "insert", "replace"} \cup Commits => out[t] # NoRow
  /\ pc[t] \in Commits => loaded[t] # NoRow
  /\ pc[t] \in {"before", "post", "verify", "settle", "mark", "retire"} =>
       rep[t] \in Replies /\ reply[rep[t]] # "none"

TypeOK ==
  /\ thread \in Seq(Message)
  /\ Now \in States
  /\ onTheWay \subseteq Replies
  /\ arrived \subseteq Replies
  /\ rows \in [States -> Row \cup {NoRow}]
  /\ order \in Seq(States)
  /\ \A i \in 1 .. Len(order) : order[i] <= Now /\ rows[order[i]] # NoRow
  /\ reply \in [Replies -> {"none", "parked", "denied", "approved"} \cup SendStatus]
  /\ words \in [Replies -> Texts \cup {NoText}]
  /\ since \in [Replies -> 0 .. MaxMessages]
  /\ \A r \in Replies : reply[r] # "none" \/ r \in onTheWay => words[r] \in Texts
  /\ pc \in [Threads -> {"idle", "check", "select", "insert",
                         "replace", "edit", "before", "post", "verify",
                         "settle", "mark"} \cup Commits]
  /\ fp \in [Threads -> 0 .. MaxMessages]
  /\ forced \in [Threads -> BOOLEAN]
  /\ loaded \in [Threads -> Row \cup {NoRow}]
  /\ out \in [Threads -> Row \cup {NoRow}]
  /\ rep \in [Threads -> Replies \cup {None}]
  /\ touches \in Nat
  /\ crashes \in Nat
  /\ \A t \in Threads : AtWork(t)

\* Silence is never the model's alone: a state that the analyser says is owed
\* a reply is never closed with NO_REPLY_NEEDED, by whatever passes, edits
\* and failures overlap on its row (_draft, "a withheld reply costs a guest").
SilenceIsAgreed ==
  \A f \in 1 .. Now :
    rows[f] # NoRow /\ rows[f].status = "NO_REPLY_NEEDED"
      => Verdict(f) # "reply_needed"

\* The words of a reply came into the thread after they were granted.
IsSeen(r) == \E k \in since[r] + 1 .. Now : thread[k] = words[r]

\* What a send reports is so: of a reply that is said to have failed, or was
\* never granted, nothing has reached the guest or ever will; the words of one
\* that is said to be sent came into the thread after they were granted.
OutcomesAreHonest ==
  \A r \in Replies :
    /\ reply[r] \in {"none", "parked", "denied", "confirmed_failed"}
         => r \notin arrived \cup onTheWay
    /\ reply[r] = "confirmed_sent" => IsSeen(r)

\* A draft is retired after a confirmed send, and only then (mark_sent).
RetiredAfterConfirmation ==
  (\E f \in States : rows[f] # NoRow /\ rows[f].status = "SENT")
    => \E r \in Replies : reply[r] = "confirmed_sent"

\* The desk keeps what ReplyDelivery promises of each reply, from its submission
\* to the draft it retires, through late deliveries, silent threads and threads
\* that die (send_reply, settle_confirmed_send, AgentService's one resolution).
PostOf(r) ==
  IF r \in arrived THEN "reached" ELSE IF r \in onTheWay THEN "flying" ELSE "unsent"
Retired == {f \in States : rows[f] # NoRow /\ rows[f].status = "SENT"}

Delivery == INSTANCE ReplyDelivery
              WITH standing <- reply, post <- [r \in Replies |-> PostOf(r)],
                   retired <- Retired

ImplementsReplyDelivery == Delivery!Spec

-----------------------------------------------------------------------------
(* What comments say and the program does not keep; the README names the    *)
(* run that shows each.                                                     *)

\* record_outcome, of an automatic pass: it must not silently replace the
\* words of a person who has edited the draft. Only a person, a Regenerate or
\* a confirmed send writes an edited row. (A session that read the row while
\* it was waiting for a person commits over what was saved since, column by
\* column.)
WordsAreKept ==
  [][\A f \in States :
       rows[f] # NoRow /\ rows[f].status = "EDITED" /\ rows'[f] # rows[f] =>
         \E t \in Threads : fp[t] = f /\ pc[t] \in Commits \ {"update"}]_vars

\* operator_attention_for, with the provider's status as the fallback.
Attention ==
  LET provider == thread[Now] \in {"asks", "closes"} IN
  IF order = <<>> THEN provider
  ELSE LET row == rows[Newest]
           carriesText == row.text # NoText
                            /\ row.status \in Sendable \cup {"NEEDS_HUMAN_REVIEW"}
       IN IF Newest # Now THEN carriesText \/ provider
          ELSE IF row.status = "DISCARDED" THEN provider
          ELSE row.status \notin {"NO_REPLY_NEEDED", "SENT"}

\* What operator_attention_for says of a new guest message: it brings the
\* badge straight back. A guest who is owed a reply is never off the list.
GuestIsNeverHidden == Verdict(Now) = "reply_needed" => Attention

\* What process says: it brings a conversation's prepared state up to date. So
\* when nobody is at work and the present state has been processed, its row is
\* the one the console shows.
PreparedIsShown ==
  /\ \A t \in Threads : pc[t] = "idle"
  /\ rows[Now] # NoRow
  => Newest = Now

-----------------------------------------------------------------------------
\* The console polls for as long as the Inbox is open, so a thread that is
\* free again and again takes up another pass that can read the conversation;
\* a thread at work goes on. Nothing is owed by guests, people, webhooks or
\* late answers.
Fairness == \A t \in Threads : WF_vars(Step(t)) /\ SF_vars(Refresh(t))

FairSpec == Spec /\ Fairness

\* The webhook makes drafting fast and polling makes it certain: a state that
\* lasts gets its row, though webhooks are lost, threads die, reads fail and
\* sessions collide.
EveryStateIsProcessed ==
  \A f \in States : Now = f ~> Now > f \/ rows[f] # NoRow

-----------------------------------------------------------------------------
(* The inductive strengthening behind the theorems of GuestRepliesProofs.   *)

\* What a session is about to store, and what it had loaded.
InHand(t) ==
  /\ pc[t] \in {"select", "insert", "update", "replace", "overwrite"} =>
       /\ out[t].status \in {"DRAFT_READY", "NO_REPLY_NEEDED", "NEEDS_HUMAN_REVIEW"}
       /\ out[t].status = "NO_REPLY_NEEDED" => Verdict(fp[t]) # "reply_needed"
  /\ pc[t] = "update" => loaded[t].status = "NEEDS_HUMAN_REVIEW"
  /\ pc[t] = "save" => out[t].status = "EDITED"
  /\ pc[t] = "retire" => out[t].status = "SENT"

StoreInv ==
  /\ \A t \in Threads : InHand(t)
  /\ \A f \in States : rows[f] # NoRow => f <= Now
  /\ SilenceIsAgreed

Sending(t) == pc[t] \in {"before", "post", "verify"}

\* A granted reply is sent by one thread, which has not sent it before its
\* POST, and only a confirmed one goes on to be settled.
SendsOnce(t) ==
  /\ Sending(t) => reply[rep[t]] = "approved"
  /\ pc[t] \in {"before", "post"} => rep[t] \notin arrived \cup onTheWay
  /\ pc[t] = "verify" => rep[t] \in arrived \cup onTheWay
  /\ pc[t] \in {"post", "verify"} => since[rep[t]] <= fp[t]
  /\ pc[t] \in {"settle", "mark", "retire"} => reply[rep[t]] = "confirmed_sent"

Sends ==
  /\ \A t \in Threads : SendsOnce(t)
  /\ \A t, u \in Threads : Sending(t) /\ Sending(u) /\ rep[t] = rep[u] => t = u
  /\ arrived \cap onTheWay = {}
  /\ \A r \in Replies : since[r] <= Now
  /\ OutcomesAreHonest

SendInv == Sends /\ RetiredAfterConfirmation
=============================================================================
