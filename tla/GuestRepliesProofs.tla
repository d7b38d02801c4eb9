------------------------- MODULE GuestRepliesProofs -------------------------
(* Theorems of GuestReplies, for every number of threads, replies, texts,   *)
(* messages, touches and crashes.                                           *)
EXTENDS GuestReplies, TLAPS

-----------------------------------------------------------------------------
(* Type correctness.                                                        *)

LEMMA InitTypeOK == Init => TypeOK
<1> SUFFICES ASSUME Init PROVE TypeOK
  OBVIOUS
<1>1. ASSUME NEW m \in Message, thread = <<m>>
      PROVE  thread \in Seq(Message) /\ Now = 1
  BY <1>1 DEF Now
<1>2. thread \in Seq(Message) /\ Now \in States
  BY <1>1, RepliesAssumption DEF Init, Message, States
<1>3. order \in Seq(States) /\ Len(order) = 0
  BY DEF Init
<1>4. \A t \in Threads : pc[t] = "idle"
  BY DEF Init
<1> QED BY <1>2, <1>3, <1>4, RepliesAssumption DEF Init, TypeOK, AtWork, Commits

\* A conversation that grows by a message of ours or of the guest.
LEMMA Grown ==
  ASSUME TypeOK, NEW m \in Message, Now < MaxMessages, thread' = Append(thread, m)
  PROVE  /\ thread' \in Seq(Message)
         /\ Now' = Now + 1
         /\ Now' \in States
         /\ \A i \in 1 .. Now : thread'[i] = thread[i]
         /\ thread'[Now'] = m
  BY RepliesAssumption DEF TypeOK, Now, States

LEMMA WorldTypeOK ==
  ASSUME TypeOK,
         \/ GuestWrites \/ OwnerWrites
         \/ \E r \in Replies : LateArrival(r) \/ Submit(r) \/ Deny(r)
  PROVE  TypeOK'
<1> USE RepliesAssumption
<1>1. ASSUME NEW m \in Message, Now < MaxMessages, thread' = Append(thread, m),
             onTheWay' \subseteq onTheWay, arrived' \subseteq Replies,
             UNCHANGED <<rowVars, replyVars, pc, locals, boundVars>>
      PROVE  TypeOK'
  <2>1. /\ thread' \in Seq(Message) /\ Now' = Now + 1 /\ Now' \in States
        /\ Now \in Nat
    BY <1>1, Grown DEF TypeOK, States
  <2>2. \A i \in 1 .. Len(order) : order[i] <= Now'
    <3> SUFFICES ASSUME NEW i \in 1 .. Len(order) PROVE order[i] <= Now'
      OBVIOUS
    <3>1. order[i] \in Nat /\ order[i] <= Now
      BY DEF TypeOK, States
    <3> QED BY <2>1, <3>1
  <2>3. 1 .. Now \subseteq 1 .. Now'
    BY <2>1
  <2> QED BY <1>1, <2>1, <2>2, <2>3 DEF TypeOK, AtWork, rowVars, replyVars, locals, boundVars
<1>2. CASE GuestWrites
  BY <1>1, <1>2 DEF GuestWrites, Message, TypeOK
<1>3. CASE OwnerWrites
  BY <1>1, <1>3 DEF OwnerWrites, Message, Texts, TypeOK
<1>4. ASSUME NEW r \in Replies, LateArrival(r) PROVE TypeOK'
  <2>1. words[r] \in Message
    BY <1>4 DEF LateArrival, TypeOK, Message
  <2> QED BY <1>1, <1>4, <2>1 DEF LateArrival, Delivered, TypeOK
<1>5. ASSUME NEW r \in Replies, Submit(r) PROVE TypeOK'
  BY <1>5 DEF Submit, TypeOK, AtWork, guestVars, rowVars, locals, boundVars, Now
<1>6. ASSUME NEW r \in Replies, Deny(r) PROVE TypeOK'
  BY <1>6 DEF Deny, TypeOK, AtWork, guestVars, rowVars, locals, boundVars, Now
<1> QED BY <1>2, <1>3, <1>4, <1>5, <1>6

\* What an UPDATE leaves is a row with a status and a text of the old row or
\* of the new one.
LEMMA UpdatedRow ==
  ASSUME NEW row \in Row, NEW old \in Row, NEW new \in Row
  PROVE  /\ Updated(row, old, new) \in Row
         /\ Updated(row, old, new).status \in {row.status, new.status}
         /\ new.status # old.status => Updated(row, old, new).status = new.status
  BY DEF Updated, Row

LEMMA PreparedRow ==
  ASSUME NEW verdict, NEW o \in Prepared(verdict)
  PROVE  /\ o \in Row
         /\ o.status \in {"DRAFT_READY", "NO_REPLY_NEEDED", "NEEDS_HUMAN_REVIEW"}
         /\ o.status = "NO_REPLY_NEEDED" => verdict # "reply_needed"
  BY DEF Prepared, Failure, Silence, Row, DraftStatus, Texts

\* A step of one thread leaves the others at work on what they had.
OthersRest(t) ==
  /\ \A u \in Threads \ {t} :
       pc'[u] = pc[u] /\ fp'[u] = fp[u] /\ loaded'[u] = loaded[u]
         /\ out'[u] = out[u] /\ rep'[u] = rep[u]
  /\ Now' \in Nat /\ Now' >= Now
  /\ \A f \in States : rows[f] # NoRow => rows'[f] # NoRow
  /\ \A r \in Replies : reply[r] # "none" => reply'[r] # "none"

LEMMA Others ==
  ASSUME TypeOK, NEW t \in Threads, OthersRest(t), AtWork(t)'
  PROVE  \A u \in Threads : AtWork(u)'
<1> SUFFICES ASSUME NEW u \in Threads \ {t} PROVE AtWork(u)'
  OBVIOUS
<1>1. AtWork(u) /\ Now \in Nat /\ Now <= MaxMessages
  BY RepliesAssumption DEF TypeOK, States
<1>2. 1 .. Now \subseteq 1 .. Now' /\ 1 .. Now \subseteq States
  BY <1>1, RepliesAssumption DEF OthersRest, States
<1>3. /\ pc'[u] = pc[u] /\ fp'[u] = fp[u] /\ loaded'[u] = loaded[u]
      /\ out'[u] = out[u] /\ rep'[u] = rep[u]
  BY DEF OthersRest
<1> QED BY <1>1, <1>2, <1>3 DEF AtWork, OthersRest

\* What is in the table stays in it, and stays within the conversation.
LEMMA Listed ==
  ASSUME TypeOK, order' = order, Now' \in Nat, Now' >= Now,
         \A f \in States : rows[f] # NoRow => rows'[f] # NoRow
  PROVE  /\ order' \in Seq(States)
         /\ \A i \in 1 .. Len(order') : order'[i] <= Now' /\ rows'[order'[i]] # NoRow
<1>1. order \in Seq(States) /\ Now \in Nat /\ MaxMessages \in Nat
  BY RepliesAssumption DEF TypeOK, States
<1> SUFFICES ASSUME NEW i \in 1 .. Len(order)
             PROVE  order[i] <= Now' /\ rows'[order[i]] # NoRow
  BY <1>1
<1>2. order[i] \in States /\ order[i] \in Nat
  BY <1>1 DEF States
<1>3. order[i] <= Now /\ rows[order[i]] # NoRow
  BY DEF TypeOK
<1> QED BY <1>1, <1>2, <1>3

LEMMA PassTypeOK ==
  ASSUME TypeOK, NEW t \in Threads,
         \/ Refresh(t) \/ Regenerate(t) \/ Skip(t) \/ Conclude(t) \/ Draft(t)
         \/ Edit(t) \/ EditDraft(t) \/ Crash(t)
  PROVE  TypeOK'
<1> USE RepliesAssumption, NoRowAssumption
    DEF TypeOK, AtWork, Commits, Now, States, guestVars, rowVars, replyVars, locals, boundVars
<1>1. CASE Refresh(t)
  BY <1>1 DEF Refresh, Goto
<1>2. CASE Regenerate(t)
  BY <1>2 DEF Regenerate, Goto, Touch
<1>3. CASE Skip(t)
  BY <1>3 DEF Skip, Leave
<1>4. CASE Conclude(t)
  <2>1. Silence \in Row
    BY DEF Silence, Row, DraftStatus
  <2> QED BY <1>4, <2>1 DEF Conclude, Goto
<1>5. CASE Draft(t)
  <2>1. PICK o \in Prepared(Verdict(fp[t])) : out' = [out EXCEPT ![t] = o]
    BY <1>5 DEF Draft
  <2>2. o \in Row
    BY <2>1, PreparedRow
  <2> QED BY <1>5, <2>1, <2>2 DEF Draft, Goto
<1>6. CASE Edit(t)
  <2>1. Newest \in 1 .. Now /\ rows[Newest] # NoRow
    BY <1>6 DEF Edit, Newest
  <2> QED BY <1>6, <2>1 DEF Edit, Goto, Touch
<1>7. CASE EditDraft(t)
  <2>1. rows[fp[t]] \in Row
    BY <1>7 DEF EditDraft
  <2>2. CASE Leave(t)
    BY <1>7, <2>2 DEF EditDraft, Leave
  <2>3. ASSUME NEW m \in Typed \cup {rows[fp[t]].text},
               out' = [out EXCEPT ![t] = [status |-> "EDITED", text |-> m]],
               loaded' = [loaded EXCEPT ![t] = rows[fp[t]]],
               Goto(t, "save"), UNCHANGED <<fp, forced, rep>>
        PROVE  TypeOK'
    <3>1. [status |-> "EDITED", text |-> m] \in Row
      BY <2>1 DEF Row, DraftStatus, Texts
    <3> QED BY <1>7, <2>1, <2>3, <3>1 DEF EditDraft, Goto
  <2> QED BY <1>7, <2>2, <2>3 DEF EditDraft
<1>8. CASE Crash(t)
  BY <1>8 DEF Crash, Leave
<1> QED BY <1>1, <1>2, <1>3, <1>4, <1>5, <1>6, <1>7, <1>8

LEMMA StoreTypeOK ==
  ASSUME TypeOK, NEW t \in Threads,
         Select(t) \/ Insert(t) \/ Replace(t) \/ Commit(t)
  PROVE  TypeOK'
<1> USE RepliesAssumption, NoRowAssumption
    DEF TypeOK, AtWork, Commits, Now, States, guestVars, rowVars, replyVars, locals, boundVars
<1>1. CASE Select(t)
  <2>1. CASE Leave(t)
    BY <1>1, <2>1 DEF Select, Leave
  <2>2. CASE rows[fp[t]] = NoRow /\ Goto(t, "insert") /\ UNCHANGED locals
    BY <1>1, <2>2 DEF Select, Goto
  <2>3. CASE rows[fp[t]] # NoRow /\ Goto(t, "replace") /\ UNCHANGED locals
    BY <1>1, <2>3 DEF Select, Goto
  <2>4. CASE /\ rows[fp[t]] # NoRow
             /\ loaded' = [loaded EXCEPT ![t] = rows[fp[t]]]
             /\ Goto(t, "update")
             /\ UNCHANGED <<fp, forced, out, rep>>
    BY <1>1, <2>4 DEF Select, Goto
  <2> QED BY <1>1, <2>1, <2>2, <2>3, <2>4 DEF Select
<1>2. CASE Insert(t)
  <2>1. CASE UNCHANGED rowVars
    BY <1>2, <2>1 DEF Insert, Leave
  <2>2. CASE /\ rows[fp[t]] = NoRow
             /\ rows' = [rows EXCEPT ![fp[t]] = out[t]]
             /\ order' = Append(order, fp[t])
    <3>1. fp[t] \in States /\ fp[t] <= Now /\ out[t] \in Row
      BY <1>2 DEF Insert
    <3>2. rows' \in [States -> Row \cup {NoRow}]
          /\ \A f \in States : rows[f] # NoRow \/ f = fp[t] => rows'[f] # NoRow
      BY <2>2, <3>1
    <3>3. /\ order' \in Seq(States)
          /\ \A i \in 1 .. Len(order') : order'[i] <= Now /\ rows'[order'[i]] # NoRow
      BY <2>2, <3>1, <3>2
    <3> QED BY <1>2, <3>2, <3>3 DEF Insert, Leave
  <2> QED BY <1>2, <2>1, <2>2 DEF Insert
<1>3. CASE Replace(t)
  BY <1>3 DEF Replace, Goto
<1>4. CASE Commit(t)
  <2>1. /\ fp[t] \in States /\ rows[fp[t]] \in Row
        /\ loaded[t] \in Row /\ out[t] \in Row
    BY <1>4 DEF Commit
  <2>2. Updated(rows[fp[t]], loaded[t], out[t]) \in Row
    BY <2>1, UpdatedRow
  <2>3. /\ rows' \in [States -> Row \cup {NoRow}]
        /\ \A f \in States : rows[f] # NoRow => rows'[f] # NoRow
    BY <1>4, <2>1, <2>2 DEF Commit
  <2> HIDE DEF TypeOK, AtWork, Now
  <2>4. UNCHANGED <<thread, onTheWay, arrived, order, reply, words, since, touches, crashes>>
        /\ Now' = Now /\ Now \in Nat
    BY <1>4 DEF Commit, Now, TypeOK
  <2>5. /\ order' \in Seq(States)
        /\ \A i \in 1 .. Len(order') : order'[i] <= Now' /\ rows'[order'[i]] # NoRow
    BY <2>3, <2>4, Listed
  <2>6. CASE Goto(t, "replace") /\ UNCHANGED locals
    <3>1. pc' = [pc EXCEPT ![t] = "replace"] /\ UNCHANGED locals
      BY <2>6 DEF Goto
    <3>2. AtWork(t)'
      BY <1>4, <2>1, <2>3, <2>4, <3>1 DEF AtWork, TypeOK, Commit
    <3>3. OthersRest(t)
      BY <2>3, <2>4, <3>1 DEF OthersRest, TypeOK
    <3>4. \A u \in Threads : AtWork(u)'
      BY <3>2, <3>3, Others
    <3> QED BY <2>3, <2>4, <2>5, <3>1, <3>4 DEF TypeOK
  <2>7. CASE Leave(t)
    <3>1. AtWork(t)'
      BY <2>7 DEF AtWork, TypeOK, Leave
    <3>2. OthersRest(t)
      BY <2>3, <2>4, <2>7 DEF OthersRest, TypeOK, Leave
    <3>3. \A u \in Threads : AtWork(u)'
      BY <3>1, <3>2, Others
    <3> QED BY <2>3, <2>4, <2>5, <2>7, <3>3 DEF TypeOK, Leave
  <2> QED BY <1>4, <2>6, <2>7 DEF Commit
<1> QED BY <1>1, <1>2, <1>3, <1>4

LEMMA OutcomeType ==
  ASSUME TypeOK, NEW t \in Threads, rep[t] \in Replies, reply[rep[t]] # "none",
         NEW result \in SendStatus, Outcome(t, result)
  PROVE  /\ reply' \in [Replies -> {"none", "parked", "denied", "approved"} \cup SendStatus]
         /\ \A r \in Replies : reply'[r] # "none" <=> reply[r] # "none"
<1>1. /\ reply \in [Replies -> {"none", "parked", "denied", "approved"} \cup SendStatus]
      /\ result # "none"
  BY DEF TypeOK, SendStatus
<1> QED BY <1>1 DEF Outcome

LEMMA SendTypeOK ==
  ASSUME TypeOK, NEW t \in Threads,
         \/ \E r \in Replies : Approve(t, r)
         \/ SendBefore(t) \/ Post(t)
  PROVE  TypeOK'
<1> USE RepliesAssumption, NoRowAssumption
    DEF TypeOK, AtWork, Commits, guestVars, rowVars, replyVars, locals, boundVars
<1>1. ASSUME NEW r \in Replies, Approve(t, r) PROVE TypeOK'
  <2>1. Now \in 0 .. MaxMessages
    BY DEF States, Now
  <2>2. since' \in [Replies -> 0 .. MaxMessages]
    BY <1>1, <2>1 DEF Approve
  <2> QED BY <1>1, <2>2 DEF Approve, Goto, Now
<1>2. CASE SendBefore(t)
  <2>1. rep[t] \in Replies /\ reply[rep[t]] # "none"
    BY <1>2 DEF SendBefore
  <2>2. CASE Outcome(t, "confirmed_failed") /\ Leave(t) /\ UNCHANGED <<words, since>>
    <3>1. /\ reply' \in [Replies -> {"none", "parked", "denied", "approved"} \cup SendStatus]
          /\ \A r \in Replies : reply'[r] # "none" <=> reply[r] # "none"
      BY <2>1, <2>2, OutcomeType DEF SendStatus
    <3> QED BY <1>2, <2>2, <3>1 DEF SendBefore, Leave, Now
  <2>3. CASE /\ fp' = [fp EXCEPT ![t] = Now]
             /\ Goto(t, "post")
             /\ UNCHANGED <<replyVars, forced, loaded, out, rep>>
    BY <1>2, <2>3 DEF SendBefore, Goto, Now, States
  <2> QED BY <1>2, <2>2, <2>3 DEF SendBefore
<1>3. CASE Post(t)
  <2>1. /\ rep[t] \in Replies /\ words[rep[t]] \in Message
        /\ reply[rep[t]] # "none" /\ fp[t] \in 1 .. Now
    BY <1>3 DEF Post, Message
  <2>2. ASSUME Refused(t) \/ Unanswered5xx(t)
        PROVE  /\ reply' \in [Replies -> {"none", "parked", "denied", "approved"}
                                            \cup SendStatus]
               /\ \A r \in Replies : reply'[r] # "none" <=> reply[r] # "none"
    BY <2>1, <2>2, OutcomeType DEF Refused, Unanswered5xx, SendStatus
  <2>3. ASSUME Ambiguous(rep[t]) \/ UNCHANGED guestVars
        PROVE  /\ thread' \in Seq(Message) /\ Now' \in States /\ Now' >= Now
               /\ onTheWay' \subseteq Replies /\ arrived' \subseteq Replies
               /\ onTheWay' \subseteq onTheWay \cup {rep[t]}
    <3>1. CASE Delivered(rep[t]) /\ UNCHANGED onTheWay
      <4>1. thread' \in Seq(Message) /\ Now' = Now + 1 /\ Now' \in States
        BY <2>1, <3>1, Grown DEF Delivered
      <4> QED BY <2>1, <3>1, <4>1 DEF Delivered, States
    <3>2. CASE onTheWay' = onTheWay \cup {rep[t]} /\ UNCHANGED <<thread, arrived>>
      BY <2>1, <3>2 DEF Now, States
    <3>3. CASE UNCHANGED guestVars
      BY <3>3 DEF Now, States
    <3> QED BY <2>3, <3>1, <3>2, <3>3 DEF Ambiguous
  <2>4. CASE /\ Refused(t) \/ Unanswered5xx(t)
             /\ Leave(t)
    <3>1. Ambiguous(rep[t]) \/ UNCHANGED guestVars
      BY <2>4 DEF Refused, Unanswered5xx
    <3>2. /\ thread' \in Seq(Message) /\ Now' \in States /\ Now' >= Now
          /\ onTheWay' \subseteq Replies /\ arrived' \subseteq Replies
          /\ onTheWay' \subseteq onTheWay \cup {rep[t]}
      BY <2>3, <3>1
    <3>3. \A i \in 1 .. Len(order) : order[i] <= Now'
      <4> SUFFICES ASSUME NEW i \in 1 .. Len(order) PROVE order[i] <= Now'
        OBVIOUS
      <4>1. order[i] \in Nat /\ order[i] <= Now /\ Now \in Nat
        BY DEF States
      <4> QED BY <3>2, <4>1 DEF States
    <3>4. 1 .. Now \subseteq 1 .. Now'
      BY <3>2 DEF States
    <3>5. \A r \in Replies : reply'[r] # "none" \/ r \in onTheWay' => words[r] \in Texts
      BY <2>1, <2>2, <2>4, <3>2
    <3> HIDE DEF Refused, Unanswered5xx, Ambiguous, Now
    <3> QED BY <1>3, <2>1, <2>2, <2>4, <3>2, <3>3, <3>4, <3>5 DEF Post, Leave
  <2>5. CASE Ambiguous(rep[t]) /\ Goto(t, "verify") /\ UNCHANGED <<reply, locals>>
    BY <1>3, <2>1, <2>3, <2>5 DEF Post, Goto, States
  <2> QED BY <1>3, <2>4, <2>5 DEF Post
<1> QED BY <1>1, <1>2, <1>3

LEMMA SettleTypeOK ==
  ASSUME TypeOK, NEW t \in Threads, Verify(t) \/ Settle(t) \/ MarkSent(t)
  PROVE  TypeOK'
<1> USE RepliesAssumption, NoRowAssumption DEF Commits
<1>1. /\ UNCHANGED <<guestVars, rowVars, words, since, boundVars>>
      /\ Now' = Now /\ Now \in Nat
  BY DEF Verify, Settle, MarkSent, replyVars, TypeOK, Now, States, guestVars
<1>2. /\ pc[t] \in {"verify", "settle", "mark"} /\ AtWork(t)
      /\ rep[t] \in Replies /\ reply[rep[t]] # "none"
  BY DEF Verify, Settle, MarkSent, TypeOK, AtWork
<1>3. /\ order' \in Seq(States)
      /\ \A i \in 1 .. Len(order') : order'[i] <= Now' /\ rows'[order'[i]] # NoRow
  BY <1>1, Listed DEF rowVars
<1>4. ASSUME reply' = reply \/ \E result \in SendStatus : Outcome(t, result),
             OthersRest(t), AtWork(t)', forced' \in [Threads -> BOOLEAN],
             NEW step \in {"settle", "mark", "retire", "idle"}, Goto(t, step),
             fp' \in [Threads -> 0 .. MaxMessages],
             loaded' \in [Threads -> Row \cup {NoRow}],
             out' \in [Threads -> Row \cup {NoRow}],
             rep' \in [Threads -> Replies \cup {None}]
      PROVE  TypeOK'
  <2>1. \A u \in Threads : AtWork(u)'
    BY <1>4, Others
  <2>2. /\ reply' \in [Replies -> {"none", "parked", "denied", "approved"} \cup SendStatus]
        /\ \A r \in Replies : reply'[r] # "none" => reply[r] # "none"
    BY <1>2, <1>4, OutcomeType DEF TypeOK
  <2> QED BY <1>1, <1>3, <1>4, <2>1, <2>2
          DEF TypeOK, Goto, guestVars, rowVars, boundVars
<1>5. ASSUME Leave(t)
      PROVE  /\ AtWork(t)' /\ forced' \in [Threads -> BOOLEAN]
             /\ Goto(t, "idle")
             /\ fp' \in [Threads -> 0 .. MaxMessages]
             /\ loaded' \in [Threads -> Row \cup {NoRow}]
             /\ out' \in [Threads -> Row \cup {NoRow}]
             /\ rep' \in [Threads -> Replies \cup {None}]
  BY <1>5 DEF Leave, AtWork, TypeOK, Goto
<1>6. CASE Verify(t)
  <2>1. OthersRest(t)
    BY <1>1, <1>2, <1>6
       DEF Verify, OthersRest, Outcome, Goto, Leave, locals, rowVars, TypeOK
  <2>2. CASE Outcome(t, "unknown_send_state") /\ Leave(t)
    BY <1>4, <1>5, <2>1, <2>2 DEF SendStatus
  <2>3. CASE Outcome(t, "confirmed_sent") /\ Goto(t, "settle") /\ UNCHANGED locals
    <3>1. AtWork(t)'
      BY <1>1, <1>2, <2>3 DEF AtWork, Outcome, Goto, locals, TypeOK
    <3> QED BY <1>4, <2>1, <2>3, <3>1 DEF SendStatus, locals, TypeOK
  <2> QED BY <1>6, <2>2, <2>3 DEF Verify
<1>7. CASE Settle(t)
  <2>1. OthersRest(t) /\ reply' = reply
    BY <1>1, <1>2, <1>7 DEF Settle, OthersRest, Goto, Leave, replyVars, rowVars, TypeOK
  <2>2. CASE Leave(t)
    BY <1>4, <1>5, <2>1, <2>2
  <2>3. CASE /\ MayRetire
             /\ fp' = [fp EXCEPT ![t] = Newest]
             /\ Goto(t, "mark")
             /\ UNCHANGED <<forced, loaded, out, rep>>
    <3>1. Newest \in States /\ Newest \in 1 .. Now /\ rows[Newest] # NoRow
      BY <2>3 DEF MayRetire, Newest, TypeOK, States
    <3>2. AtWork(t)'
      BY <1>1, <1>2, <2>1, <2>3, <3>1 DEF AtWork, Goto, TypeOK, rowVars
    <3> QED BY <1>4, <2>1, <2>3, <3>1, <3>2, SMTT(30) DEF TypeOK, States
  <2> QED BY <1>7, <2>2, <2>3 DEF Settle
<1>8. CASE MarkSent(t)
  <2>1. OthersRest(t) /\ reply' = reply
    BY <1>1, <1>2, <1>8 DEF MarkSent, OthersRest, Goto, replyVars, rowVars, TypeOK
  <2>2. /\ rows[fp[t]] \in Row
        /\ [status |-> "SENT", text |-> rows[fp[t]].text] \in Row
    BY <1>2, <1>8 DEF MarkSent, Row, DraftStatus, AtWork, TypeOK, States
  <2>3. AtWork(t)'
    BY <1>1, <1>2, <1>8, <2>1, <2>2 DEF MarkSent, AtWork, Goto, TypeOK, rowVars
  <2>4. /\ UNCHANGED <<fp, forced, rep>> /\ Goto(t, "retire")
        /\ loaded' \in [Threads -> Row \cup {NoRow}]
        /\ out' \in [Threads -> Row \cup {NoRow}]
    BY <1>8, <2>2 DEF MarkSent, TypeOK
  <2> QED BY <1>4, <2>1, <2>3, <2>4 DEF TypeOK
<1> QED BY <1>6, <1>7, <1>8

LEMMA StepTypeOK ==
  ASSUME TypeOK, [Next]_vars
  PROVE  TypeOK'
<1>1. CASE UNCHANGED vars
  BY <1>1 DEF vars, guestVars, rowVars, replyVars, locals, boundVars,
              TypeOK, AtWork, Now
<1> QED BY <1>1, WorldTypeOK, PassTypeOK, StoreTypeOK, SendTypeOK, SettleTypeOK
        DEF Next, TakeUp, Step

\* Every variable keeps its type, and a thread has the row and the reply that
\* its step works on.
THEOREM TypeCorrect == Spec => []TypeOK
BY InitTypeOK, StepTypeOK, PTL DEF Spec

-----------------------------------------------------------------------------
(* The drafts table: whose silence closes a conversation, and whose words a *)
(* pass may overwrite.                                                      *)

\* The conversation only grows, and with it nothing that was said changes.
Grows ==
  /\ Now' \in Nat /\ Now' >= Now
  /\ \A i \in 1 .. Now : thread'[i] = thread[i]

LEMMA ThreadGrows ==
  ASSUME TypeOK, [Next]_vars
  PROVE  Grows
<1>1. CASE thread' = thread
  BY <1>1 DEF Grows, TypeOK, Now, States
<1>2. ASSUME NEW m \in Message, Now < MaxMessages, thread' = Append(thread, m)
      PROVE  Grows
  <2>1. Now' = Now + 1 /\ \A i \in 1 .. Now : thread'[i] = thread[i]
    BY <1>2, Grown
  <2>2. Now \in Nat
    BY DEF TypeOK, States
  <2> QED BY <2>1, <2>2 DEF Grows
<1>3. ASSUME NEW r \in Replies, words[r] \in Texts, Delivered(r) PROVE Grows
  BY <1>2, <1>3 DEF Delivered, Message
<1>4. CASE GuestWrites \/ OwnerWrites
  BY <1>2, <1>4 DEF GuestWrites, OwnerWrites, Message, Texts
<1>5. ASSUME NEW r \in Replies, LateArrival(r) PROVE Grows
  BY <1>3, <1>5 DEF LateArrival, TypeOK
<1>6. ASSUME NEW t \in Threads, Post(t) PROVE Grows
  <2>1. rep[t] \in Replies /\ words[rep[t]] \in Texts
    BY <1>6 DEF Post, TypeOK, AtWork
  <2> QED BY <1>1, <1>3, <1>6, <2>1
          DEF Post, Refused, Unanswered5xx, Ambiguous, guestVars
<1> QED
  BY <1>1, <1>4, <1>5, <1>6
     DEF Next, TakeUp, Step, vars, guestVars, Submit, Deny, Refresh, Regenerate,
         Edit, Approve, Skip, Conclude, Draft, Select, Insert, Replace, Commit,
         EditDraft, SendBefore, Verify, Settle, MarkSent, Crash

\* What the analyser says of a state does not depend on what follows it.
LEMMA VerdictStands ==
  ASSUME TypeOK, Grows, NEW f \in 1 .. Now
  PROVE  Verdict(f)' = Verdict(f)
<1>1. f \in Nat /\ Now \in Nat /\ f <= Now
  BY DEF TypeOK, States
<1>2. \A i \in 1 .. f : thread'[i] = thread[i] /\ \A j \in i .. f : thread'[j] = thread[j]
  BY <1>1 DEF Grows
<1>3. Unanswered(f)' = Unanswered(f)
  BY <1>2 DEF Unanswered
<1>4. (\A i \in Unanswered(f)' : thread'[i] = "closes")
        <=> (\A i \in Unanswered(f) : thread[i] = "closes")
  BY <1>2, <1>3 DEF Unanswered
<1> QED BY <1>3, <1>4 DEF Verdict

LEMMA VerdictAt ==
  ASSUME TypeOK, Grows, NEW t \in Threads, fp[t] \in 1 .. Now, fp'[t] = fp[t]
  PROVE  Verdict(fp[t])' = Verdict(fp[t])
<1> DEFINE f == fp[t]
<1>1. f \in 1 .. Now /\ f' = f
  OBVIOUS
<1> QED BY <1>1, VerdictStands DEF Verdict, Unanswered

LEMMA InitStoreInv == Init => StoreInv
<1> SUFFICES ASSUME Init PROVE StoreInv
  OBVIOUS
<1>1. /\ \A t \in Threads : pc[t] = "idle"
      /\ \A f \in States : rows[f] = NoRow
  BY DEF Init
<1>2. 1 .. Now \subseteq States
  BY InitTypeOK, RepliesAssumption DEF TypeOK, States
<1> QED BY <1>1, <1>2 DEF StoreInv, InHand, SilenceIsAgreed

\* A thread that keeps what it has in hand.
LEMMA InHandKept ==
  ASSUME TypeOK, Grows, NEW t \in Threads, InHand(t),
         pc'[t] = pc[t], fp'[t] = fp[t], out'[t] = out[t], loaded'[t] = loaded[t]
  PROVE  InHand(t)'
<1>1. CASE pc[t] \in {"select", "insert", "update", "replace", "overwrite"}
  <2>1. fp[t] \in 1 .. Now
    BY <1>1 DEF TypeOK, AtWork, Commits
  <2>2. Verdict(fp[t])' = Verdict(fp[t])
    BY <2>1, VerdictAt
  <2> QED BY <1>1, <2>2 DEF InHand
<1>2. CASE pc[t] \notin {"select", "insert", "update", "replace", "overwrite"}
  BY <1>2 DEF InHand
<1> QED BY <1>1, <1>2

\* A table that is not written.
LEMMA TableKept ==
  ASSUME TypeOK, TypeOK', StoreInv, Grows, rows' = rows
  PROVE  /\ \A f \in States : rows'[f] # NoRow => f <= Now'
         /\ SilenceIsAgreed'
<1>1. ASSUME NEW f \in States, rows[f] # NoRow PROVE f \in 1 .. Now /\ f <= Now'
  BY <1>1, RepliesAssumption DEF StoreInv, TypeOK, States, Grows
<1>2. ASSUME NEW f \in 1 .. Now', rows'[f] # NoRow, rows'[f].status = "NO_REPLY_NEEDED"
      PROVE  Verdict(f)' # "reply_needed"
  <2>1. f \in 1 .. Now
    BY <1>1, <1>2, RepliesAssumption DEF TypeOK, States
  <2> QED BY <1>2, <2>1, VerdictStands DEF StoreInv, SilenceIsAgreed
<1> QED BY <1>1, <1>2 DEF SilenceIsAgreed

\* A table in which a thread has stored what it had in hand.
LEMMA StoreSteps ==
  ASSUME TypeOK, TypeOK', StoreInv, Grows, NEW t \in Threads,
         Insert(t) \/ Commit(t)
  PROVE  /\ \A f \in States : rows'[f] # NoRow => f <= Now'
         /\ SilenceIsAgreed'
<1> DEFINE f == fp[t]
<1>1. /\ f \in 1 .. Now /\ f \in States /\ f <= Now' /\ out[t] \in Row /\ Now \in Nat
      /\ rows \in [States -> Row \cup {NoRow}]
  BY RepliesAssumption DEF TypeOK, AtWork, Commits, States, Insert, Commit, Grows
<1>2. /\ InHand(t)
      /\ rows[f] # NoRow /\ rows[f].status = "NO_REPLY_NEEDED"
            => Verdict(f) # "reply_needed"
  BY <1>1 DEF StoreInv, SilenceIsAgreed
<1>3. CASE rows' = rows
  BY <1>3, TableKept
<1>4. ASSUME NEW row, rows' = [rows EXCEPT ![f] = row],
             row.status = "NO_REPLY_NEEDED" => Verdict(f) # "reply_needed"
      PROVE  /\ \A g \in States : rows'[g] # NoRow => g <= Now'
             /\ SilenceIsAgreed'
  <2>1. ASSUME NEW g \in States, rows'[g] # NoRow PROVE g \in 1 .. Now /\ g <= Now'
    BY <1>1, <1>4, <2>1, RepliesAssumption DEF StoreInv, States, Grows
  <2>2. ASSUME NEW g \in 1 .. Now', rows'[g] # NoRow, rows'[g].status = "NO_REPLY_NEEDED"
        PROVE  Verdict(g)' # "reply_needed"
    <3>1. g \in 1 .. Now /\ g \in States
      BY <2>1, <2>2, RepliesAssumption DEF TypeOK, States
    <3>2. Verdict(g)' = Verdict(g)
      BY <3>1, VerdictStands
    <3>3. CASE g = f
      BY <1>1, <1>4, <2>2, <3>2, <3>3
    <3>4. CASE g # f
      BY <1>1, <1>4, <2>2, <3>1, <3>2, <3>4 DEF StoreInv, SilenceIsAgreed
    <3> QED BY <3>3, <3>4
  <2> QED BY <2>1, <2>2 DEF SilenceIsAgreed
<1>5. CASE Insert(t)
  <2>1. pc[t] = "insert" /\ (rows' = [rows EXCEPT ![f] = out[t]] \/ rows' = rows)
    BY <1>5 DEF Insert, rowVars
  <2> QED BY <1>2, <1>3, <1>4, <2>1 DEF InHand
<1>6. CASE Commit(t)
  <2>1. /\ pc[t] \in Commits /\ rows[f] \in Row /\ loaded[t] \in Row
        /\ rows' = [rows EXCEPT ![f] = Updated(rows[f], loaded[t], out[t])]
    BY <1>1, <1>6 DEF Commit, TypeOK, AtWork
  <2>2. Updated(rows[f], loaded[t], out[t]).status \in {rows[f].status, out[t].status}
    BY <1>1, <2>1, UpdatedRow
  <2>3. rows[f] # NoRow
    BY <2>1, NoRowAssumption
  <2>4. out[t].status = "NO_REPLY_NEEDED" => Verdict(f) # "reply_needed"
    BY <1>2, <2>1 DEF InHand, Commits
  <2>5. Updated(rows[f], loaded[t], out[t]).status = "NO_REPLY_NEEDED"
          => Verdict(f) # "reply_needed"
    BY <1>2, <2>2, <2>3, <2>4
  <2> QED BY <1>4, <2>1, <2>5
<1> QED BY <1>5, <1>6

\* What a thread takes in hand.
LEMMA InHandSteps ==
  ASSUME TypeOK, StoreInv, Grows, NEW t \in Threads, TakeUp(t) \/ Step(t) \/ Crash(t)
  PROVE  \A u \in Threads : InHand(u)'
<1>1. ASSUME NEW u \in Threads \ {t}
      PROVE  pc'[u] = pc[u] /\ fp'[u] = fp[u] /\ out'[u] = out[u] /\ loaded'[u] = loaded[u]
  BY <1>1 DEF TypeOK, TakeUp, Step, Refresh, Regenerate, Edit, Approve, Skip, Conclude,
     Draft, Select, Insert, Replace, Commit, EditDraft, SendBefore, Post, Verify, Settle,
     MarkSent, Crash, Leave, Goto, locals
<1>2. ASSUME NEW u \in Threads \ {t} PROVE InHand(u)'
  BY <1>1, <1>2, InHandKept DEF StoreInv
<1> SUFFICES InHand(t)'
  BY <1>2
<1>3. InHand(t)
  BY DEF StoreInv
<1>4. ASSUME pc'[t] \in {"idle", "check", "edit", "before", "post", "verify", "settle", "mark"}
      PROVE  InHand(t)'
  BY <1>4 DEF InHand
<1>5. CASE Leave(t)
  BY <1>4, <1>5 DEF Leave, TypeOK
<1>6. ASSUME NEW step \in {"check", "edit", "before", "post", "verify", "settle", "mark"},
             Goto(t, step)
      PROVE  InHand(t)'
  BY <1>4, <1>6 DEF Goto, TypeOK
<1>7. CASE TakeUp(t) \/ Crash(t)
  BY <1>5, <1>6, <1>7 DEF TakeUp, Refresh, Regenerate, Edit, Approve, Crash
<1>8. CASE Skip(t) \/ Insert(t) \/ SendBefore(t) \/ Post(t) \/ Verify(t) \/ Settle(t)
  BY <1>5, <1>6, <1>8 DEF Skip, Insert, SendBefore, Post, Verify, Settle
<1>9. ASSUME NEW o \in Row, out' = [out EXCEPT ![t] = o], fp' = fp, Goto(t, "select"),
             fp[t] \in 1 .. Now,
             o.status \in {"DRAFT_READY", "NO_REPLY_NEEDED", "NEEDS_HUMAN_REVIEW"},
             o.status = "NO_REPLY_NEEDED" => Verdict(fp[t]) # "reply_needed"
      PROVE  InHand(t)'
  <2>1. pc'[t] = "select" /\ out'[t] = o /\ fp'[t] = fp[t]
    BY <1>9 DEF Goto, TypeOK
  <2>2. Verdict(fp[t])' = Verdict(fp[t])
    BY <1>9, <2>1, VerdictAt
  <2> QED BY <1>9, <2>1, <2>2 DEF InHand
<1>10. CASE Conclude(t)
  <2>1. fp[t] \in 1 .. Now /\ Silence \in Row
    BY <1>10 DEF Conclude, TypeOK, AtWork, Silence, Row, DraftStatus
  <2>2. Verdict(fp[t]) # "reply_needed"
    BY <1>10 DEF Conclude, NeedsNoModel
  <2> QED BY <1>9, <1>10, <2>1, <2>2 DEF Conclude, Silence
<1>11. CASE Draft(t)
  <2>1. PICK o \in Prepared(Verdict(fp[t])) : out' = [out EXCEPT ![t] = o]
    BY <1>11 DEF Draft
  <2>2. fp[t] \in 1 .. Now
    BY <1>11 DEF Draft, TypeOK, AtWork
  <2> QED BY <1>9, <1>11, <2>1, <2>2, PreparedRow DEF Draft
<1>12. CASE Select(t) \/ Replace(t)
  <2>1. \/ Leave(t)
        \/ /\ out' = out /\ fp' = fp
           /\ \/ pc'[t] \in {"insert", "replace", "overwrite"}
              \/ pc'[t] = "update" /\ loaded'[t].status = "NEEDS_HUMAN_REVIEW"
    BY <1>12 DEF Select, Replace, Goto, MayRefill, locals, TypeOK
  <2>2. pc[t] \in {"select", "replace"} /\ fp[t] \in 1 .. Now
    BY <1>12 DEF Select, Replace, TypeOK, AtWork
  <2>3. Leave(t) \/ Verdict(fp[t])' = Verdict(fp[t])
    BY <2>1, <2>2, VerdictAt
  <2> QED BY <1>3, <1>5, <2>1, <2>2, <2>3 DEF InHand
<1>13. CASE Commit(t)
  <2>1. CASE pc[t] = "update" /\ Goto(t, "replace") /\ UNCHANGED locals
    <3>1. pc'[t] = "replace" /\ out' = out /\ fp' = fp /\ fp[t] \in 1 .. Now
      BY <2>1 DEF Goto, TypeOK, AtWork, Commits, locals
    <3>2. Verdict(fp[t])' = Verdict(fp[t])
      BY <3>1, VerdictAt
    <3> QED BY <1>3, <2>1, <3>1, <3>2 DEF InHand
  <2> QED BY <1>5, <1>13, <2>1 DEF Commit
<1>14. CASE EditDraft(t) \/ MarkSent(t)
  <2>1. \/ pc'[t] = "save" /\ out'[t].status = "EDITED"
        \/ pc'[t] = "retire" /\ out'[t].status = "SENT"
        \/ Leave(t)
    BY <1>14 DEF EditDraft, MarkSent, Goto, TypeOK
  <2> QED BY <1>5, <2>1 DEF InHand
<1> QED BY <1>7, <1>8, <1>10, <1>11, <1>12, <1>13, <1>14 DEF Step

LEMMA StepStoreInv ==
  ASSUME TypeOK, StoreInv, [Next]_vars
  PROVE  StoreInv'
<1>1. TypeOK' /\ Grows
  BY StepTypeOK, ThreadGrows
<1>2. (\A f \in States : rows'[f] # NoRow => f <= Now') /\ SilenceIsAgreed'
  <2>1. CASE rows' = rows
    BY <1>1, <2>1, TableKept
  <2>2. CASE \E t \in Threads : Insert(t) \/ Commit(t)
    BY <1>1, <2>2, StoreSteps
  <2>3. rows' = rows \/ \E t \in Threads : Insert(t) \/ Commit(t)
    BY DEF Next, TakeUp, Step, vars, rowVars, GuestWrites, OwnerWrites, LateArrival,
           Submit, Deny, Refresh, Regenerate, Edit, Approve, Skip, Conclude, Draft,
           Select, Replace, EditDraft, SendBefore, Post, Verify, Settle, MarkSent, Crash
  <2> QED BY <2>1, <2>2, <2>3
<1>3. \A u \in Threads : InHand(u)'
  <2>1. CASE UNCHANGED <<pc, locals>>
    BY <1>1, <2>1, InHandKept DEF StoreInv, locals
  <2>2. CASE \E t \in Threads : TakeUp(t) \/ Step(t) \/ Crash(t)
    BY <1>1, <2>2, InHandSteps
  <2>3. UNCHANGED <<pc, locals>> \/ \E t \in Threads : TakeUp(t) \/ Step(t) \/ Crash(t)
    BY DEF Next, vars, GuestWrites, OwnerWrites, LateArrival, Submit, Deny
  <2> QED BY <2>1, <2>2, <2>3
<1> QED BY <1>2, <1>3 DEF StoreInv

LEMMA StoreInvariant == Spec => [](TypeOK /\ StoreInv)
BY InitTypeOK, StepTypeOK, InitStoreInv, StepStoreInv, PTL DEF Spec

\* No state that the analyser says is owed a reply is ever closed in silence,
\* however many passes, edits, failures and deaths overlap on its row.
THEOREM SilenceAgreed == Spec => []SilenceIsAgreed
<1>1. StoreInv => SilenceIsAgreed
  BY DEF StoreInv
<1> QED BY <1>1, StoreInvariant, PTL

-----------------------------------------------------------------------------
(* Replies: what is said to have happened to one, and what has.             *)

LEMMA InitSendInv == Init => SendInv
<1> SUFFICES ASSUME Init PROVE SendInv
  OBVIOUS
<1>1. Now = 1
  BY DEF Init, Now
<1> QED BY <1>1, RepliesAssumption
        DEF Init, SendInv, Sends, SendsOnce, Sending, OutcomesAreHonest,
            RetiredAfterConfirmation

\* The steps that work on a reply.
AtReply == {"before", "post", "verify", "settle", "mark", "retire"}

\* What was seen in the conversation stays in it.
LEMMA SeenStays ==
  ASSUME TypeOK, Grows, NEW r \in Replies, IsSeen(r),
         words'[r] = words[r], since'[r] = since[r]
  PROVE  IsSeen(r)'
<1>1. PICK k \in since[r] + 1 .. Now : thread[k] = words[r]
  BY DEF IsSeen
<1>2. since[r] \in Nat /\ Now \in Nat
  BY RepliesAssumption DEF TypeOK, States
<1>3. k \in 1 .. Now /\ k \in since[r] + 1 .. Now'
  BY <1>2 DEF Grows
<1>4. thread'[k] = words[r]
  BY <1>1, <1>3 DEF Grows
<1> QED BY <1>3, <1>4 DEF IsSeen

LEMMA TypesOfReplies ==
  ASSUME TypeOK
  PROVE  /\ \A r \in Replies : since[r] \in Nat
         /\ \A u \in Threads : /\ fp[u] \in Nat
                               /\ pc[u] \in AtReply => rep[u] \in Replies
         /\ Now \in Nat
<1>1. MaxMessages \in Nat
  BY RepliesAssumption
<1> QED BY <1>1 DEF TypeOK, States, AtWork, AtReply

\* Steps that leave every reply alone: a thread keeps its place, leaves its
\* reply, or goes on with it.
LEMMA RepliesKept ==
  ASSUME TypeOK, Grows, Sends, UNCHANGED <<replyVars, onTheWay, arrived>>,
         \A u \in Threads :
           \/ pc'[u] \notin AtReply
           \/ rep'[u] = rep[u]
                /\ \/ pc'[u] = pc[u] /\ fp'[u] = fp[u]
                   \/ pc[u] = "before" /\ pc'[u] = "post" /\ fp'[u] = Now
                   \/ pc[u] = "settle" /\ pc'[u] = "mark"
                   \/ pc[u] = "mark" /\ pc'[u] = "retire"
  PROVE  Sends'
<1>1. reply' = reply /\ words' = words /\ since' = since
  BY DEF replyVars
<1>2. ASSUME NEW u \in Threads PROVE SendsOnce(u)'
  <2>1. SendsOnce(u) /\ (pc[u] \in AtReply => rep[u] \in Replies)
    BY TypesOfReplies DEF Sends
  <2>2. rep[u] \in Replies => since[rep[u]] <= Now
    BY DEF Sends
  <2> QED BY <1>1, <2>1, <2>2 DEF SendsOnce, Sending, AtReply
<1>3. ASSUME NEW t \in Threads, Sending(t)' PROVE Sending(t) /\ rep'[t] = rep[t]
  BY <1>3 DEF Sending, AtReply
<1>4. \A t, u \in Threads : Sending(t)' /\ Sending(u)' /\ rep'[t] = rep'[u] => t = u
  BY <1>3 DEF Sends
<1>5. arrived' \cap onTheWay' = {}
  BY DEF Sends
<1>6. \A r \in Replies : since'[r] <= Now'
  BY <1>1, TypesOfReplies DEF Sends, Grows
<1>7. OutcomesAreHonest'
  <2> SUFFICES ASSUME NEW r \in Replies, reply[r] = "confirmed_sent" PROVE IsSeen(r)'
    BY <1>1 DEF Sends, OutcomesAreHonest
  <2>1. IsSeen(r)
    BY DEF Sends, OutcomesAreHonest
  <2> QED BY <1>1, <2>1, SeenStays
<1> QED BY <1>2, <1>4, <1>5, <1>6, <1>7 DEF Sends

\* A reply that comes to its outcome, which its thread leaves with.
LEMMA ReplyEnds ==
  ASSUME TypeOK, Grows, Sends, NEW t \in Threads, Sending(t), rep[t] \in Replies,
         NEW result \in SendStatus, Outcome(t, result), words' = words, since' = since,
         arrived' \cup onTheWay' \subseteq arrived \cup onTheWay \cup {rep[t]},
         arrived \cup onTheWay \subseteq arrived' \cup onTheWay',
         arrived' \cap onTheWay' = {},
         result = "confirmed_failed" => rep[t] \notin arrived' \cup onTheWay',
         result = "confirmed_sent" => IsSeen(rep[t]),
         \A u \in Threads \ {t} : pc'[u] = pc[u] /\ rep'[u] = rep[u] /\ fp'[u] = fp[u],
         \/ pc'[t] = "idle"
         \/ pc'[t] = "settle" /\ rep'[t] = rep[t] /\ result = "confirmed_sent"
  PROVE  Sends'
<1>1. /\ reply' = [reply EXCEPT ![rep[t]] = result]
      /\ reply'[rep[t]] = result
      /\ \A r \in Replies \ {rep[t]} : reply'[r] = reply[r]
  BY DEF Outcome, TypeOK
<1>2. reply[rep[t]] = "approved" /\ ~Sending(t)'
  BY DEF Sends, SendsOnce, Sending
<1>3. ASSUME NEW u \in Threads \ {t} PROVE SendsOnce(u)'
  <2>1. SendsOnce(u) /\ pc'[u] = pc[u] /\ rep'[u] = rep[u] /\ fp'[u] = fp[u]
    BY DEF Sends
  <2>2. CASE Sending(u)
    <3>1. rep[u] # rep[t] /\ rep[u] \in Replies
      BY <2>2 DEF Sends, TypeOK, AtWork, Sending
    <3> QED BY <1>1, <2>1, <2>2, <3>1 DEF SendsOnce, Sending
  <2>3. CASE pc[u] \in {"settle", "mark", "retire"}
    <3>1. rep[u] # rep[t] /\ rep[u] \in Replies
      BY <1>2, <2>1, <2>3 DEF SendsOnce, TypeOK, AtWork
    <3> QED BY <1>1, <2>1, <2>3, <3>1 DEF SendsOnce, Sending
  <2> QED BY <2>1, <2>2, <2>3 DEF SendsOnce, Sending
<1>4. SendsOnce(t)'
  BY <1>1 DEF SendsOnce, Sending
<1>5. \A v, u \in Threads : Sending(v)' /\ Sending(u)' /\ rep'[v] = rep'[u] => v = u
  BY <1>2 DEF Sends, Sending
<1>6. OutcomesAreHonest'
  <2> SUFFICES ASSUME NEW r \in Replies
               PROVE  /\ reply'[r] \in {"none", "parked", "denied", "confirmed_failed"}
                            => r \notin arrived' \cup onTheWay'
                      /\ reply'[r] = "confirmed_sent" => IsSeen(r)'
    BY DEF OutcomesAreHonest
  <2>1. CASE r = rep[t]
    BY <1>1, <2>1, SeenStays DEF SendStatus
  <2>2. CASE r # rep[t]
    <3>1. /\ reply'[r] = reply[r]
          /\ reply[r] \in {"none", "parked", "denied", "confirmed_failed"}
               => r \notin arrived' \cup onTheWay'
      BY <1>1, <2>2 DEF Sends, OutcomesAreHonest
    <3>2. ASSUME reply[r] = "confirmed_sent" PROVE IsSeen(r)'
      <4>1. IsSeen(r)
        BY <3>2 DEF Sends, OutcomesAreHonest
      <4> QED BY <4>1, SeenStays
    <3> QED BY <3>1, <3>2
  <2> QED BY <2>1, <2>2
<1>7. \A r \in Replies : since'[r] <= Now'
  BY TypesOfReplies DEF Sends, Grows
<1> QED BY <1>3, <1>4, <1>5, <1>6, <1>7 DEF Sends

\* Submitting, denying and granting a reply, and what arrives late or arrives
\* without an answer.
LEMMA ReplyGoesOn ==
  ASSUME TypeOK, Grows, Sends, NEW r \in Replies,
         \/ Submit(r) \/ Deny(r) \/ LateArrival(r)
         \/ \E t \in Threads : Approve(t, r)
         \/ \E t \in Threads :
              /\ Post(t) /\ rep[t] = r /\ Ambiguous(r) /\ Goto(t, "verify")
              /\ UNCHANGED <<reply, locals>>
  PROVE  Sends'
<1>1. \A u \in Threads :
        /\ SendsOnce(u)
        /\ pc[u] \in AtReply => rep[u] \in Replies
  BY TypesOfReplies DEF Sends
<1>2. \A q \in Replies :
        /\ reply[q] \in {"none", "parked", "denied", "confirmed_failed"}
             => q \notin arrived \cup onTheWay
        /\ reply[q] = "confirmed_sent" /\ words'[q] = words[q] /\ since'[q] = since[q]
             => IsSeen(q)'
  <2> SUFFICES ASSUME NEW q \in Replies, reply[q] = "confirmed_sent",
                      words'[q] = words[q], since'[q] = since[q]
               PROVE  IsSeen(q)'
    BY DEF Sends, OutcomesAreHonest
  <2>1. IsSeen(q)
    BY DEF Sends, OutcomesAreHonest
  <2> QED BY <2>1, SeenStays
<1>3. \A q \in Replies : since[q] <= Now' /\ Now <= Now'
  BY TypesOfReplies DEF Sends, Grows
<1>4. arrived \cap onTheWay = {}
  BY DEF Sends
<1>5. CASE Submit(r) \/ Deny(r)
  <2>1. /\ UNCHANGED <<pc, rep, fp, arrived, onTheWay, since>>
        /\ reply[r] \in {"none", "parked"} /\ reply'[r] \in {"parked", "denied"}
        /\ \A q \in Replies \ {r} : reply'[q] = reply[q] /\ words'[q] = words[q]
    BY <1>5 DEF Submit, Deny, locals, guestVars, TypeOK
  <2>2. ASSUME NEW u \in Threads PROVE SendsOnce(u)'
    <3>1. pc[u] \in AtReply => rep[u] \in Replies \ {r}
      BY <1>1, <2>1 DEF SendsOnce, Sending, AtReply
    <3> QED BY <1>1, <2>1, <3>1 DEF SendsOnce, Sending, AtReply
  <2>3. OutcomesAreHonest'
    BY <1>2, <2>1 DEF OutcomesAreHonest
  <2> QED BY <1>3, <1>4, <2>1, <2>2, <2>3 DEF Sends, Sending
<1>6. CASE LateArrival(r)
  <2>1. /\ UNCHANGED <<pc, rep, fp, reply, words, since>> /\ r \in onTheWay
        /\ arrived' \cup onTheWay' = arrived \cup onTheWay
        /\ arrived' \cap onTheWay' = {}
    BY <1>4, <1>6 DEF LateArrival, Delivered, locals, replyVars
  <2>2. \A u \in Threads : SendsOnce(u)'
    BY <1>1, <2>1 DEF SendsOnce, Sending
  <2>3. OutcomesAreHonest'
    BY <1>2, <2>1 DEF OutcomesAreHonest
  <2> QED BY <1>3, <2>1, <2>2, <2>3 DEF Sending, Sends
<1>7. ASSUME NEW t \in Threads, Approve(t, r) PROVE Sends'
  <2>1. /\ reply[r] = "parked" /\ reply'[r] = "approved" /\ words' = words
        /\ UNCHANGED <<arrived, onTheWay>> /\ pc'[t] = "before" /\ rep'[t] = r
        /\ \A q \in Replies \ {r} : reply'[q] = reply[q] /\ since'[q] = since[q]
        /\ since'[r] = Now /\ fp' = fp
        /\ \A u \in Threads \ {t} : pc'[u] = pc[u] /\ rep'[u] = rep[u]
    BY <1>7 DEF Approve, Goto, guestVars, TypeOK
  <2>2. \A u \in Threads : pc[u] \in AtReply => rep[u] \in Replies \ {r}
    BY <1>1, <2>1 DEF SendsOnce, Sending, AtReply
  <2>3. r \notin arrived \cup onTheWay
    BY <1>2, <2>1
  <2>4. \A u \in Threads : SendsOnce(u)'
    <3>1. ASSUME NEW u \in Threads \ {t} PROVE SendsOnce(u)'
      BY <1>1, <2>1, <2>2 DEF SendsOnce, Sending, AtReply
    <3>2. SendsOnce(t)'
      BY <2>1, <2>3 DEF SendsOnce, Sending
    <3> QED BY <3>1, <3>2
  <2>5. \A v, u \in Threads : Sending(v)' /\ Sending(u)' /\ rep'[v] = rep'[u] => v = u
    BY <2>1, <2>2 DEF Sends, Sending, AtReply
  <2>6. OutcomesAreHonest'
    BY <1>2, <2>1 DEF OutcomesAreHonest
  <2>7. \A q \in Replies : since'[q] <= Now'
    BY <1>3, <2>1
  <2> QED BY <1>4, <2>1, <2>4, <2>5, <2>6, <2>7 DEF Sends
<1>8. ASSUME NEW t \in Threads, Post(t), rep[t] = r, Ambiguous(r), Goto(t, "verify"),
             UNCHANGED <<reply, locals>>
      PROVE  Sends'
  <2>1. /\ pc[t] = "post" /\ pc'[t] = "verify" /\ reply[r] = "approved"
        /\ UNCHANGED <<reply, words, since, rep, fp>>
        /\ arrived' \cup onTheWay' = arrived \cup onTheWay \cup {r}
        /\ arrived' \cap onTheWay' = {}
        /\ \A u \in Threads \ {t} : pc'[u] = pc[u]
    BY <1>1, <1>4, <1>8
       DEF Post, Goto, Ambiguous, Delivered, locals, TypeOK, SendsOnce, Sending
  <2>2. \A u \in Threads \ {t} : Sending(u) => rep[u] # r
    BY <1>8, <2>1 DEF Sends, Sending
  <2>3. \A u \in Threads : SendsOnce(u)'
    <3>1. ASSUME NEW u \in Threads \ {t} PROVE SendsOnce(u)'
      BY <1>1, <2>1, <2>2 DEF SendsOnce, Sending
    <3>2. SendsOnce(t)'
      BY <1>1, <1>8, <2>1 DEF SendsOnce, Sending
    <3> QED BY <3>1, <3>2
  <2>4. \A v, u \in Threads : Sending(v)' /\ Sending(u)' /\ rep'[v] = rep'[u] => v = u
    BY <2>1 DEF Sends, Sending
  <2>5. OutcomesAreHonest'
    BY <1>2, <2>1 DEF OutcomesAreHonest
  <2> QED BY <1>3, <2>1, <2>3, <2>4, <2>5 DEF Sends
<1> QED BY <1>5, <1>6, <1>7, <1>8

\* Drafts are retired by the session of a confirmed send.
LEMMA Retiring ==
  ASSUME TypeOK, StoreInv, SendInv, [Next]_vars,
         \A q \in Replies : reply[q] = "confirmed_sent" => reply'[q] = "confirmed_sent"
  PROVE  RetiredAfterConfirmation'
<1> SUFFICES ASSUME NEW f \in States, rows'[f] # NoRow, rows'[f].status = "SENT"
             PROVE  \E q \in Replies : reply[q] = "confirmed_sent"
  BY DEF RetiredAfterConfirmation
<1>1. CASE rows'[f] = rows[f]
  BY <1>1 DEF SendInv, RetiredAfterConfirmation
<1>2. CASE rows'[f] # rows[f]
  <2>1. PICK t \in Threads : Insert(t) \/ Commit(t)
    BY <1>2
       DEF Next, TakeUp, Step, vars, rowVars, GuestWrites, OwnerWrites, LateArrival,
           Submit, Deny, Refresh, Regenerate, Edit, Approve, Skip, Conclude, Draft,
           Select, Replace, EditDraft, SendBefore, Post, Verify, Settle, MarkSent, Crash
  <2>2. /\ rows \in [States -> Row \cup {NoRow}] /\ out[t] \in Row /\ InHand(t)
        /\ pc[t] \in {"insert"} \cup Commits
    BY <2>1 DEF TypeOK, AtWork, Commits, Insert, Commit, StoreInv
  <2>3. f = fp[t]
    BY <1>2, <2>1, <2>2 DEF Insert, Commit, rowVars
  <2>4. CASE Insert(t)
    BY <1>2, <2>2, <2>3, <2>4 DEF Insert, InHand, rowVars
  <2>5. CASE Commit(t)
    <3>1. /\ rows[f] \in Row /\ loaded[t] \in Row /\ pc[t] \in Commits
          /\ rows'[f] = Updated(rows[f], loaded[t], out[t])
      BY <2>2, <2>3, <2>5 DEF Commit, TypeOK, AtWork
    <3>2. rows[f].status = "SENT" \/ out[t].status = "SENT"
      BY <2>2, <3>1, UpdatedRow
    <3>3. CASE rows[f].status = "SENT"
      BY <3>1, <3>3, NoRowAssumption DEF SendInv, RetiredAfterConfirmation
    <3>4. CASE out[t].status = "SENT"
      <4>1. pc[t] = "retire"
        BY <2>2, <3>1, <3>4 DEF InHand, Commits
      <4> QED BY <4>1 DEF SendInv, Sends, SendsOnce, TypeOK, AtWork
    <3> QED BY <3>2, <3>3, <3>4
  <2> QED BY <2>1, <2>4, <2>5
<1> QED BY <1>1, <1>2

LEMMA SendSteps ==
  ASSUME TypeOK, Grows, Sends, NEW t \in Threads,
         SendBefore(t) \/ Post(t) \/ Verify(t)
  PROVE  Sends'
<1>1. /\ Sending(t) /\ rep[t] \in Replies /\ words' = words /\ since' = since
      /\ pc[t] # "verify" => rep[t] \notin arrived \cup onTheWay
      /\ arrived \cap onTheWay = {}
  BY DEF SendBefore, Post, Verify, Sending, TypeOK, AtWork, Sends, SendsOnce, replyVars
<1>2. ASSUME Leave(t)
      PROVE  /\ pc'[t] = "idle"
             /\ \A u \in Threads \ {t} : pc'[u] = pc[u] /\ rep'[u] = rep[u] /\ fp'[u] = fp[u]
  BY <1>2 DEF Leave, TypeOK
<1>3. ASSUME NEW step, Goto(t, step), rep' = rep
      PROVE  /\ pc'[t] = step
             /\ \A u \in Threads \ {t} : pc'[u] = pc[u] /\ rep'[u] = rep[u]
  BY <1>3 DEF Goto, TypeOK
<1>4. CASE SendBefore(t)
  <2>1. /\ UNCHANGED <<onTheWay, arrived>> /\ pc[t] = "before"
        /\ \/ Outcome(t, "confirmed_failed") /\ Leave(t)
           \/ /\ Goto(t, "post") /\ rep' = rep /\ UNCHANGED replyVars
              /\ fp' = [fp EXCEPT ![t] = Now]
    BY <1>4 DEF SendBefore, guestVars
  <2>2. CASE Outcome(t, "confirmed_failed") /\ Leave(t)
    BY <1>1, <1>2, <2>1, <2>2, ReplyEnds DEF SendStatus
  <2>3. CASE /\ Goto(t, "post") /\ rep' = rep /\ UNCHANGED replyVars
             /\ fp' = [fp EXCEPT ![t] = Now]
    <3>1. /\ pc'[t] = "post" /\ fp'[t] = Now
          /\ \A u \in Threads \ {t} : pc'[u] = pc[u] /\ fp'[u] = fp[u]
      BY <1>3, <2>3 DEF TypeOK
    <3> QED BY <2>1, <2>3, <3>1, RepliesKept
  <2> QED BY <2>1, <2>2, <2>3
<1>5. CASE Post(t)
  <2>1. CASE Refused(t) /\ Leave(t)
    <3>1. Outcome(t, "confirmed_failed") /\ UNCHANGED <<onTheWay, arrived>> /\ pc[t] = "post"
      BY <1>5, <2>1 DEF Post, Refused, guestVars
    <3> QED BY <1>1, <1>2, <2>1, <3>1, ReplyEnds DEF SendStatus
  <2>2. CASE Unanswered5xx(t) /\ Leave(t)
    <3>1. /\ Outcome(t, "unknown_send_state")
          /\ arrived' \cup onTheWay' = arrived \cup onTheWay \cup {rep[t]}
          /\ arrived' \cap onTheWay' = {}
      <4>1. rep[t] \notin arrived \cup onTheWay
        BY <1>1, <1>5 DEF Post
      <4> QED BY <1>1, <2>2, <4>1 DEF Unanswered5xx, Ambiguous, Delivered
    <3> QED BY <1>1, <1>2, <2>2, <3>1, ReplyEnds DEF SendStatus
  <2>3. CASE Ambiguous(rep[t]) /\ Goto(t, "verify") /\ UNCHANGED <<reply, locals>>
    BY <1>1, <1>5, <2>3, ReplyGoesOn
  <2> QED BY <1>5, <2>1, <2>2, <2>3 DEF Post
<1>6. CASE Verify(t)
  <2>1. UNCHANGED <<thread, onTheWay, arrived>>
    BY <1>6 DEF Verify, guestVars
  <2>2. CASE Outcome(t, "unknown_send_state") /\ Leave(t)
    BY <1>1, <1>2, <2>1, <2>2, ReplyEnds DEF SendStatus
  <2>3. CASE /\ Matches(t) # {} /\ Outcome(t, "confirmed_sent")
             /\ Goto(t, "settle") /\ UNCHANGED locals
    <3>1. rep' = rep /\ fp' = fp
      BY <2>3 DEF locals
    <3>2. PICK k \in fp[t] + 1 .. Now : thread[k] = words[rep[t]]
      BY <2>3 DEF Matches
    <3>3. since[rep[t]] <= fp[t]
      BY <1>6 DEF Verify, Sends, SendsOnce
    <3>4. since[rep[t]] \in Nat /\ fp[t] \in Nat /\ Now \in Nat
      BY <1>1, TypesOfReplies
    <3>5. IsSeen(rep[t])
      <4>1. k \in since[rep[t]] + 1 .. Now
        BY <3>3, <3>4
      <4> QED BY <3>2, <4>1 DEF IsSeen
    <3> QED BY <1>1, <1>3, <2>1, <2>3, <3>1, <3>5, ReplyEnds DEF SendStatus
  <2> QED BY <1>6, <2>2, <2>3 DEF Verify
<1> QED BY <1>4, <1>5, <1>6

\* The other steps of a thread.
LEMMA OtherSteps ==
  ASSUME TypeOK, Grows, Sends, NEW t \in Threads,
         \/ Refresh(t) \/ Regenerate(t) \/ Edit(t) \/ Crash(t)
         \/ Skip(t) \/ Conclude(t) \/ Draft(t)
         \/ Select(t) \/ Insert(t) \/ Replace(t) \/ Commit(t)
         \/ EditDraft(t) \/ Settle(t) \/ MarkSent(t)
  PROVE  Sends'
<1>1. UNCHANGED <<replyVars, onTheWay, arrived>>
  BY DEF Refresh, Regenerate, Edit, Crash, Skip, Conclude, Draft, Select, Insert,
         Replace, Commit, EditDraft, Settle, MarkSent, guestVars
<1>2. \/ Leave(t)
      \/ \E step \in {"check", "select", "insert", "replace", "edit"} \cup (Commits \ {"retire"}) :
           Goto(t, step) /\ rep' = rep
           /\ \A u \in Threads \ {t} : fp'[u] = fp[u]
      \/ pc[t] = "settle" /\ Goto(t, "mark") /\ rep' = rep
           /\ \A u \in Threads \ {t} : fp'[u] = fp[u]
      \/ pc[t] = "mark" /\ Goto(t, "retire") /\ rep' = rep
           /\ \A u \in Threads \ {t} : fp'[u] = fp[u]
  BY DEF Refresh, Regenerate, Edit, Crash, Skip, Conclude, Draft, Select, Insert,
         Replace, Commit, EditDraft, Settle, MarkSent, Commits, locals, TypeOK
<1>3. \A u \in Threads :
        \/ pc'[u] \notin AtReply
        \/ rep'[u] = rep[u]
             /\ \/ pc'[u] = pc[u] /\ fp'[u] = fp[u]
                \/ pc[u] = "before" /\ pc'[u] = "post" /\ fp'[u] = Now
                \/ pc[u] = "settle" /\ pc'[u] = "mark"
                \/ pc[u] = "mark" /\ pc'[u] = "retire"
  BY <1>2 DEF Leave, Goto, AtReply, Commits, TypeOK
<1> QED BY <1>1, <1>3, RepliesKept

LEMMA StepSendInv ==
  ASSUME TypeOK, StoreInv, SendInv, [Next]_vars
  PROVE  SendInv'
<1>1. Grows
  BY ThreadGrows
<1>2. Sends'
  <2>1. CASE GuestWrites \/ OwnerWrites \/ UNCHANGED vars
    <3>1. UNCHANGED <<replyVars, onTheWay, arrived, pc, rep, fp>>
      BY <2>1 DEF GuestWrites, OwnerWrites, vars, guestVars, replyVars, locals
    <3> QED BY <1>1, <3>1, RepliesKept DEF SendInv
  <2>2. CASE \E r \in Replies : LateArrival(r) \/ Submit(r) \/ Deny(r)
    BY <1>1, <2>2, ReplyGoesOn DEF SendInv
  <2>3. ASSUME NEW t \in Threads, TakeUp(t) \/ Step(t) \/ Crash(t)
        PROVE  Sends'
    BY <1>1, <2>3, ReplyGoesOn, SendSteps, OtherSteps DEF SendInv, TakeUp, Step
  <2> QED BY <2>1, <2>2, <2>3 DEF Next
<1>3. \A q \in Replies : reply[q] = "confirmed_sent" => reply'[q] = "confirmed_sent"
  <2> SUFFICES ASSUME NEW q \in Replies, reply[q] = "confirmed_sent", reply'[q] # reply[q]
               PROVE  FALSE
    OBVIOUS
  <2>1. /\ reply \in [Replies -> {"none", "parked", "denied", "approved"} \cup SendStatus]
        /\ \A t \in Threads : Sending(t) => rep[t] \in Replies /\ reply[rep[t]] = "approved"
    BY DEF TypeOK, AtWork, SendInv, Sends, SendsOnce, Sending
  <2>2. ASSUME NEW t \in Threads, NEW result, Sending(t), Outcome(t, result) PROVE FALSE
    BY <2>1, <2>2 DEF Outcome
  <2>3. ASSUME NEW r \in Replies,
               Submit(r) \/ Deny(r) \/ \E t \in Threads : Approve(t, r)
        PROVE  FALSE
    BY <2>1, <2>3 DEF Submit, Deny, Approve
  <2>4. ASSUME NEW t \in Threads, SendBefore(t) \/ Post(t) \/ Verify(t) PROVE FALSE
    BY <2>2, <2>4
       DEF SendBefore, Post, Verify, Refused, Unanswered5xx, Sending, replyVars
  <2> QED
    BY <2>3, <2>4
       DEF Next, TakeUp, Step, vars, replyVars, GuestWrites, OwnerWrites, LateArrival,
           Refresh, Regenerate, Edit, Skip, Conclude, Draft, Select, Insert, Replace,
           Commit, EditDraft, Settle, MarkSent, Crash
<1>4. RetiredAfterConfirmation'
  BY <1>3, Retiring
<1> QED BY <1>2, <1>4 DEF SendInv

LEMMA SendInvariant == Spec => [](TypeOK /\ StoreInv /\ SendInv)
BY InitTypeOK, StepTypeOK, InitStoreInv, StepStoreInv, InitSendInv, StepSendInv,
   PTL DEF Spec

\* What a send reports is so: nothing that is said to have failed, or was never
\* granted, reaches the guest, and what is said to be sent is in the thread.
THEOREM OutcomesHonest == Spec => []OutcomesAreHonest
<1>1. SendInv => OutcomesAreHonest
  BY DEF SendInv, Sends
<1> QED BY <1>1, SendInvariant, PTL

\* A draft is retired only if some reply was confirmed to be sent.
THEOREM RetiredConfirmed == Spec => []RetiredAfterConfirmation
<1>1. SendInv => RetiredAfterConfirmation
  BY DEF SendInv
<1> QED BY <1>1, SendInvariant, PTL

-----------------------------------------------------------------------------
(* The desk delivers replies: it implements ReplyDelivery.                  *)

Posts == [r \in Replies |-> PostOf(r)]

LEMMA InitDelivery == Init => Delivery!Init
<1> SUFFICES ASSUME Init PROVE Delivery!Init
  OBVIOUS
<1>1. thread \in {<<m>> : m \in Message}
  BY DEF Init, Message
<1>2. Posts = [r \in Replies |-> "unsent"]
  BY DEF Init, Posts, PostOf
<1>3. Retired = {}
  BY DEF Init, Retired
<1> QED BY <1>1, <1>2, <1>3 DEF Init, Delivery!Init, Posts

\* What a step of the delivery leaves alone.
LEMMA Stay ==
  /\ UNCHANGED <<arrived, onTheWay>> => Posts' = Posts
  /\ rows' = rows => Retired' = Retired
BY DEF Posts, PostOf, Retired

\* A POST that is not answered has reached the guest, or may do so later.
LEMMA Posted ==
  ASSUME NEW r \in Replies, r \notin arrived \cup onTheWay, Ambiguous(r)
  PROVE  /\ Posts[r] = "unsent"
         /\ \/ Delivery!Say(words[r]) /\ Posts' = [Posts EXCEPT ![r] = "reached"]
            \/ UNCHANGED thread /\ Posts' = [Posts EXCEPT ![r] = "flying"]
<1>1. Posts[r] = "unsent"
  BY DEF Posts, PostOf
<1>2. CASE Delivered(r) /\ UNCHANGED onTheWay
  <2>1. Posts' = [Posts EXCEPT ![r] = "reached"]
    BY <1>2 DEF Delivered, Posts, PostOf
  <2> QED BY <1>1, <1>2, <2>1 DEF Delivered, Delivery!Say
<1>3. CASE onTheWay' = onTheWay \cup {r} /\ UNCHANGED <<thread, arrived>>
  <2>1. Posts' = [Posts EXCEPT ![r] = "flying"]
    BY <1>3 DEF Posts, PostOf
  <2> QED BY <1>1, <1>3, <2>1
<1> QED BY <1>1, <1>2, <1>3 DEF Ambiguous

\* What happens to the conversation, and people's decisions.
LEMMA DeskDelivered ==
  ASSUME TypeOK, SendInv,
         \/ GuestWrites \/ OwnerWrites
         \/ \E r \in Replies : LateArrival(r) \/ Submit(r) \/ Deny(r)
         \/ \E t \in Threads, r \in Replies : Approve(t, r)
  PROVE  Delivery!Next
<1> USE DEF rowVars, Now
<1>1. CASE GuestWrites \/ OwnerWrites
  <2>1. UNCHANGED <<reply, words, since, rows, arrived, onTheWay>>
    BY <1>1 DEF GuestWrites, OwnerWrites, replyVars
  <2>2. \E m \in Message : Delivery!Say(m)
    BY <1>1 DEF GuestWrites, OwnerWrites, Message, Texts, Delivery!Say
  <2>3. Delivery!SomebodyWrites
    BY <2>1, <2>2, Stay DEF Delivery!SomebodyWrites, Posts
  <2> QED BY <2>3 DEF Delivery!Next
<1>2. ASSUME NEW r \in Replies, LateArrival(r) PROVE Delivery!Next
  <2>1. r \in onTheWay /\ r \notin arrived
    BY <1>2 DEF LateArrival, SendInv, Sends
  <2>2. Posts[r] = "flying"
    BY <2>1 DEF Posts, PostOf
  <2>3. Posts' = [Posts EXCEPT ![r] = "reached"]
    BY <1>2, <2>1 DEF LateArrival, Delivered, Posts, PostOf
  <2>4. /\ Delivery!Say(words[r])
        /\ UNCHANGED <<reply, words, since, rows>>
    BY <1>2 DEF LateArrival, Delivered, replyVars, Delivery!Say
  <2>5. Delivery!Arrive(r)
    BY <2>2, <2>3, <2>4, Stay DEF Delivery!Arrive, Posts
  <2> QED BY <2>5 DEF Delivery!Next
<1>3. ASSUME NEW r \in Replies, Submit(r) PROVE Delivery!Next
  <2>1. UNCHANGED <<thread, since, rows, arrived, onTheWay>>
    BY <1>3 DEF Submit, guestVars
  <2>2. Delivery!Submit(r)
    BY <1>3, <2>1, Stay DEF Submit, Delivery!Submit, Delivery!Stand, Posts
  <2> QED BY <2>2 DEF Delivery!Next
<1>4. ASSUME NEW r \in Replies, Deny(r) PROVE Delivery!Next
  <2>1. UNCHANGED <<thread, words, since, rows, arrived, onTheWay>>
    BY <1>4 DEF Deny, guestVars
  <2>2. Delivery!Deny(r)
    BY <1>4, <2>1, Stay DEF Deny, Delivery!Deny, Delivery!Stand, Posts
  <2> QED BY <2>2 DEF Delivery!Next
<1>5. ASSUME NEW t \in Threads, NEW r \in Replies, Approve(t, r) PROVE Delivery!Next
  <2>1. UNCHANGED <<thread, words, rows, arrived, onTheWay>>
    BY <1>5 DEF Approve, guestVars
  <2>2. Delivery!Grant(r)
    BY <1>5, <2>1, Stay DEF Approve, Delivery!Grant, Delivery!Stand, Posts
  <2> QED BY <2>2 DEF Delivery!Next
<1> QED BY <1>1, <1>2, <1>3, <1>4, <1>5

\* The one send of a granted reply, and what is reported of it.
LEMMA SendDelivered ==
  ASSUME TypeOK, SendInv, NEW t \in Threads, SendBefore(t) \/ Post(t) \/ Verify(t)
  PROVE  [Delivery!Next]_(Delivery!vars)
<1> DEFINE r == rep[t]
<1>1. /\ r \in Replies /\ reply[r] = "approved"
      /\ pc[t] \in {"before", "post"} => r \notin arrived \cup onTheWay
      /\ pc[t] = "verify" => r \in arrived \cup onTheWay /\ since[r] <= fp[t]
  BY DEF SendBefore, Post, Verify, Sending, TypeOK, AtWork, SendInv, Sends, SendsOnce
<1>2. /\ UNCHANGED <<words, since, rows>>
      /\ pc[t] \in {"before", "post"} => Posts[r] = "unsent"
      /\ pc[t] = "verify" => Posts[r] # "unsent"
  BY <1>1 DEF SendBefore, Post, Verify, replyVars, rowVars, Posts, PostOf
<1>3. ASSUME NEW result, Outcome(t, result)
      PROVE  Delivery!Stand(r, "approved", result)
  BY <1>1, <1>3 DEF Outcome, Delivery!Stand
<1>4. ASSUME Outcome(t, "confirmed_failed"), UNCHANGED guestVars, Posts[r] = "unsent"
      PROVE  Delivery!Next
  <2>1. Delivery!Fail(r)
    BY <1>2, <1>3, <1>4, Stay DEF guestVars, Delivery!Fail, Posts
  <2> QED BY <1>1, <2>1 DEF Delivery!Next
<1>5. CASE SendBefore(t)
  <2>1. CASE Outcome(t, "confirmed_failed")
    BY <1>2, <1>4, <1>5, <2>1 DEF SendBefore
  <2>2. CASE UNCHANGED replyVars
    <3>1. UNCHANGED <<thread, arrived, onTheWay, reply>>
      BY <1>5, <2>2 DEF SendBefore, guestVars, replyVars
    <3> QED BY <1>2, <3>1, Stay DEF Delivery!vars, Posts
  <2> QED BY <1>5, <2>1, <2>2 DEF SendBefore
<1>6. CASE Post(t)
  <2>1. CASE Refused(t)
    BY <1>2, <1>4, <1>6, <2>1 DEF Post, Refused
  <2>2. CASE ~Refused(t)
    <3>1. Ambiguous(r)
      BY <1>6, <2>2 DEF Post, Unanswered5xx
    <3>2. \/ Delivery!Stand(r, "approved", "approved")
          \/ Delivery!Stand(r, "approved", "unknown_send_state")
      <4>1. CASE Outcome(t, "unknown_send_state")
        BY <1>3, <4>1
      <4>2. CASE reply' = reply
        BY <1>1, <4>2 DEF Delivery!Stand, TypeOK
      <4> QED BY <1>6, <2>2, <4>1, <4>2 DEF Post, Unanswered5xx
    <3>3. /\ r \notin arrived \cup onTheWay
          /\ Posts[r] = "unsent"
      BY <1>1, <1>2, <1>6 DEF Post
    <3>4. \/ Delivery!Say(words[r]) /\ Posts' = [Posts EXCEPT ![r] = "reached"]
          \/ UNCHANGED thread /\ Posts' = [Posts EXCEPT ![r] = "flying"]
      BY <1>1, <3>1, <3>3, Posted
    <3>5. Delivery!Post(r)
      BY <1>2, <3>2, <3>3, <3>4, Stay DEF Delivery!Post, Posts
    <3> QED BY <1>1, <3>5 DEF Delivery!Next
  <2> QED BY <2>1, <2>2
<1>7. CASE Verify(t)
  <2>1. UNCHANGED <<thread, arrived, onTheWay>> /\ Posts[r] # "unsent"
    BY <1>2, <1>7 DEF Verify, guestVars
  <2>2. \/ Delivery!Stand(r, "approved", "unknown_send_state")
        \/ Delivery!Stand(r, "approved", "confirmed_sent") /\ Delivery!IsSeen(r)
    <3>1. CASE Outcome(t, "unknown_send_state")
      BY <1>3, <3>1
    <3>2. CASE Matches(t) # {} /\ Outcome(t, "confirmed_sent")
      <4>1. PICK k \in fp[t] + 1 .. Now : thread[k] = words[r]
        BY <3>2 DEF Matches
      <4>2. since[r] \in Nat /\ fp[t] \in Nat /\ Now \in Nat /\ since[r] <= fp[t]
        BY <1>1, <1>7, TypesOfReplies DEF Verify
      <4>3. k \in since[r] + 1 .. Now
        BY <4>2
      <4>4. Delivery!IsSeen(r)
        BY <4>1, <4>3 DEF Delivery!IsSeen, Now
      <4> QED BY <1>3, <3>2, <4>4
    <3> QED BY <1>7, <3>1, <3>2 DEF Verify
  <2>3. Delivery!Report(r)
    BY <1>2, <2>1, <2>2, Stay DEF Delivery!Report, Posts
  <2> QED BY <1>1, <2>3 DEF Delivery!Next
<1> QED BY <1>5, <1>6, <1>7

\* A session that stores a row retires a draft for a confirmed send, or brings
\* one back, or does neither.
LEMMA StoreDelivered ==
  ASSUME TypeOK, StoreInv, SendInv, NEW t \in Threads, Insert(t) \/ Commit(t)
  PROVE  [Delivery!Next]_(Delivery!vars)
<1> DEFINE f == fp[t]
<1>1. /\ UNCHANGED <<thread, arrived, onTheWay, reply, words, since>>
      /\ Posts' = Posts
  BY Stay DEF Insert, Commit, guestVars, replyVars
<1>2. ASSUME Retired' = Retired PROVE UNCHANGED Delivery!vars
  BY <1>1, <1>2 DEF Delivery!vars, Posts
<1>3. /\ rows \in [States -> Row \cup {NoRow}] /\ out[t] \in Row /\ InHand(t)
      /\ f \in 1 .. Len(thread) /\ f \in States
  <2>1. Len(thread) \in 1 .. MaxMessages /\ MaxMessages \in Nat
    BY RepliesAssumption DEF TypeOK, States, Now
  <2> QED BY <2>1 DEF TypeOK, AtWork, Commits, Insert, Commit, StoreInv, Now, States
<1>4. CASE Insert(t)
  <2>1. out[t].status # "SENT"
    BY <1>3, <1>4 DEF Insert, InHand
  <2>2. Retired' = Retired
    BY <1>3, <1>4, <2>1 DEF Insert, Retired, rowVars
  <2> QED BY <1>2, <2>2
<1>5. CASE Commit(t)
  <2>1. /\ rows[f] \in Row /\ loaded[t] \in Row /\ pc[t] \in Commits
        /\ rows' = [rows EXCEPT ![f] = Updated(rows[f], loaded[t], out[t])]
    BY <1>3, <1>5 DEF Commit, TypeOK, AtWork
  <2>2. /\ rows'[f] \in Row
        /\ rows'[f].status \in {rows[f].status, out[t].status}
        /\ \A g \in States \ {f} : rows'[g] = rows[g]
    BY <1>3, <2>1, UpdatedRow
  <2>3. rows[f] # NoRow /\ rows'[f] # NoRow
    BY <2>1, <2>2, NoRowAssumption
  <2>4. CASE rows'[f].status = rows[f].status
    <3>1. Retired' = Retired
      BY <1>3, <2>2, <2>3, <2>4 DEF Retired
    <3> QED BY <1>2, <3>1
  <2>5. CASE rows'[f].status = "SENT" /\ rows[f].status # "SENT"
    <3>1. Retired' = Retired \cup {f}
      BY <1>3, <2>2, <2>3, <2>5 DEF Retired
    <3>2. pc[t] = "retire"
      BY <1>3, <2>1, <2>2, <2>5 DEF InHand, Commits
    <3>3. \E r \in Replies : reply[r] = "confirmed_sent"
      BY <3>2 DEF SendInv, Sends, SendsOnce, TypeOK, AtWork
    <3>4. Delivery!Retire(f)
      BY <1>1, <3>1, <3>3 DEF Delivery!Retire, Posts
    <3> QED BY <1>3, <3>4 DEF Delivery!Next
  <2>6. CASE rows'[f].status # "SENT" /\ rows[f].status = "SENT"
    <3>1. Retired' = Retired \ {f}
      BY <1>3, <2>2, <2>3, <2>6 DEF Retired
    <3>2. Delivery!Redo(f)
      BY <1>1, <3>1 DEF Delivery!Redo, Posts
    <3> QED BY <1>3, <3>2 DEF Delivery!Next
  <2>7. CASE rows'[f].status # "SENT" /\ rows[f].status # "SENT"
    <3>1. Retired' = Retired
      BY <1>3, <2>2, <2>3, <2>7 DEF Retired
    <3> QED BY <1>2, <3>1
  <2> QED BY <2>4, <2>5, <2>6, <2>7
<1> QED BY <1>4, <1>5

LEMMA StepsDelivered ==
  ASSUME TypeOK, StoreInv, SendInv, [Next]_vars
  PROVE  [Delivery!Next]_(Delivery!vars)
<1>1. ASSUME UNCHANGED <<guestVars, replyVars, rows>>
      PROVE  [Delivery!Next]_(Delivery!vars)
  BY <1>1, Stay DEF guestVars, replyVars, Delivery!vars, Posts
<1>2. CASE \/ GuestWrites \/ OwnerWrites
           \/ \E r \in Replies : LateArrival(r) \/ Submit(r) \/ Deny(r)
  BY <1>2, DeskDelivered
<1>3. ASSUME NEW t \in Threads, TakeUp(t)
      PROVE  [Delivery!Next]_(Delivery!vars)
  <2>1. ASSUME NEW r \in Replies, Approve(t, r) PROVE Delivery!Next
    BY <2>1, DeskDelivered
  <2> QED BY <1>1, <1>3, <2>1 DEF TakeUp, Refresh, Regenerate, Edit, rowVars
<1>4. ASSUME NEW t \in Threads, Step(t) \/ Crash(t)
      PROVE  [Delivery!Next]_(Delivery!vars)
  <2>1. CASE SendBefore(t) \/ Post(t) \/ Verify(t)
    BY <2>1, SendDelivered
  <2>2. CASE Insert(t) \/ Commit(t)
    BY <2>2, StoreDelivered
  <2>3. CASE \/ Skip(t) \/ Conclude(t) \/ Draft(t) \/ Select(t) \/ Replace(t)
             \/ EditDraft(t) \/ Settle(t) \/ MarkSent(t) \/ Crash(t)
    BY <1>1, <2>3
       DEF Skip, Conclude, Draft, Select, Replace, EditDraft, Settle, MarkSent,
           Crash, rowVars
  <2> QED BY <1>4, <2>1, <2>2, <2>3 DEF Step
<1>5. CASE UNCHANGED vars
  BY <1>1, <1>5 DEF vars, rowVars
<1> QED BY <1>2, <1>3, <1>4, <1>5 DEF Next

\* The desk keeps what ReplyDelivery promises of each reply: one grant, one
\* POST, words that reach the guest once at most, a report that is so and
\* stays so, and a draft that is retired for a confirmed send alone.
THEOREM RepliesDelivered == Spec => ImplementsReplyDelivery
BY InitDelivery, SendInvariant, StepsDelivered, PTL
   DEF Spec, ImplementsReplyDelivery, Delivery!Spec
=============================================================================
