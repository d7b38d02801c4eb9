--------------------------- MODULE ReplyDelivery ---------------------------
(***************************************************************************)
(* What the Inbox promises about the replies it is given to send, whatever *)
(* threads, people and the provider do around them: a reply is granted     *)
(* once and posted once, its words reach the guest once at most, what is   *)
(* reported of it is so and stays so, and a draft is retired for a reply   *)
(* that is known to have been sent.                                        *)
(***************************************************************************)
EXTENDS Naturals, Sequences

CONSTANTS Replies, Message, Texts

VARIABLES thread,    \* the conversation
          standing,  \* of each reply, with the outcome reported
          words,     \* its text
          since,     \* the length of the conversation when it was granted
          post,      \* its POST: unsent, flying or reached
          retired    \* the states of the conversation whose draft is retired

vars == <<thread, standing, words, since, post, retired>>

Init ==
  /\ thread \in {<<m>> : m \in Message}
  /\ standing = [r \in Replies |-> "none"]
  /\ DOMAIN words = Replies
  /\ since = [r \in Replies |-> 0]
  /\ post = [r \in Replies |-> "unsent"]
  /\ retired = {}

Say(m) == thread' = Append(thread, m)
Stand(r, from, to) ==
  /\ standing[r] = from
  /\ standing' = [standing EXCEPT ![r] = to]

\* The guest, or the owner, writes.
SomebodyWrites ==
  /\ \E m \in Message : Say(m)
  /\ UNCHANGED <<standing, words, since, post, retired>>

Submit(r) ==
  /\ Stand(r, "none", "parked")
  /\ \E m \in Texts : words' = [words EXCEPT ![r] = m]
  /\ UNCHANGED <<thread, since, post, retired>>

Deny(r) ==
  /\ Stand(r, "parked", "denied")
  /\ UNCHANGED <<thread, words, since, post, retired>>

Grant(r) ==
  /\ Stand(r, "parked", "approved")
  /\ since' = [since EXCEPT ![r] = Len(thread)]
  /\ UNCHANGED <<thread, words, post, retired>>

\* Nothing was posted, and nothing will be.
Fail(r) ==
  /\ post[r] = "unsent"
  /\ Stand(r, "approved", "confirmed_failed")
  /\ UNCHANGED <<thread, words, since, post, retired>>

\* The one POST of a granted reply. It reaches the guest, or nobody knows; the
\* answer tells it at once to be unknown, or is still to be verified.
Post(r) ==
  /\ post[r] = "unsent"
  /\ Stand(r, "approved", "approved") \/ Stand(r, "approved", "unknown_send_state")
  /\ \/ Say(words[r]) /\ post' = [post EXCEPT ![r] = "reached"]
     \/ UNCHANGED thread /\ post' = [post EXCEPT ![r] = "flying"]
  /\ UNCHANGED <<words, since, retired>>

Arrive(r) ==
  /\ post[r] = "flying"
  /\ Say(words[r])
  /\ post' = [post EXCEPT ![r] = "reached"]
  /\ UNCHANGED <<standing, words, since, retired>>

\* The words came into the conversation after they were granted.
IsSeen(r) == \E k \in since[r] + 1 .. Len(thread) : thread[k] = words[r]

Report(r) ==
  /\ post[r] # "unsent"
  /\ \/ Stand(r, "approved", "unknown_send_state")
     \/ Stand(r, "approved", "confirmed_sent") /\ IsSeen(r)
  /\ UNCHANGED <<thread, words, since, post, retired>>

\* A confirmed send retires the draft of one state; a person can have it redone.
Retire(f) ==
  /\ \E r \in Replies : standing[r] = "confirmed_sent"
  /\ retired' = retired \cup {f}
  /\ UNCHANGED <<thread, standing, words, since, post>>

Redo(f) ==
  /\ retired' = retired \ {f}
  /\ UNCHANGED <<thread, standing, words, since, post>>

Next ==
  \/ SomebodyWrites
  \/ \E r \in Replies :
       \/ Submit(r) \/ Deny(r) \/ Grant(r)
       \/ Fail(r) \/ Post(r) \/ Arrive(r) \/ Report(r)
  \/ \E f \in 1 .. Len(thread) : Retire(f) \/ Redo(f)

Spec == Init /\ [][Next]_vars
=============================================================================
