-------------------------- MODULE HistoricalReplies --------------------------
(***************************************************************************)
(* What the archive of threads teaches (historical_replies.py): a guest's  *)
(* turn and our answer to it become an example, identified by its content  *)
(* and its day. A message is                                               *)
(*   [from, words, day, template]                                          *)
(* its words being what redaction leaves of it, and template telling the   *)
(* provider's own mail by its subject. Texts are within MAX_TEXT_LENGTH.   *)
(***************************************************************************)
EXTENDS Integers, Sequences, SequencesExt

CONSTANT ShortWords  \* words of one or two letters

\* A text of fewer than MIN_TEXT_LENGTH characters.
TooShort(text) == text = << >> \/ (Len(text) = 1 /\ text[1] \in ShortWords)

\* The end of the run of one sender's messages that begins at i; i - 1 if the
\* message at i is another's.
RunEnd(thread, i, sender) ==
  CHOOSE j \in i - 1 .. Len(thread) :
    /\ \A k \in i .. j : thread[k].from = sender
    /\ j < Len(thread) => thread[j + 1].from # sender

TurnsOf(thread) ==
  {i \in DOMAIN thread : /\ thread[i].from = "Renter"
                         /\ i > 1 => thread[i - 1].from # "Renter"}

Text(messages) == FlattenSeq([i \in DOMAIN messages |-> messages[i].words])

\* Mutant: the provider's mail is read as our voice.
OwnWordsOfAll(messages) == messages

\* is_system_message: the provider's own mail has no words of ours.
OwnWords(messages) ==
  [i \in DOMAIN messages |-> IF messages[i].template THEN [messages[i] EXCEPT !.words = << >>]
                                                     ELSE messages[i]]

\* The day of the first message that has words.
DayOf(messages) ==
  IF Text(messages) = << >> THEN 0
  ELSE messages[Min({i \in DOMAIN messages : messages[i].words # << >>})].day

\* Mutant: our answer runs on to the end of the thread.
ExchangeToTheEnd(thread, i) ==
  LET asked == SubSeq(thread, i, RunEnd(thread, i, "Renter"))
      later == SubSeq(thread, RunEnd(thread, i, "Renter") + 1, Len(thread))
  IN  [asked    |-> Text(asked),
       answered |-> Text(OwnWords(SelectSeq(later, LAMBDA m : m.from = "Owner"))),
       day      |-> DayOf(asked)]

\* One turn of extract_exchanges' loop; the record is the fingerprint's material.
Exchange(thread, i) ==
  LET g == RunEnd(thread, i, "Renter")
      asked == SubSeq(thread, i, g)
      reply == SubSeq(thread, g + 1, RunEnd(thread, g + 1, "Owner"))
  IN  [asked    |-> Text(asked),
       answered |-> Text(OwnWords(reply)),
       day      |-> DayOf(asked)]

\* extract_exchanges; what is equal is one row, in the list and in the table.
Exchanges(thread) ==
  {e \in {Exchange(thread, i) : i \in TurnsOf(thread)} :
     ~TooShort(e.asked) /\ ~TooShort(e.answered)}
==============================================================================
