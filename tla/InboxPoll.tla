------------------------------ MODULE InboxPoll ------------------------------
(***************************************************************************)
(* How the Inbox keeps up with the provider: the activity index (table     *)
(* conversation_activity), the page the console polls (GET /inbox,         *)
(* build_inbox), the refresh it asks for on another cadence (POST          *)
(* /inbox/refresh: prepare_activity_index, then a bounded number of        *)
(* ConversationRefreshService.process), the discovery the two share, and   *)
(* the background task of a webhook (refresh_conversation_safely). The     *)
(* refresh and the task interleave between their provider reads and their  *)
(* writes.                                                                 *)
(*                                                                         *)
(* A conversation's state is the time of its last message, 0 for an empty  *)
(* thread: two conversations never share a time, so times are states,      *)
(* fingerprints and the order of the index at once. What replies are worth *)
(* is GuestReplies' subject: here a state is settled or not.               *)
(***************************************************************************)
EXTENDS Naturals, Sequences, FiniteSets, Functions

CONSTANTS
  Conversations,  \* 1 .. n, in the order of their references
  PageLimit,      \* conversations on a page and in a discovery (limit)
  SeedBatch, SweepSize,
  MaxRefreshPerPoll,
  Unseen,         \* no row in the index; the empty fingerprint in a discovery
  NoDiscovery,
  MaxMessages,    \* bound: messages, in all conversations together
  MaxFaults       \* bound: faults of the provider, restarts, failed draftings,
                  \* and bookings that arrive or leave the current ones

ASSUME InboxAssumption ==
  /\ Conversations \subseteq Nat /\ IsFiniteSet(Conversations)
  /\ {PageLimit, SeedBatch, SweepSize, MaxRefreshPerPoll} \subseteq Nat \ {0}
  /\ {MaxMessages, MaxFaults} \subseteq Nat
  /\ Unseen \notin Nat /\ NoDiscovery \notin Seq(Conversations \X (Nat \cup {Unseen}))

Times == 0 .. MaxMessages
Row == Times \cup {Unseen}
Pair == Conversations \X Row

VARIABLES
  stamp,      \* the provider: when each conversation last moved
  health,     \* ... and how it answers a read of it from now on
  stay,       \* its booking: unknown, current or upcoming (listed), historic
  index,      \* conversation_activity: the last_message_at of each row
  rotation,   \* its rows, by last_refreshed_at, oldest first
  discovery,  \* the DiscoveryCache
  settled,    \* conversation_drafts: the states that have a settled row
  refresh,    \* POST /inbox/refresh at work: its step and what it has read
  task,       \* per conversation, a webhook's background task and what it holds
  messages, faults

providerVars == <<stamp, health, stay, messages>>
indexVars == <<index, rotation>>
vars == <<providerVars, indexVars, discovery, settled, refresh, task, faults>>

Idle == [step |-> "idle"]

Init ==
  /\ stamp = [c \in Conversations |-> 0]
  /\ health = [c \in Conversations |-> "served"]
  /\ stay \in [Conversations -> {"unknown", "listed"}]
  /\ index = [c \in Conversations |-> Unseen]
  /\ rotation = <<>>
  /\ discovery = NoDiscovery
  /\ settled = {}
  /\ refresh = Idle
  /\ task = [c \in Conversations |-> Idle]
  /\ messages = 0 /\ faults = 0

-----------------------------------------------------------------------------
(* What is computed from what was read.                                     *)

Known == {c \in Conversations : index[c] # Unseen}
Listed == {c \in Conversations : stay[c] = "listed"}
Archive == {c \in Conversations : stay[c] # "unknown"}

\* ORDER BY ... LIMIT n: the first n of a set of conversations, in an order that
\* places any two of them. There is one such list.
Ordered(S, before, n) ==
  {list \in [1 .. (IF Cardinality(S) < n THEN Cardinality(S) ELSE n) -> S] :
     \A i \in DOMAIN list :
       /\ \A j \in DOMAIN list : i < j => <<list[i], list[j]>> \in before
       /\ \A c \in S \ Range(list) : <<list[i], c>> \in before}

\* By reference; and as the index has them, newest first.
ByReference == {p \in Conversations \X Conversations : p[1] < p[2]}
ByActivity ==
  {p \in Known \X Known : \/ index[p[1]] > index[p[2]]
                          \/ index[p[1]] = index[p[2]] /\ p[1] < p[2]}

\* ordered_activity: the undated ones last.
OrderedActivity(n) == Ordered(Known, ByActivity, n)

\* _discovery_order: never read first, then as the index orders them.
ByDiscovery ==
  {p \in ByReference : p[1] \notin Known /\ p[2] \notin Known}
  \cup ((Conversations \ Known) \X Known) \cup ByActivity

\* The first n of a list, and what of it is in a set, as it comes.
First(list, n) == SubSeq(list, 1, IF Len(list) < n THEN Len(list) ELSE n)
Keep(list, S) ==
  LET kept[k \in 0 .. Len(list)] ==
        IF k = 0 THEN << >>
        ELSE IF list[k] \in S THEN Append(kept[k - 1], list[k]) ELSE kept[k - 1]
  IN  kept[Len(list)]

\* discovery_from, with the fingerprints the index has.
Pairs(refs) == [i \in 1 .. Len(refs) |-> <<refs[i], index[refs[i]]>>]

\* _supersedes: an empty read is no proof against known activity.
Supersedes(known, fresh) == known \in {Unseen, 0} \/ fresh # 0
\* What a read of a thread yields: 42 threads of the account are served with
\* no messages although they have some.
Live(c) == IF health[c] = "emptied" THEN 0 ELSE stamp[c]

\* _observe: the threads of S that are read, those in `direct` by the booking
\* scan at hand and the others through the archive (summarise_refs). A refused
\* thread is left out, and a fault may leave out any others.
Observations(S, direct) ==
  LET readable == {c \in S \cap (direct \cup Archive) : health[c] # "refused"}
  IN {[c \in R |-> Live(c)] :
        R \in {readable} \cup (IF faults < MaxFaults THEN SUBSET readable ELSE {})}

\* scan_bookings: the current and upcoming bookings; a page that never answers
\* leaves the rest out, and no booking at all is an error.
Scans == {Listed} \cup (IF faults < MaxFaults THEN SUBSET Listed \ {{}} ELSE {})

\* The bound counts a scan or a read that missed something.
Faults(saw, found, S) ==
  IF saw = Listed /\ DOMAIN found = {c \in S \cap Archive : health[c] # "refused"}
  THEN faults ELSE faults + 1

\* The rows that a reading supersedes, of rows as they were when they were read.
Fresh(rows, found) ==
  Keep(rows, {r \in Range(rows) : r[1] \in DOMAIN found /\ Supersedes(r[2], found[r[1]])})

Refs(rows) == [i \in DOMAIN rows |-> rows[i][1]]

\* What an upsert of these rows leaves in the index.
Upserted(rows, found) ==
  [c \in Conversations |-> IF c \in Range(Refs(rows)) THEN found[c] ELSE index[c]]

\* Mutant: an upsert leaves last_refreshed_at as it was.
RememberQuietly(rows, found) ==
  /\ index' = Upserted(rows, found)
  /\ rotation' = rotation \o Keep(Refs(rows), Conversations \ Known)

\* Mutant: an upsert that inserts a row where there may be one.
RememberTwice(rows, found) ==
  /\ index' = Upserted(rows, found)
  /\ rotation' = rotation \o Refs(rows)

\* upsert, of these rows in their order.
Remember(rows, found) ==
  /\ index' = Upserted(rows, found)
  /\ rotation' = Keep(rotation, Known \ Range(Refs(rows))) \o Refs(rows)

\* ConversationRefreshService.process: a thread that cannot be read is left as
\* it is, a state is settled unless it is already or its drafting fails.
Process(c) ==
  IF health[c] = "refused" THEN UNCHANGED <<settled, faults>>
  ELSE \/ settled' = settled \cup {<<c, Live(c)>>} /\ UNCHANGED faults
       \/ /\ <<c, Live(c)>> \notin settled
          /\ faults < MaxFaults /\ faults' = faults + 1
          /\ UNCHANGED settled

-----------------------------------------------------------------------------
(* GET /inbox: build_inbox.                                                 *)

\* The scan, the page and, by _enrich, the threads on it are read; what
\* supersedes the row is remembered; and the page, with what it just learned,
\* becomes the shared discovery. One step: the overlap of two requests is the
\* refresh's, which is split, with the poll.
Poll ==
  \E saw \in Scans, page \in OrderedActivity(PageLimit) :
  \E found \in Observations(Range(page), saw) :
     /\ Remember(Fresh(Pairs(page), found), found)
     /\ discovery' = [i \in DOMAIN page |-> <<page[i], index'[page[i]]>>]
     /\ faults' = Faults(saw, found, Range(page))
     /\ UNCHANGED <<providerVars, settled, refresh, task>>

-----------------------------------------------------------------------------
(* POST /inbox/refresh: prepare_activity_index, discovery, drafting.        *)

\* A cycle seeds conversations that were never read, if there are any, and
\* sweeps the rows that were refreshed least recently otherwise.
Batches(saw) ==
  IF saw \ Known # {} THEN Ordered(saw \ Known, ByReference, SeedBatch)
  ELSE {First(rotation, SweepSize)}

RefreshRead ==
  /\ refresh.step = "idle"
  /\ \E saw \in Scans : \E batch \in Batches(saw) :
     \E found \in Observations(Range(batch), saw) :
       /\ refresh' = [step |-> "write", batch |-> Pairs(batch), found |-> found]
       /\ faults' = Faults(saw, found, Range(batch))
  /\ UNCHANGED <<providerVars, indexVars, discovery, settled, task>>

\* Mutant: a cycle has refreshed every row of its batch, read or not.
RefreshWriteTouched ==
  /\ refresh.step = "write"
  /\ LET fresh == Fresh(refresh.batch, refresh.found)
         touched == Keep(Refs(refresh.batch), Known \cup Range(Refs(fresh)))
     IN  /\ index' = Upserted(fresh, refresh.found)
         /\ rotation' = Keep(rotation, Known \ Range(touched)) \o touched
  /\ refresh' = [step |-> "discover"]
  /\ UNCHANGED <<providerVars, discovery, settled, task, faults>>

\* After the index, the discovery: inbox_discovery.recent, or a scan of the
\* bookings that reads no thread.
RefreshWrite ==
  /\ refresh.step = "write"
  /\ Remember(Fresh(refresh.batch, refresh.found), refresh.found)
  /\ refresh' = [step |-> "discover"]
  /\ UNCHANGED <<providerVars, discovery, settled, task, faults>>

RefreshDiscover ==
  /\ refresh.step = "discover"
  /\ \/ /\ discovery # NoDiscovery
        /\ refresh' = [step |-> "draft", todo |-> discovery, processed |-> 0]
        /\ UNCHANGED <<discovery, faults>>
     \/ /\ discovery = NoDiscovery
        /\ \E saw \in Scans : \E refs \in Ordered(saw, ByDiscovery, PageLimit) :
             /\ discovery' = Pairs(refs)
             /\ refresh' = [step |-> "draft", todo |-> Pairs(refs), processed |-> 0]
             /\ faults' = IF saw = Listed THEN faults ELSE faults + 1
  /\ UNCHANGED <<providerVars, indexVars, settled, task>>

\* Mutant: the settled ones use up the budget too.
DueInBudget(todo) == Keep(First(todo, MaxRefreshPerPoll), Range(todo) \ settled)

\* States that are settled are skipped (for_state, is_settled) ...
Due(todo) == Keep(todo, Range(todo) \ settled)

\* ... and every other one costs the refresh one of its MAX_REFRESH_PER_POLL
\* calls of process.
RefreshDraft ==
  /\ refresh.step = "draft"
  /\ LET due == Due(refresh.todo)
     IN IF due = <<>> \/ refresh.processed >= MaxRefreshPerPoll
        THEN refresh' = Idle /\ UNCHANGED <<settled, faults>>
        ELSE /\ Process(due[1][1])
             /\ refresh' = [refresh EXCEPT !.todo = Tail(due), !.processed = @ + 1]
  /\ UNCHANGED <<providerVars, indexVars, discovery, task>>

-----------------------------------------------------------------------------
(* The webhook's background task.                                           *)

\* refresh_conversation_safely: process, then the thread is read once more
\* (summarise_refs), and then what was read is upserted. Anything in between may
\* be raised, and ends the task.
TaskProcess(c) ==
  /\ task[c].step = "queued"
  /\ Process(c)
  /\ task' \in {[task EXCEPT ![c] = Idle], [task EXCEPT ![c] = [step |-> "read"]]}
  /\ UNCHANGED <<providerVars, indexVars, discovery, refresh>>

TaskRead(c) ==
  /\ task[c].step = "read"
  /\ \/ task' = [task EXCEPT ![c] = Idle]
     \/ /\ health[c] # "refused"
        /\ task' = [task EXCEPT ![c] = [step |-> "upsert", found |-> Live(c)]]
  /\ UNCHANGED <<providerVars, indexVars, discovery, settled, refresh, faults>>

\* Whatever the index has by now.
TaskUpsert(c) ==
  /\ task[c].step = "upsert"
  /\ Remember(<<<<c, index[c]>>>>, [d \in {c} |-> task[c].found])
  /\ task' = [task EXCEPT ![c] = Idle]
  /\ UNCHANGED <<providerVars, discovery, settled, refresh, faults>>

-----------------------------------------------------------------------------
(* The world around.                                                        *)

\* The message's webhook finds its booking (find_by_thread) and starts a task,
\* or is lost; so is one whose conversation still has a task.
GuestWrites(c) ==
  /\ c \in Archive /\ messages < MaxMessages
  /\ messages' = messages + 1
  /\ stamp' = [stamp EXCEPT ![c] = messages + 1]
  /\ \/ UNCHANGED task
     \/ task[c] = Idle /\ task' = [task EXCEPT ![c] = [step |-> "queued"]]
  /\ UNCHANGED <<health, stay, indexVars, discovery, settled, refresh,
                 faults>>

BookingMoves(c) ==
  /\ faults < MaxFaults /\ stay[c] # "historic"
  /\ stay' = [stay EXCEPT ![c] = IF @ = "unknown" THEN "listed" ELSE "historic"]
  /\ faults' = faults + 1
  /\ UNCHANGED <<stamp, health, messages, indexVars, discovery, settled, refresh,
                 task>>

\* A thread the provider stops serving, or serves with no messages.
ThreadGoesDark(c) ==
  /\ faults < MaxFaults /\ health[c] = "served"
  /\ \E h \in {"refused", "emptied"} : health' = [health EXCEPT ![c] = h]
  /\ faults' = faults + 1
  /\ UNCHANGED <<stamp, stay, messages, indexVars, discovery, settled,
                 refresh, task>>

\* DISCOVERY_TTL_SECONDS have passed.
DiscoveryExpires ==
  /\ discovery # NoDiscovery
  /\ discovery' = NoDiscovery
  /\ UNCHANGED <<providerVars, indexVars, settled, refresh, task, faults>>

\* Requests, background tasks and the discovery are in the process's memory.
Restart ==
  /\ faults < MaxFaults /\ faults' = faults + 1
  /\ discovery' = NoDiscovery
  /\ refresh' = Idle
  /\ task' = [c \in Conversations |-> Idle]
  /\ UNCHANGED <<providerVars, indexVars, settled>>

RefreshStep == RefreshRead \/ RefreshWrite \/ RefreshDiscover \/ RefreshDraft

Next ==
  \/ Poll \/ RefreshStep
  \/ \E c \in Conversations :
       \/ TaskProcess(c) \/ TaskRead(c) \/ TaskUpsert(c)
       \/ GuestWrites(c) \/ BookingMoves(c) \/ ThreadGoesDark(c)
  \/ DiscoveryExpires \/ Restart

\* The console asks for a refresh for as long as the Inbox is open, and one that
\* is served goes on; time passes. Nothing is assumed of the polls, and a webhook
\* or its task may always be lost.
Fairness == WF_vars(RefreshStep) /\ WF_vars(DiscoveryExpires)

Spec == Init /\ [][Next]_vars /\ Fairness

-----------------------------------------------------------------------------
\* A list of conversations with what the index had of them; what a reading found;
\* and a refresh at work.
Lists == Seq(Pair)
Findings(S) == [S -> Times]
Refreshes ==
  [step : {"idle", "discover"}]
  \cup [step : {"write"}, batch : Lists,
        found : UNION {Findings(S) : S \in SUBSET Conversations}]
  \cup [step : {"draft"}, todo : Lists, processed : 0 .. MaxRefreshPerPoll]

Tasks == [step : {"idle", "queued", "read"}] \cup [step : {"upsert"}, found : Times]

TypeOK ==
  /\ stamp \in [Conversations -> Times]
  /\ health \in [Conversations -> {"served", "refused", "emptied"}]
  /\ stay \in [Conversations -> {"unknown", "listed", "historic"}]
  /\ index \in [Conversations -> Row]
  /\ rotation \in Seq(Conversations)
  /\ discovery = NoDiscovery \/ discovery \in Lists
  /\ settled \subseteq Conversations \X Times
  /\ refresh \in Refreshes
  /\ task \in [Conversations -> Tasks]
  /\ messages \in 0 .. MaxMessages /\ faults \in 0 .. MaxFaults

\* A list that has no conversation twice and tells nothing the provider has not had.
IsOfThePast(rows) ==
  /\ IsInjective(Refs(rows))
  /\ \A i \in DOMAIN rows : rows[i][2] # Unseen => rows[i][2] <= stamp[rows[i][1]]

\* What the Inbox shows and settles is so, or was. The rotation of the sweep is
\* the index's own rows, each once (conversation_ref is unique), whatever polls,
\* refreshes and webhooks upsert side by side; the index and the shared discovery
\* are never ahead of the provider; no state is settled that a conversation never
\* had; and a discovery is a page at most.
InboxIsSound ==
  /\ IsInjective(rotation) /\ Range(rotation) = Known
  /\ \A c \in Known : index[c] <= stamp[c]
  /\ \A pair \in settled : pair[2] <= stamp[pair[1]]
  /\ discovery # NoDiscovery => IsOfThePast(discovery) /\ Len(discovery) <= PageLimit

\* Who is before whom in the sweep.
Ahead(c, d) ==
  \E i, j \in DOMAIN rotation : i < j /\ rotation[i] = c /\ rotation[j] = d

\* A conversation loses its turn in the sweep only to a reading of it: what the
\* index has of it then is what the provider serves, or what the refresh or
\* the task at work has read (least_recently_refreshed: "takes the oldest slice and
\* comes back for the next one"). Nobody is overtaken by being left out of a reading.
TurnsAreKept ==
  [][\A c, d \in Conversations :
       Ahead(c, d) /\ Ahead(d, c)' =>
         \/ health[c] # "refused" /\ index'[c] = Live(c)
         \/ /\ refresh.step = "write" /\ c \in DOMAIN refresh.found
            /\ index'[c] = refresh.found[c]
         \/ task[c].step = "upsert" /\ index'[c] = task[c].found]_vars

\* A booking the scan lists and that was never read and cannot be: it keeps the
\* cycles at seeding, which always outranks sweeping.
Blocked == \E c \in Listed \ Known : health[c] = "refused"
Dark == {c \in Conversations : health[c] # "served"}

\* Every conversation whose thread is served ends up in the index as it is at
\* the provider, with every webhook lost and on whatever page: while fewer
\* threads than a sweep takes are dark and none of them blocks the seeding, the
\* sweep gets to it (prepare_activity_index, least_recently_refreshed).
EveryoneIsSeen ==
  \A c \in Conversations :
    <>[](/\ health[c] = "served" /\ c \in Listed \cup Known
         /\ ~Blocked /\ Cardinality(Dark) < SweepSize)
      => <>[](index[c] = stamp[c])

OnPage(c) == \E page \in OrderedActivity(PageLimit) : c \in Range(page)

\* A conversation of a current booking that stays on the page ends up with a
\* settled row for its latest state, whatever webhooks, drafting runs and
\* restarts lose, where every thread can be read (refresh_inbox: "polling makes
\* it certain"). A historic one needs more: discover_conversations never finds
\* it, so a poll has to have run just before the refresh.
EveryoneIsAnswered ==
  \A c \in Conversations :
    <>[](/\ c \in Listed /\ OnPage(c)
         /\ \A d \in Conversations : health[d] = "served")
      => <>[](<<c, stamp[c]>> \in settled)

-----------------------------------------------------------------------------
(* What comments say and the program does not keep; the README names the    *)
(* run that shows each.                                                     *)

\* Known activity is never replaced by an empty read: it would sink a historic
\* conversation for good (_supersedes). The webhook's task upserts what it read
\* without asking.
KnownActivityIsKept ==
  [][\A c \in Conversations : index[c] \notin {Unseen, 0} => index'[c] # 0]_vars

\* Every conversation is re-read within one full cycle of the sweep: each one
\* the provider serves gets its turn again and again, whichever other threads
\* it does not serve (least_recently_refreshed).
EveryoneIsReread ==
  \A c \in Conversations :
    <>[](health[c] = "served" /\ c \in Known) => <>[](index[c] = stamp[c])

\* The conversations a refresh's budget leaves over arrive on the next poll,
\* whatever becomes of those before them (refresh_inbox).
TheRestArrives ==
  \A c \in Conversations :
    <>[](c \in Listed /\ OnPage(c) /\ health[c] = "served")
      => <>[](<<c, stamp[c]>> \in settled)
=============================================================================
