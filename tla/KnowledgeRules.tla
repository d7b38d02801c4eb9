---------------------------- MODULE KnowledgeRules ----------------------------
(***************************************************************************)
(* How a distilling run turns what the model wrote about groups of past    *)
(* replies into the batch it proposes: the screening of each candidate     *)
(* (knowledge_safety), the merging of near-duplicates of one scope and the *)
(* promotion of what several properties agree on (knowledge_consolidation),*)
(* as distil puts them together.                                           *)
(*                                                                         *)
(* A text is a wording: what the markers and patterns find in it, and how  *)
(* much of its vocabulary it shares with another. Topic and audience are   *)
(* one subject. Titles, stamps and the model's reasons are left out.       *)
(***************************************************************************)
EXTENDS Integers, Sequences, FiniteSets, SequencesExt

CONSTANTS
  Evidence,    \* the exchanges of the archive an answer can rest on
  Marks,       \* the marks found in a wording (contains_any, the patterns)
  Overlap,     \* shared vocabulary of two wordings, in per cent (similarity)
  Unattributed \* the scope of replies whose property is not known

Wordings == DOMAIN Marks

ASSUME WordingsAssumption ==
  /\ IsFiniteSet(Evidence) /\ Unattributed \in STRING
  /\ \A v, w \in Wordings : Overlap[<<v, w>>] \in Nat /\ Overlap[<<v, w>>] = Overlap[<<w, v>>]

\* What the model writes of a group, with the replies that it read.
GroupAnswer == [scope : STRING, subject : STRING, says : Wordings, refs : SUBSET Evidence]

DuplicateSimilarity == 55
GlobalSimilarity == 45
MinPropertiesForGlobal == 3
MinEvidence == 2

RejectingMarks ==
  {"too_short", "too_long", "price", "access_code", "date", "booking_specific",
   "overpromises", "identity"}

\* check_candidate: a reason rejects, and a number that ages asks for a review.
Accepted(answer) ==
  Marks[answer.says] \cap RejectingMarks = {} /\ Cardinality(answer.refs) >= MinEvidence

\* The candidate an accepted answer becomes. Its scope is its group's, and so is
\* its evidence.
Candidate(answer) ==
  [scope |-> answer.scope, subject |-> answer.subject, says |-> answer.says,
   numeric |-> "numeric" \in Marks[answer.says],
   refs |-> answer.refs, properties |-> {answer.scope} \ {Unattributed}]

Similarity(left, right) == Overlap[<<left.says, right.says>>]

\* The positions of S in an order.
Placed(S, precedes) ==
  [k \in 1 .. Cardinality(S) |->
     CHOOSE i \in S : Cardinality({j \in S : <<j, i>> \in precedes}) = k - 1]

\* ... as they come, and sorted(..., reverse=True) by the evidence, which keeps
\* the order of equals.
AsTheyCome(S) == Placed(S, {p \in S \X S : p[1] < p[2]})
ByEvidence(candidates, S) ==
  LET count(i) == Cardinality(candidates[i].refs)
  IN  Placed(S, {p \in S \X S : \/ count(p[1]) > count(p[2])
                                \/ count(p[1]) = count(p[2]) /\ p[1] < p[2]})

\* Where each key of a table, like a dictionary's, comes first.
Firsts(keys) == {i \in DOMAIN keys : \A j \in DOMAIN keys : j < i => keys[j] # keys[i]}

\* distil: every answer of every group is screened.
Collected(answers) ==
  LET accepted == AsTheyCome({i \in DOMAIN answers : Accepted(answers[i])})
  IN  [k \in DOMAIN accepted |-> Candidate(answers[accepted[k]])]

\* Mutant: what is merged in loses its flag.
MergeUnflagged(primary, other) ==
  [primary EXCEPT !.refs = @ \cup other.refs, !.properties = @ \cup other.properties]

\* merge: the first keeps its words, and the evidence and a number's flag add up.
Merge(primary, other) ==
  [primary EXCEPT !.numeric = @ \/ other.numeric,
                  !.refs = @ \cup other.refs,
                  !.properties = @ \cup other.properties]

\* One candidate among those kept of its bucket: folded into the first it
\* repeats, or kept beside them.
KeepOrMerge(kept, candidate) ==
  LET same == {i \in DOMAIN kept : Similarity(kept[i], candidate) >= DuplicateSimilarity}
  IN  IF same = {} THEN Append(kept, candidate)
      ELSE LET i == CHOOSE i \in same : \A j \in same : i <= j
           IN  [kept EXCEPT ![i] = Merge(@, candidate)]

\* What is kept of the candidates at these positions.
Kept(candidates, order) ==
  LET kept[k \in 0 .. Len(order)] ==
        IF k = 0 THEN << >> ELSE KeepOrMerge(kept[k - 1], candidates[order[k]])
  IN  kept[Len(order)]

Bucket(c) == <<c.scope, c.subject>>

\* consolidate: per scope and subject, the best supported first.
Consolidated(candidates) ==
  LET buckets == [i \in DOMAIN candidates |-> Bucket(candidates[i])]
      order == AsTheyCome(Firsts(buckets))
      members(k) == {i \in DOMAIN candidates : buckets[i] = buckets[order[k]]}
  IN  FlattenSeq([k \in DOMAIN order |-> Kept(candidates, ByEvidence(candidates, members(k)))])

\* may_be_global: enough properties, nothing about one building, no number, and
\* not both permission and restriction.
MayBeGlobal(cluster) ==
  LET marks == UNION {Marks[c.says] : c \in cluster}
  IN  /\ Cardinality(UNION {c.properties \cup {c.scope} : c \in cluster})
           >= MinPropertiesForGlobal
      /\ "property_specific" \notin marks
      /\ \A c \in cluster : ~c.numeric
      /\ ~({"permissive", "restrictive"} \subseteq marks)

\* The rules of one subject that agree with its best supported rule.
Cluster(candidates, subject) ==
  LET group == {i \in DOMAIN candidates : /\ candidates[i].scope # Unattributed
                                          /\ candidates[i].subject = subject}
      seed == ByEvidence(candidates, group)[1]
  IN  IF Cardinality(group) < MinPropertiesForGlobal THEN {}
      ELSE {i \in group : i = seed \/ Similarity(candidates[seed], candidates[i])
                                      >= GlobalSimilarity}

IsPromoted(cluster) ==
  /\ Cardinality({c.scope : c \in cluster}) >= MinPropertiesForGlobal
  /\ MayBeGlobal(cluster)

\* The rule that replaces the candidates at these positions.
Combined(candidates, order) ==
  LET merged[k \in 1 .. Len(order)] ==
        IF k = 1 THEN candidates[order[k]] ELSE Merge(merged[k - 1], candidates[order[k]])
  IN  [merged[Len(order)] EXCEPT
         !.scope = Unattributed,
         !.properties = @ \cup {candidates[order[k]].scope : k \in DOMAIN order}]

\* promote_global: a cluster that may be global is replaced by one rule of no
\* property, with the evidence of them all.
Promoted(candidates) ==
  LET about == [i \in {i \in DOMAIN candidates : candidates[i].scope # Unattributed} |->
                  candidates[i].subject]
      cluster(i) == Cluster(candidates, about[i])
      promoted == {i \in Firsts(about) : IsPromoted({candidates[j] : j \in cluster(i)})}
      absorbed == UNION {cluster(i) : i \in promoted}
      remaining == AsTheyCome(DOMAIN candidates \ absorbed)
      order == AsTheyCome(promoted)
  IN  [k \in DOMAIN remaining |-> candidates[remaining[k]]]
        \o [k \in DOMAIN order |-> Combined(candidates,
                                     ByEvidence(candidates, cluster(order[k])))]

\* distil, phases one and two: the batch that is proposed.
Distilled(answers) == Promoted(Consolidated(Collected(answers)))
=============================================================================
