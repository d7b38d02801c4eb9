--------------------------- MODULE InboxPollProofs ---------------------------
(***************************************************************************)
(* Theorems about InboxPoll, for every set of conversations and every      *)
(* bound. The invariant adds to what the Inbox shows what a refresh at     *)
(* work holds: a batch without a repetition and a reading that the         *)
(* provider has had, however much happens between the reading and the      *)
(* upsert. The lemmas are about the lists the Inbox is made of: what is    *)
(* kept of one, what is put behind one, and what an order makes of a set.  *)
(***************************************************************************)
EXTENDS InboxPoll, FiniteSetTheorems, WellFoundedInduction, TLAPS

-----------------------------------------------------------------------------
(* Lists.                                                                   *)

LEMMA LeastNatural ==
  ASSUME NEW S \in SUBSET Nat, S # {}
  PROVE  \E n \in S : \A m \in S : n <= m
<1>1. PICK n \in S : \A m \in S : ~ (<<m, n>> \in OpToRel(<, Nat))
  <2>1. S \subseteq Nat
    OBVIOUS
  <2> QED BY <2>1, NatLessThanWellFounded, WFMin, Zenon
<1>2. ASSUME NEW m \in S, m < n PROVE FALSE
  <2>1. <<m, n>> \in Nat \X Nat /\ <<m, n>>[1] < <<m, n>>[2]
    BY <1>2
  <2>2. <<m, n>> \in OpToRel(<, Nat)
    BY <2>1, Zenon DEF OpToRel
  <2> QED BY <1>1, <2>2, Zenon
<1> QED BY <1>2

\* The loop of Keep, up to its k-th round.
Rounds(h, k, list, S) ==
  /\ h[0] = << >>
  /\ \A i \in 1 .. k : h[i] = IF list[i] \in S THEN Append(h[i - 1], list[i]) ELSE h[i - 1]

\* kept is what the first k of a list have in S, each at its place.
PickedUpTo(kept, k, list, S) ==
  \E at \in [DOMAIN kept -> 1 .. k] :
    /\ \A i \in DOMAIN kept : kept[i] = list[at[i]] /\ kept[i] \in S
    /\ \A i, j \in DOMAIN kept : i < j => at[i] < at[j]
    /\ \A p \in 1 .. k : list[p] \in S => \E i \in DOMAIN kept : at[i] = p

LEMMA RoundsExist ==
  ASSUME NEW A, NEW list \in Seq(A), NEW S, NEW n \in Nat, n <= Len(list)
  PROVE  \E h \in [0 .. n -> Seq(A)] : Rounds(h, n, list, S)
<1> DEFINE Upto(k) == \E h \in [0 .. k -> Seq(A)] : Rounds(h, k, list, S)
           bad == {k \in Nat : k <= n /\ ~Upto(k)}
<1>1. Upto(0)
  <2> DEFINE h == [i \in 0 .. 0 |-> << >>]
  <2>1. h \in [0 .. 0 -> Seq(A)] /\ h[0] = << >>
    OBVIOUS
  <2> HIDE DEF h
  <2>2. Rounds(h, 0, list, S)
    BY <2>1 DEF Rounds
  <2> QED BY <2>1, <2>2
<1>2. ASSUME NEW k \in Nat, k + 1 <= n, Upto(k)
      PROVE  Upto(k + 1)
  <2>1. PICK h \in [0 .. k -> Seq(A)] : Rounds(h, k, list, S)
    BY <1>2
  <2> DEFINE last == IF list[k + 1] \in S THEN Append(h[k], list[k + 1]) ELSE h[k]
             g == [i \in 0 .. k + 1 |-> IF i = k + 1 THEN last ELSE h[i]]
  <2>2. last \in Seq(A)
    <3>1. h[k] \in Seq(A) /\ list[k + 1] \in A
      BY <1>2
    <3> QED BY <3>1
  <2>3. \A i \in 0 .. k : g[i] = h[i]
    OBVIOUS
  <2>4. g[k + 1] = IF list[k + 1] \in S THEN Append(h[k], list[k + 1]) ELSE h[k]
    OBVIOUS
  <2>5. g \in [0 .. k + 1 -> Seq(A)]
    <3> HIDE DEF last
    <3> QED BY <2>2
  <2> HIDE DEF last, g
  <2>6. Rounds(g, k + 1, list, S)
    <3>1. g[0] = << >>
      BY <2>1, <2>3 DEF Rounds
    <3>2. ASSUME NEW i \in 1 .. k + 1
          PROVE  g[i] = IF list[i] \in S THEN Append(g[i - 1], list[i]) ELSE g[i - 1]
      <4>1. CASE i = k + 1
        <5>1. i - 1 = k /\ g[k] = h[k]
          BY <2>3, <4>1
        <5> QED BY <2>4, <4>1, <5>1
      <4>2. CASE i \in 1 .. k
        <5>1. g[i] = h[i] /\ g[i - 1] = h[i - 1]
          BY <2>3, <4>2
        <5>2. h[i] = IF list[i] \in S THEN Append(h[i - 1], list[i]) ELSE h[i - 1]
          BY <2>1, <4>2, Zenon DEF Rounds
        <5> QED BY <5>1, <5>2, Zenon
      <4> QED BY <4>1, <4>2
    <3> QED BY <3>1, <3>2, Zenon DEF Rounds
  <2> QED BY <2>5, <2>6
<1> HIDE DEF Upto
<1>3. bad = {}
  <2> SUFFICES ASSUME bad # {} PROVE FALSE
    OBVIOUS
  <2>1. PICK m \in bad : \A k \in bad : m <= k
    BY LeastNatural
  <2>2. m # 0
    BY <1>1
  <2>3. m - 1 \in Nat /\ m - 1 <= n /\ m - 1 \notin bad
    BY <2>1, <2>2
  <2>4. Upto(m - 1)
    BY <2>3
  <2>5. Upto((m - 1) + 1)
    BY <1>2, <2>3, <2>4, <2>1
  <2> QED BY <2>5, <2>1
<1>4. Upto(n)
  BY <1>3
<1> QED BY <1>4 DEF Upto

\* One more round.
LEMMA PickOneMore ==
  ASSUME NEW A, NEW list \in Seq(A), NEW S, NEW k \in Nat, k + 1 <= Len(list),
         NEW kept \in Seq(A), PickedUpTo(kept, k, list, S),
         NEW next, next = IF list[k + 1] \in S THEN Append(kept, list[k + 1]) ELSE kept
  PROVE  PickedUpTo(next, k + 1, list, S)
<1>1. PICK at \in [DOMAIN kept -> 1 .. k] :
        /\ \A i \in DOMAIN kept : kept[i] = list[at[i]] /\ kept[i] \in S
        /\ \A i, j \in DOMAIN kept : i < j => at[i] < at[j]
        /\ \A p \in 1 .. k : list[p] \in S => \E i \in DOMAIN kept : at[i] = p
  BY Zenon DEF PickedUpTo
<1>2. DOMAIN kept = 1 .. Len(kept) /\ Len(kept) \in Nat
  OBVIOUS
<1>3. CASE list[k + 1] \notin S
  <2>1. next = kept
    BY <1>3
  <2>2. at \in [DOMAIN kept -> 1 .. k + 1]
    <3>1. 1 .. k \subseteq 1 .. k + 1
      OBVIOUS
    <3> QED BY <3>1, Zenon
  <2>3. \A p \in 1 .. k + 1 : list[p] \in S => \E i \in DOMAIN kept : at[i] = p
    <3>1. \A p \in 1 .. k + 1 : p = k + 1 \/ p \in 1 .. k
      OBVIOUS
    <3> QED BY <1>1, <1>3, <3>1, Zenon
  <2>4. PickedUpTo(kept, k + 1, list, S)
    BY <1>1, <2>2, <2>3, Zenon DEF PickedUpTo
  <2> QED BY <2>1, <2>4, Zenon
<1>4. CASE list[k + 1] \in S
  <2> DEFINE n == Len(kept)
             to == [i \in 1 .. n + 1 |-> IF i = n + 1 THEN k + 1 ELSE at[i]]
  <2>1. next = Append(kept, list[k + 1])
    BY <1>4
  <2>2. /\ DOMAIN next = 1 .. n + 1 /\ next[n + 1] = list[k + 1]
        /\ \A i \in 1 .. n : next[i] = kept[i]
    BY <2>1
  <2>3. to[n + 1] = k + 1 /\ \A i \in 1 .. n : to[i] = at[i]
    BY <1>2
  <2>4. \A i \in 1 .. n : at[i] \in 1 .. k
    BY <1>2
  <2>5. to \in [DOMAIN next -> 1 .. k + 1]
    BY <2>2, <2>4
  <2> HIDE DEF to, n
  <2>6. n \in Nat /\ DOMAIN kept = 1 .. n
    BY <1>2 DEF n
  <2>7. \A i \in 1 .. n + 1 : i = n + 1 \/ i \in 1 .. n
    BY <2>6
  <2>8. \A i \in DOMAIN next : next[i] = list[to[i]] /\ next[i] \in S
    BY <1>1, <1>4, <2>2, <2>3, <2>6, <2>7
  <2>9. ASSUME NEW i \in DOMAIN next, NEW j \in DOMAIN next, i < j
        PROVE  to[i] < to[j]
    <3>1. i \in 1 .. n
      BY <2>2, <2>6, <2>9
    <3>2. CASE j = n + 1
      BY <2>3, <2>4, <3>1, <3>2
    <3>3. CASE j \in 1 .. n
      BY <1>1, <2>3, <2>6, <2>9, <3>1, <3>3
    <3> QED BY <2>2, <2>7, <3>2, <3>3
  <2>10. ASSUME NEW p \in 1 .. k + 1, list[p] \in S
         PROVE  \E i \in DOMAIN next : to[i] = p
    <3>1. CASE p = k + 1
      <4>1. n + 1 \in DOMAIN next
        BY <2>2, <2>6
      <4> QED BY <2>3, <3>1, <4>1
    <3>2. CASE p \in 1 .. k
      <4>1. PICK i \in 1 .. n : at[i] = p
        BY <1>1, <2>6, <2>10, <3>2
      <4>2. i \in DOMAIN next
        BY <2>2, <2>6
      <4> QED BY <2>3, <4>1, <4>2
    <3> QED BY <3>1, <3>2
  <2> QED BY <2>5, <2>8, <2>9, <2>10, Zenon DEF PickedUpTo
<1> QED BY <1>3, <1>4

\* What is kept of a list is picked from it, in order and whole.
LEMMA KeepPicks ==
  ASSUME NEW A, NEW list \in Seq(A), NEW S
  PROVE  /\ Keep(list, S) \in Seq(A)
         /\ PickedUpTo(Keep(list, S), Len(list), list, S)
<1> DEFINE n == Len(list)
           Unfolds(f) == f = [k \in 0 .. n |->
                                IF k = 0 THEN << >>
                                ELSE IF list[k] \in S THEN Append(f[k - 1], list[k]) ELSE f[k - 1]]
<1>1. Keep(list, S) = (CHOOSE f : Unfolds(f))[n]
  BY Zenon DEF Keep
<1>2. n \in Nat /\ n <= Len(list)
  OBVIOUS
<1> HIDE DEF n
<1>3. PICK h \in [0 .. n -> Seq(A)] : Rounds(h, n, list, S)
  BY <1>2, RoundsExist, Zenon
<1>4. Unfolds(h)
  <2>1. h = [k \in 0 .. n |-> h[k]]
    OBVIOUS
  <2>2. ASSUME NEW k \in 0 .. n
        PROVE  h[k] = IF k = 0 THEN << >>
                      ELSE IF list[k] \in S THEN Append(h[k - 1], list[k]) ELSE h[k - 1]
    <3>1. CASE k = 0
      BY <1>3, <3>1 DEF Rounds
    <3>2. CASE k # 0
      <4>1. k \in 1 .. n
        BY <1>2, <3>2
      <4> QED BY <1>3, <3>2, <4>1, Zenon DEF Rounds
    <3> QED BY <3>1, <3>2
  <2> QED BY <2>1, <2>2, Zenon
<1> DEFINE f == CHOOSE f : Unfolds(f)
<1>5. Unfolds(f)
  <2> HIDE DEF Unfolds
  <2> QED BY <1>4, Zenon
<1>6. f[0] = << >> /\ \A k \in 1 .. n : f[k] = IF list[k] \in S THEN Append(f[k - 1], list[k])
                                                                 ELSE f[k - 1]
  <2> HIDE DEF f
  <2>1. ASSUME NEW k \in 0 .. n
        PROVE  f[k] = IF k = 0 THEN << >>
                      ELSE IF list[k] \in S THEN Append(f[k - 1], list[k]) ELSE f[k - 1]
    BY <1>5
  <2>2. 0 \in 0 .. n /\ \A k \in 1 .. n : k \in 0 .. n /\ k # 0
    BY <1>2
  <2> QED BY <2>1, <2>2, Zenon
<1> HIDE DEF f
<1> DEFINE Good(k) == f[k] \in Seq(A) /\ PickedUpTo(f[k], k, list, S)
           bad == {k \in Nat : k <= n /\ ~Good(k)}
<1>7. Good(0)
  <2>1. << >> \in Seq(A) /\ DOMAIN << >> = {}
    OBVIOUS
  <2>2. PickedUpTo(<< >>, 0, list, S)
    <3> DEFINE at == [i \in {} |-> 1]
    <3>1. at \in [DOMAIN << >> -> 1 .. 0]
      BY <2>1
    <3>2. \A p \in 1 .. 0 : FALSE
      OBVIOUS
    <3> HIDE DEF at
    <3> QED BY <2>1, <3>1, <3>2, Zenon DEF PickedUpTo
  <2> QED BY <1>6, <2>1, <2>2, Zenon
<1>8. ASSUME NEW k \in Nat, k + 1 <= n, Good(k)
      PROVE  Good(k + 1)
  <2>1. k + 1 \in 1 .. n /\ (k + 1) - 1 = k
    BY <1>2, <1>8
  <2>2. f[k + 1] = IF list[k + 1] \in S THEN Append(f[k], list[k + 1]) ELSE f[k]
    BY <1>6, <2>1, Zenon
  <2>3. f[k] \in Seq(A) /\ PickedUpTo(f[k], k, list, S) /\ k + 1 <= Len(list)
    BY <1>8 DEF n
  <2>4. list[k + 1] \in A
    BY <2>1 DEF n
  <2>5. f[k + 1] \in Seq(A)
    BY <2>2, <2>3, <2>4
  <2>6. PickedUpTo(f[k + 1], k + 1, list, S)
    BY <2>2, <2>3, PickOneMore
  <2> QED BY <2>5, <2>6
<1> HIDE DEF Good
<1>9. bad = {}
  <2> SUFFICES ASSUME bad # {} PROVE FALSE
    OBVIOUS
  <2>1. PICK m \in bad : \A k \in bad : m <= k
    BY LeastNatural
  <2>2. m # 0
    BY <1>7
  <2>3. m - 1 \in Nat /\ m - 1 <= n /\ m - 1 \notin bad
    BY <1>2, <2>1, <2>2
  <2>4. Good((m - 1) + 1)
    BY <1>8, <2>1, <2>3
  <2> QED BY <2>1, <2>4
<1>10. Good(n)
  <2>1. n \in Nat /\ n <= n
    BY <1>2
  <2>2. n \notin bad
    BY <1>9, Zenon
  <2> QED BY <2>1, <2>2, Zenon
<1> QED BY <1>1, <1>10, Zenon DEF Good, f, n

\* What Keep leaves of a list: the elements in S, in the order they had.
LEMMA KeepKeeps ==
  ASSUME NEW A, NEW list \in Seq(A), NEW S
  PROVE  /\ Keep(list, S) \in Seq(A)
         /\ Range(Keep(list, S)) = Range(list) \cap S
         /\ \A i, j \in DOMAIN Keep(list, S) : i < j =>
              \E p, q \in DOMAIN list :
                p < q /\ Keep(list, S)[i] = list[p] /\ Keep(list, S)[j] = list[q]
<1> DEFINE kept == Keep(list, S)
           n == Len(list)
<1>1. kept \in Seq(A) /\ PickedUpTo(kept, n, list, S)
  BY KeepPicks
<1>2. DOMAIN list = 1 .. n
  OBVIOUS
<1> HIDE DEF kept, n
<1>3. PICK at \in [DOMAIN kept -> 1 .. n] :
        /\ \A i \in DOMAIN kept : kept[i] = list[at[i]] /\ kept[i] \in S
        /\ \A i, j \in DOMAIN kept : i < j => at[i] < at[j]
        /\ \A p \in 1 .. n : list[p] \in S => \E i \in DOMAIN kept : at[i] = p
  BY <1>1, Zenon DEF PickedUpTo
<1>4. \A i \in DOMAIN kept : at[i] \in DOMAIN list
  BY <1>2
<1>5. ASSUME NEW x \in Range(kept) PROVE x \in Range(list) \cap S
  <2>1. PICK i \in DOMAIN kept : x = kept[i]
    BY DEF Range
  <2> QED BY <1>3, <1>4, <2>1 DEF Range
<1>6. ASSUME NEW x \in Range(list) \cap S PROVE x \in Range(kept)
  <2>1. PICK p \in DOMAIN list : x = list[p]
    BY DEF Range
  <2>2. PICK i \in DOMAIN kept : at[i] = p
    BY <1>2, <1>3, <2>1
  <2> QED BY <1>3, <2>1, <2>2 DEF Range
<1>7. \A i, j \in DOMAIN kept : i < j =>
        \E p, q \in DOMAIN list : p < q /\ kept[i] = list[p] /\ kept[j] = list[q]
  BY <1>3, <1>4, Zenon
<1>8. Range(kept) = Range(list) \cap S
  BY <1>5, <1>6
<1> QED BY <1>1, <1>7, <1>8 DEF kept

\* The conversations of a list of rows.
LEMMA RefsOfRows ==
  ASSUME NEW rows \in Lists
  PROVE  /\ Refs(rows) \in Seq(Conversations) /\ DOMAIN Refs(rows) = DOMAIN rows
         /\ \A i \in DOMAIN rows : Refs(rows)[i] = rows[i][1] /\ rows[i] \in Pair
<1>1. /\ DOMAIN rows = 1 .. Len(rows) /\ Len(rows) \in Nat
      /\ \A i \in DOMAIN rows : rows[i] \in Pair
  BY DEF Lists
<1>2. \A i \in DOMAIN rows : rows[i][1] \in Conversations
  BY <1>1 DEF Pair
<1> QED BY <1>1, <1>2 DEF Refs

\* Nothing comes twice in what is kept of a list without a repetition.
LEMMA KeepsOnce ==
  ASSUME NEW A, NEW list \in Seq(A), IsInjective(list), NEW S
  PROVE  IsInjective(Keep(list, S))
<1> DEFINE kept == Keep(list, S)
<1>1. /\ kept \in Seq(A)
      /\ \A i, j \in DOMAIN kept : i < j =>
           \E p, q \in DOMAIN list : p < q /\ kept[i] = list[p] /\ kept[j] = list[q]
  BY KeepKeeps
<1> HIDE DEF kept
<1>2. \A i \in DOMAIN kept : i \in Nat
  BY <1>1
<1>3. \A p \in DOMAIN list : p \in Nat
  OBVIOUS
<1>4. \A p, q \in DOMAIN list : p < q => list[p] # list[q]
  BY <1>3 DEF IsInjective
<1>5. \A i, j \in DOMAIN kept : i < j => kept[i] # kept[j]
  BY <1>1, <1>4
<1>6. \A i, j \in DOMAIN kept : i = j \/ i < j \/ j < i
  BY <1>2
<1> QED BY <1>5, <1>6 DEF IsInjective, kept

LEMMA KeepsConversationsOnce ==
  ASSUME NEW rows \in Lists, IsInjective(Refs(rows)), NEW S
  PROVE  /\ Keep(rows, S) \in Lists /\ IsInjective(Refs(Keep(rows, S)))
         /\ Range(Refs(Keep(rows, S))) \subseteq Range(Refs(rows))
<1> DEFINE kept == Keep(rows, S)
<1>1. /\ kept \in Lists
      /\ \A i, j \in DOMAIN kept : i < j =>
           \E p, q \in DOMAIN rows : p < q /\ kept[i] = rows[p] /\ kept[j] = rows[q]
  BY KeepKeeps DEF Lists
<1>2. Range(kept) \subseteq Range(rows)
  BY KeepKeeps DEF Lists
<1> HIDE DEF kept
<1>3. /\ DOMAIN Refs(kept) = DOMAIN kept /\ \A i \in DOMAIN kept : Refs(kept)[i] = kept[i][1]
  BY <1>1, RefsOfRows
<1>4. /\ DOMAIN Refs(rows) = DOMAIN rows /\ \A i \in DOMAIN rows : Refs(rows)[i] = rows[i][1]
  BY RefsOfRows
<1>5. \A i \in DOMAIN kept : i \in Nat
  BY <1>1 DEF Lists
<1>6. \A p \in DOMAIN rows : p \in Nat
  BY DEF Lists
<1>7. \A p, q \in DOMAIN rows : p < q => rows[p][1] # rows[q][1]
  BY <1>4, <1>6 DEF IsInjective
<1>8. \A i, j \in DOMAIN kept : i < j => kept[i][1] # kept[j][1]
  BY <1>1, <1>7
<1>9. \A i, j \in DOMAIN kept : i = j \/ i < j \/ j < i
  BY <1>5
<1>10. IsInjective(Refs(kept))
  BY <1>3, <1>8, <1>9 DEF IsInjective
<1>11. Range(Refs(kept)) \subseteq Range(Refs(rows))
  <2> SUFFICES ASSUME NEW c \in Range(Refs(kept)) PROVE c \in Range(Refs(rows))
    OBVIOUS
  <2>1. PICK i \in DOMAIN kept : c = kept[i][1]
    BY <1>3 DEF Range
  <2>2. PICK p \in DOMAIN rows : kept[i] = rows[p]
    BY <1>2 DEF Range
  <2>3. c = Refs(rows)[p] /\ p \in DOMAIN Refs(rows)
    BY <1>4, <2>1, <2>2
  <2> QED BY <2>3 DEF Range
<1> QED BY <1>1, <1>10, <1>11 DEF kept

\* One list behind another.
LEMMA PlacesOfBoth ==
  ASSUME NEW A, NEW s \in Seq(A), NEW t \in Seq(A)
  PROVE  /\ s \o t \in Seq(A) /\ DOMAIN (s \o t) = 1 .. Len(s) + Len(t)
         /\ \A i \in 1 .. Len(s) : (s \o t)[i] = s[i]
         /\ \A i \in 1 .. Len(t) : (s \o t)[Len(s) + i] = t[i]
         /\ \A i \in DOMAIN (s \o t) : i \in 1 .. Len(s) \/ i - Len(s) \in 1 .. Len(t)
  OBVIOUS

LEMMA BothOnce ==
  ASSUME NEW A, NEW s \in Seq(A), NEW t \in Seq(A), IsInjective(s), IsInjective(t),
         Range(s) \cap Range(t) = {}
  PROVE  IsInjective(s \o t) /\ Range(s \o t) = Range(s) \cup Range(t)
<1> DEFINE both == s \o t
           m == Len(s)
           n == Len(t)
<1>1. /\ both \in Seq(A) /\ DOMAIN both = 1 .. m + n
      /\ \A i \in 1 .. m : both[i] = s[i]
      /\ \A i \in 1 .. n : both[m + i] = t[i]
      /\ \A i \in DOMAIN both : i \in 1 .. m \/ i - m \in 1 .. n
  BY PlacesOfBoth
<1>2. m \in Nat /\ n \in Nat /\ DOMAIN s = 1 .. m /\ DOMAIN t = 1 .. n
  OBVIOUS
<1> HIDE DEF both, m, n
<1>3. \A i \in DOMAIN both : i - m \in 1 .. n => both[i] = t[i - m]
  <2> SUFFICES ASSUME NEW i \in DOMAIN both, i - m \in 1 .. n PROVE both[i] = t[i - m]
    OBVIOUS
  <2>1. m + (i - m) = i
    BY <1>1, <1>2
  <2> QED BY <1>1, <2>1
<1>4. \A i \in 1 .. m : i \in DOMAIN both /\ s[i] \in Range(s)
  BY <1>1, <1>2 DEF Range
<1>5. \A i \in 1 .. n : m + i \in DOMAIN both /\ t[i] \in Range(t)
  <2>1. \A i \in 1 .. n : m + i \in 1 .. m + n
    BY <1>2
  <2>2. \A i \in 1 .. n : t[i] \in Range(t)
    BY <1>2, Zenon DEF Range
  <2> QED BY <1>1, <2>1, <2>2, Zenon
<1>6. ASSUME NEW i \in DOMAIN both, NEW j \in DOMAIN both, both[i] = both[j]
      PROVE  i = j
  <2>1. CASE i \in 1 .. m /\ j \in 1 .. m
    BY <1>1, <1>2, <1>6, <2>1 DEF IsInjective
  <2>2. CASE i - m \in 1 .. n /\ j - m \in 1 .. n
    <3>1. t[i - m] = t[j - m]
      BY <1>3, <1>6, <2>2
    <3>2. i - m = j - m
      BY <1>2, <2>2, <3>1 DEF IsInjective
    <3> QED BY <1>1, <1>2, <3>2
  <2>3. CASE i \in 1 .. m /\ j - m \in 1 .. n
    BY <1>1, <1>3, <1>4, <1>5, <1>6, <2>3
  <2>4. CASE i - m \in 1 .. n /\ j \in 1 .. m
    BY <1>1, <1>3, <1>4, <1>5, <1>6, <2>4
  <2> QED BY <1>1, <2>1, <2>2, <2>3, <2>4
<1>7. ASSUME NEW x \in Range(both) PROVE x \in Range(s) \cup Range(t)
  <2>1. PICK i \in DOMAIN both : x = both[i]
    BY DEF Range
  <2>2. CASE i \in 1 .. m
    BY <1>1, <1>4, <2>1, <2>2
  <2>3. CASE i - m \in 1 .. n
    BY <1>3, <1>5, <2>1, <2>3
  <2> QED BY <1>1, <2>2, <2>3
<1>8. ASSUME NEW x \in Range(s) PROVE x \in Range(both)
  <2>1. PICK i \in 1 .. m : x = s[i]
    BY <1>2 DEF Range
  <2> QED BY <1>1, <1>4, <2>1 DEF Range
<1>9. ASSUME NEW x \in Range(t) PROVE x \in Range(both)
  <2>1. PICK i \in 1 .. n : x = t[i]
    BY <1>2 DEF Range
  <2> QED BY <1>1, <1>5, <2>1 DEF Range
<1>10. Range(both) = Range(s) \cup Range(t)
  BY <1>7, <1>8, <1>9
<1>11. IsInjective(both)
  BY <1>6, Zenon DEF IsInjective
<1> QED BY <1>10, <1>11, Zenon DEF both

\* What an order that nothing precedes itself in makes of a set has nothing twice.
LEMMA OrderedLists ==
  ASSUME NEW S, IsFiniteSet(S), NEW before, NEW n \in Nat,
         \A c \in S : <<c, c>> \notin before,
         NEW list \in Ordered(S, before, n)
  PROVE  list \in Seq(S) /\ Len(list) <= n /\ IsInjective(list)
<1> DEFINE size == IF Cardinality(S) < n THEN Cardinality(S) ELSE n
<1>1. Cardinality(S) \in Nat
  BY FS_CardinalityType
<1>2. size \in Nat /\ size <= n
  BY <1>1
<1>3. list \in [1 .. size -> S]
  BY DEF Ordered
<1>4. \A i, j \in DOMAIN list : i < j => <<list[i], list[j]>> \in before
  BY DEF Ordered
<1> HIDE DEF size
<1>5. list \in Seq(S) /\ Len(list) = size
  BY <1>2, <1>3
<1>6. ASSUME NEW i \in DOMAIN list, NEW j \in DOMAIN list, list[i] = list[j]
      PROVE  i = j
  <2>1. i \in Nat /\ j \in Nat /\ list[i] \in S
    BY <1>3
  <2>2. ~(i < j) /\ ~(j < i)
    BY <1>4, <1>6, <2>1
  <2> QED BY <2>1, <2>2
<1>7. IsInjective(list)
  BY <1>6, Zenon DEF IsInjective
<1> QED BY <1>2, <1>5, <1>7

\* The first of a list.
LEMMA FirstOfList ==
  ASSUME NEW A, NEW list \in Seq(A), IsInjective(list), NEW n \in Nat
  PROVE  /\ First(list, n) \in Seq(A) /\ IsInjective(First(list, n))
         /\ Range(First(list, n)) \subseteq Range(list)
<1> DEFINE size == IF Len(list) < n THEN Len(list) ELSE n
           some == SubSeq(list, 1, size)
<1>1. size \in Nat /\ size <= Len(list) /\ DOMAIN list = 1 .. Len(list)
  OBVIOUS
<1>2. First(list, n) = some
  BY Zenon DEF First
<1> HIDE DEF size
<1>3. some \in Seq(A) /\ DOMAIN some = 1 .. size /\ \A i \in 1 .. size : some[i] = list[i]
  BY <1>1
<1>4. \A i \in 1 .. size : i \in DOMAIN list
  BY <1>1
<1> HIDE DEF some
<1>5. IsInjective(some)
  BY <1>3, <1>4, Zenon DEF IsInjective
<1>6. Range(some) \subseteq Range(list)
  <2> SUFFICES ASSUME NEW x \in Range(some) PROVE x \in Range(list)
    OBVIOUS
  <2>1. PICK i \in 1 .. size : x = list[i]
    BY <1>3 DEF Range
  <2> QED BY <1>4, <2>1 DEF Range
<1> QED BY <1>2, <1>3, <1>5, <1>6

-----------------------------------------------------------------------------
(* What is read, and what is remembered of it.                              *)

\* What a task is about to upsert was so.
TasksArePast ==
  \A c \in Conversations : task[c].step = "upsert" => task[c].found <= stamp[c]

\* What a refresh or a task at work holds is of the past, however long ago it was
\* read.
HeldIsPast ==
  /\ TasksArePast
  /\ \A c \in Conversations : stamp[c] <= messages
  /\ refresh.step = "write" =>
       /\ IsInjective(Refs(refresh.batch))
       /\ \A c \in DOMAIN refresh.found : refresh.found[c] <= stamp[c]

PollInvariant == TypeOK /\ InboxIsSound /\ HeldIsPast

LEMMA LiveIsPast ==
  ASSUME TypeOK, NEW c \in Conversations
  PROVE  Live(c) \in Times /\ Live(c) <= stamp[c]
<1>1. stamp[c] \in Times /\ 0 \in Times
  BY InboxAssumption DEF TypeOK, Times, InboxAssumption
<1> QED BY <1>1 DEF Live, Times

\* An observation is what is live of some of the conversations that can be read.
LEMMA Observed ==
  ASSUME TypeOK, NEW S \in SUBSET Conversations, NEW direct,
         NEW found \in Observations(S, direct)
  PROVE  \E R \in SUBSET S : /\ R \in SUBSET Conversations /\ found \in Findings(R)
                             /\ DOMAIN found = R
                             /\ \A c \in R : /\ found[c] = Live(c) /\ found[c] <= stamp[c]
                                             /\ health[c] # "refused"
<1> DEFINE readable == {c \in S \cap (direct \cup Archive) : health[c] # "refused"}
<1>1. PICK R \in SUBSET readable : found = [c \in R |-> Live(c)]
  BY DEF Observations
<1>2. R \in SUBSET S /\ \A c \in R : health[c] # "refused"
  OBVIOUS
<1> HIDE DEF readable
<1>3. \A c \in R : Live(c) \in Times /\ Live(c) <= stamp[c]
  BY <1>2, LiveIsPast
<1>4. found \in Findings(R) /\ DOMAIN found = R
  BY <1>1, <1>3 DEF Findings
<1>5. \A c \in R : found[c] = Live(c) /\ found[c] <= stamp[c] /\ health[c] # "refused"
  BY <1>1, <1>2, <1>3
<1>6. R \in SUBSET Conversations
  BY <1>2
<1> QED BY <1>2, <1>4, <1>5, <1>6, Zenon

LEMMA ScansAreListed ==
  ASSUME NEW saw \in Scans
  PROVE  saw \in SUBSET Listed /\ saw \in SUBSET Conversations
         /\ (saw # Listed => faults < MaxFaults)
BY DEF Scans, Listed

\* A scan or a reading that misses something costs a fault, and there is one left.
LEMMA FaultsAreBounded ==
  ASSUME TypeOK, NEW saw \in Scans, NEW S, NEW found \in Observations(S, saw)
  PROVE  Faults(saw, found, S) \in 0 .. MaxFaults
<1>1. faults \in 0 .. MaxFaults /\ MaxFaults \in Nat
  BY InboxAssumption DEF TypeOK, InboxAssumption
<1>2. CASE faults < MaxFaults
  BY <1>1, <1>2 DEF Faults
<1>3. CASE ~(faults < MaxFaults)
  <2>1. saw = Listed
    BY <1>3, ScansAreListed
  <2>2. found = [c \in {c \in S \cap (saw \cup Archive) : health[c] # "refused"} |-> Live(c)]
    BY <1>3 DEF Observations
  <2>3. Listed \subseteq Archive
    BY DEF Listed, Archive
  <2>4. DOMAIN found = {c \in S \cap Archive : health[c] # "refused"}
    BY <2>1, <2>2, <2>3
  <2> QED BY <1>1, <2>1, <2>4 DEF Faults
<1> QED BY <1>2, <1>3

\* The index's rows of a list of conversations.
LEMMA PairsTell ==
  ASSUME TypeOK, InboxIsSound, NEW refs \in Seq(Conversations), IsInjective(refs)
  PROVE  /\ Pairs(refs) \in Lists /\ Refs(Pairs(refs)) = refs
         /\ Len(Pairs(refs)) = Len(refs) /\ IsOfThePast(Pairs(refs))
<1> DEFINE rows == Pairs(refs)
<1>1. \A i \in 1 .. Len(refs) : refs[i] \in Conversations /\ index[refs[i]] \in Row
  BY DEF TypeOK
<1>2. rows = [i \in 1 .. Len(refs) |-> <<refs[i], index[refs[i]]>>]
  BY Zenon DEF Pairs
<1> HIDE DEF rows
<1>3. Len(refs) \in Nat /\ DOMAIN refs = 1 .. Len(refs) /\ refs = [i \in 1 .. Len(refs) |-> refs[i]]
  OBVIOUS
<1>4. \A i \in 1 .. Len(refs) : <<refs[i], index[refs[i]]>> \in Pair
  BY <1>1 DEF Pair
<1>5. rows \in Lists /\ Len(rows) = Len(refs) /\ DOMAIN rows = 1 .. Len(refs)
  BY <1>2, <1>3, <1>4 DEF Lists
<1>6. Refs(rows) = refs
  BY <1>2, <1>3, <1>5 DEF Refs
<1>7. ASSUME NEW i \in DOMAIN rows, rows[i][2] # Unseen
      PROVE  rows[i][2] <= stamp[rows[i][1]]
  <2>1. rows[i][1] = refs[i] /\ rows[i][2] = index[refs[i]] /\ refs[i] \in Conversations
    BY <1>1, <1>2, <1>5
  <2>2. refs[i] \in Known
    BY <1>7, <2>1 DEF Known
  <2> QED BY <2>1, <2>2 DEF InboxIsSound
<1>8. IsOfThePast(rows)
  BY <1>6, <1>7 DEF IsOfThePast
<1> QED BY <1>5, <1>6, <1>8 DEF rows

\* An upsert of rows that were read keeps the rotation the index's own, each row
\* once, and the index behind the provider.
LEMMA RememberKeeps ==
  ASSUME TypeOK, InboxIsSound,
         NEW rows \in Lists, IsInjective(Refs(rows)),
         NEW S \in SUBSET Conversations, NEW found \in Findings(S),
         Range(Refs(rows)) \subseteq S, \A c \in S : found[c] <= stamp[c],
         Remember(rows, found)
  PROVE  /\ index' \in [Conversations -> Row] /\ rotation' \in Seq(Conversations)
         /\ IsInjective(rotation') /\ Range(rotation') = Known'
         /\ \A c \in Known' : index'[c] <= stamp[c]
<1> DEFINE refs == Refs(rows)
           rest == Keep(rotation, Known \ Range(refs))
<1>1. refs \in Seq(Conversations) /\ IsInjective(refs) /\ Range(refs) \subseteq S
  BY RefsOfRows
<1>2. index' = [c \in Conversations |-> IF c \in Range(refs) THEN found[c] ELSE index[c]]
  BY Zenon DEF Remember, Upserted
<1>3. rotation' = rest \o refs
  BY Zenon DEF Remember
<1>4. rotation \in Seq(Conversations) /\ IsInjective(rotation) /\ Range(rotation) = Known
  BY DEF TypeOK, InboxIsSound
<1> HIDE DEF refs
<1>5. /\ rest \in Seq(Conversations) /\ IsInjective(rest)
      /\ Range(rest) = Known \cap (Known \ Range(refs))
  BY <1>4, KeepKeeps, KeepsOnce
<1> HIDE DEF rest
<1>6. Range(rest) \cap Range(refs) = {}
  BY <1>5
<1>7. /\ rotation' \in Seq(Conversations) /\ IsInjective(rotation')
      /\ Range(rotation') = (Known \ Range(refs)) \cup Range(refs)
  <2>1. IsInjective(rest \o refs) /\ Range(rest \o refs) = Range(rest) \cup Range(refs)
    BY <1>1, <1>5, <1>6, BothOnce
  <2>2. rest \o refs \in Seq(Conversations)
    BY <1>1, <1>5
  <2> QED BY <1>3, <1>5, <2>1, <2>2
<1>8. ASSUME NEW c \in Conversations, c \in Range(refs)
      PROVE  index'[c] = found[c] /\ found[c] \in Times /\ found[c] <= stamp[c]
  <2>1. c \in S
    BY <1>1, <1>8
  <2> QED BY <1>2, <1>8, <2>1 DEF Findings
<1>9. \A c \in Conversations : c \notin Range(refs) => index'[c] = index[c]
  BY <1>2
<1>10. Unseen \notin Times
  BY InboxAssumption DEF InboxAssumption, Times
<1>11. index' \in [Conversations -> Row]
  <2>1. \A c \in Conversations : index[c] \in Row
    BY DEF TypeOK
  <2>2. \A c \in Conversations : index'[c] \in Row
    BY <1>8, <1>9, <2>1 DEF Row
  <2> QED BY <1>2, <2>2
<1>12. Known' = (Known \ Range(refs)) \cup Range(refs)
  <2>1. Range(refs) \subseteq Conversations
    BY <1>1
  <2>2. \A c \in Range(refs) : index'[c] # Unseen
    BY <1>8, <1>10, <2>1
  <2> QED BY <1>9, <2>1, <2>2 DEF Known
<1>13. ASSUME NEW c \in Known' PROVE index'[c] <= stamp[c]
  <2>1. c \in Conversations
    BY DEF Known
  <2>2. CASE c \in Range(refs)
    BY <1>8, <2>1, <2>2
  <2>3. CASE c \notin Range(refs)
    <3>1. c \in Known
      BY <1>12, <2>3
    <3> QED BY <1>9, <2>1, <2>3, <3>1 DEF InboxIsSound
  <2> QED BY <2>2, <2>3
<1> QED BY <1>7, <1>11, <1>12, <1>13

\* What a reading supersedes of a list has the list's conversations, of those
\* that were read.
LEMMA FreshIsRead ==
  ASSUME NEW rows \in Lists, IsInjective(Refs(rows)), NEW found
  PROVE  /\ Fresh(rows, found) \in Lists /\ IsInjective(Refs(Fresh(rows, found)))
         /\ Range(Refs(Fresh(rows, found))) \subseteq DOMAIN found
<1> DEFINE T == {r \in Range(rows) : r[1] \in DOMAIN found /\ Supersedes(r[2], found[r[1]])}
           fresh == Keep(rows, T)
<1>1. Fresh(rows, found) = fresh
  BY Zenon DEF Fresh
<1>2. fresh \in Lists /\ IsInjective(Refs(fresh))
  <2> HIDE DEF T
  <2> QED BY KeepsConversationsOnce
<1>3. Range(fresh) = Range(rows) \cap T
  <2>1. rows \in Seq(Pair)
    BY DEF Lists
  <2> HIDE DEF T
  <2> QED BY <2>1, KeepKeeps
<1>4. \A r \in Range(fresh) : r[1] \in DOMAIN found
  BY <1>3
<1> HIDE DEF fresh
<1>5. Range(Refs(fresh)) \subseteq DOMAIN found
  <2> SUFFICES ASSUME NEW c \in Range(Refs(fresh)) PROVE c \in DOMAIN found
    OBVIOUS
  <2>1. PICK i \in DOMAIN fresh : c = fresh[i][1]
    BY <1>2, RefsOfRows DEF Range
  <2>2. fresh[i] \in Range(fresh)
    BY DEF Range
  <2> QED BY <1>4, <2>1, <2>2
<1> QED BY <1>1, <1>2, <1>5

\* A page, a seeding batch and a scan's order are lists of conversations.
LEMMA PagesAreLists ==
  ASSUME TypeOK, NEW saw \in SUBSET Conversations, NEW n \in Nat
  PROVE  /\ \A list \in OrderedActivity(n) :
              list \in Seq(Conversations) /\ Len(list) <= n /\ IsInjective(list)
         /\ \A list \in Ordered(saw \ Known, ByReference, n) :
              list \in Seq(Conversations) /\ IsInjective(list)
         /\ \A list \in Ordered(saw, ByDiscovery, n) :
              list \in Seq(Conversations) /\ Len(list) <= n /\ IsInjective(list)
<1>1. IsFiniteSet(Conversations) /\ Conversations \subseteq Nat
  BY InboxAssumption DEF InboxAssumption
<1>2. Known \subseteq Conversations /\ saw \ Known \subseteq Conversations
  BY DEF Known
<1>3. IsFiniteSet(Known) /\ IsFiniteSet(saw \ Known) /\ IsFiniteSet(saw)
  BY <1>1, <1>2, FS_Subset
<1>4. \A c \in Conversations : <<c, c>> \notin ByReference
  BY <1>1 DEF ByReference
<1>5. \A c \in Conversations : <<c, c>> \notin ByActivity
  <2> SUFFICES ASSUME NEW c \in Conversations, <<c, c>> \in ByActivity PROVE FALSE
    OBVIOUS
  <2>1. c \in Known /\ (index[c] > index[c] \/ c < c)
    BY DEF ByActivity
  <2>2. index[c] \in Nat /\ c \in Nat
    BY <1>1, <2>1 DEF TypeOK, Known, Row, Times
  <2> QED BY <2>1, <2>2
<1>6. \A c \in Conversations : <<c, c>> \notin ByDiscovery
  BY <1>4, <1>5 DEF ByDiscovery
<1>7. ASSUME NEW list \in OrderedActivity(n)
      PROVE  list \in Seq(Conversations) /\ Len(list) <= n /\ IsInjective(list)
  <2>1. list \in Ordered(Known, ByActivity, n) /\ \A c \in Known : <<c, c>> \notin ByActivity
    BY <1>2, <1>5 DEF OrderedActivity
  <2>2. list \in Seq(Known) /\ Len(list) <= n /\ IsInjective(list)
    BY <1>3, <2>1, OrderedLists
  <2> QED BY <1>2, <2>2
<1>8. ASSUME NEW list \in Ordered(saw \ Known, ByReference, n)
      PROVE  list \in Seq(Conversations) /\ IsInjective(list)
  <2>1. list \in Seq(saw \ Known) /\ IsInjective(list)
    BY <1>2, <1>3, <1>4, OrderedLists
  <2> QED BY <1>2, <2>1
<1>9. ASSUME NEW list \in Ordered(saw, ByDiscovery, n)
      PROVE  list \in Seq(Conversations) /\ Len(list) <= n /\ IsInjective(list)
  <2>1. list \in Seq(saw) /\ Len(list) <= n /\ IsInjective(list)
    BY <1>3, <1>6, OrderedLists
  <2> QED BY <2>1
<1> QED BY <1>7, <1>8, <1>9

-----------------------------------------------------------------------------
(* What each action keeps.                                                  *)

\* Sums up a step that leaves the provider and its bounds alone.
LEMMA StepKeeps ==
  ASSUME PollInvariant, UNCHANGED providerVars,
         index' \in [Conversations -> Row], rotation' \in Seq(Conversations),
         IsInjective(rotation'), Range(rotation') = Known',
         \A c \in Known' : index'[c] <= stamp[c],
         discovery' # NoDiscovery =>
           discovery' \in Lists /\ IsOfThePast(discovery)' /\ Len(discovery') <= PageLimit,
         settled' \subseteq Conversations \X Times,
         \A pair \in settled' : pair[2] <= stamp[pair[1]],
         refresh' \in Refreshes,
         refresh'.step = "write" =>
           /\ IsInjective(Refs(refresh'.batch))
           /\ \A c \in DOMAIN refresh'.found : refresh'.found[c] <= stamp[c],
         task' \in [Conversations -> Tasks], TasksArePast', faults' \in 0 .. MaxFaults
  PROVE  PollInvariant'
<1>1. /\ stamp' = stamp /\ health' = health /\ stay' = stay /\ messages' = messages
  BY DEF providerVars
<1>2. TypeOK'
  BY <1>1, Zenon DEF PollInvariant, TypeOK
<1>3. InboxIsSound'
  <2>1. (\A c \in Known : index[c] <= stamp[c])'
    BY <1>1
  <2>2. (\A pair \in settled : pair[2] <= stamp[pair[1]])'
    BY <1>1
  <2>3. (discovery # NoDiscovery => IsOfThePast(discovery) /\ Len(discovery) <= PageLimit)'
    OBVIOUS
  <2> QED BY <2>1, <2>2, <2>3, Zenon DEF InboxIsSound
<1>4. HeldIsPast'
  BY <1>1, Zenon DEF PollInvariant, HeldIsPast
<1> QED BY <1>2, <1>3, <1>4, Zenon DEF PollInvariant

\* What is of the past stays so.
LEMMA PastIsPast ==
  ASSUME TypeOK, stamp' \in [Conversations -> Times],
         \A c \in Conversations : stamp[c] <= stamp'[c],
         NEW rows \in Lists, IsOfThePast(rows)
  PROVE  /\ IsInjective(Refs(rows))
         /\ \A i \in DOMAIN rows : rows[i][2] # Unseen => rows[i][2] <= stamp'[rows[i][1]]
<1>1. IsInjective(Refs(rows))
  BY DEF IsOfThePast
<1>2. ASSUME NEW i \in DOMAIN rows, rows[i][2] # Unseen
      PROVE  rows[i][2] <= stamp'[rows[i][1]]
  <2>1. rows[i] \in Pair
    BY DEF Lists
  <2>2. rows[i][1] \in Conversations /\ rows[i][2] \in Nat
    BY <1>2, <2>1 DEF Pair, Row, Times
  <2>3. stamp[rows[i][1]] \in Nat /\ stamp'[rows[i][1]] \in Nat
    BY <2>2 DEF TypeOK, Times
  <2>4. rows[i][2] <= stamp[rows[i][1]]
    BY <1>2 DEF IsOfThePast
  <2> QED BY <2>2, <2>3, <2>4
<1> QED BY <1>1, <1>2

LEMMA PollKeeps ==
  ASSUME PollInvariant, Poll
  PROVE  PollInvariant'
<1>1. PICK saw \in Scans, page \in OrderedActivity(PageLimit) :
      \E found \in Observations(Range(page), saw) :
         /\ Remember(Fresh(Pairs(page), found), found)
         /\ discovery' = [i \in DOMAIN page |-> <<page[i], index'[page[i]]>>]
         /\ faults' = Faults(saw, found, Range(page))
         /\ UNCHANGED <<providerVars, settled, refresh, task>>
  BY Zenon DEF Poll
<1>2. PICK found \in Observations(Range(page), saw) :
         /\ Remember(Fresh(Pairs(page), found), found)
         /\ discovery' = [i \in DOMAIN page |-> <<page[i], index'[page[i]]>>]
         /\ faults' = Faults(saw, found, Range(page))
         /\ UNCHANGED <<providerVars, settled, refresh, task>>
  BY <1>1
<1>3. TypeOK /\ InboxIsSound /\ HeldIsPast
  BY DEF PollInvariant
<1>4. page \in Seq(Conversations) /\ Len(page) <= PageLimit /\ IsInjective(page)
  <2>1. PageLimit \in Nat /\ {} \in SUBSET Conversations
    BY InboxAssumption DEF InboxAssumption
  <2> QED BY <1>1, <1>3, <2>1, PagesAreLists
<1>5. Pairs(page) \in Lists /\ Refs(Pairs(page)) = page
  BY <1>3, <1>4, PairsTell
<1>6. PICK R \in SUBSET Range(page) :
        /\ R \in SUBSET Conversations /\ found \in Findings(R) /\ DOMAIN found = R
        /\ \A c \in R : found[c] <= stamp[c]
  <2>1. Range(page) \in SUBSET Conversations
    BY <1>4 DEF Range
  <2> QED BY <1>2, <1>3, <2>1, Observed
<1> DEFINE rows == Fresh(Pairs(page), found)
<1>7. rows \in Lists /\ IsInjective(Refs(rows)) /\ Range(Refs(rows)) \subseteq R
  BY <1>4, <1>5, <1>6, FreshIsRead
<1>8. Remember(rows, found) /\ \A c \in R : found[c] <= stamp[c]
  BY <1>2, <1>6
<1> HIDE DEF rows
<1>9. /\ index' \in [Conversations -> Row] /\ rotation' \in Seq(Conversations)
      /\ IsInjective(rotation') /\ Range(rotation') = Known'
      /\ \A c \in Known' : index'[c] <= stamp[c]
  <2>1. /\ rows \in Lists /\ IsInjective(Refs(rows)) /\ R \in SUBSET Conversations
        /\ found \in Findings(R) /\ Range(Refs(rows)) \subseteq R
    BY <1>6, <1>7
  <2> QED BY <1>3, <1>8, <2>1, RememberKeeps
<1>10. /\ stamp' = stamp /\ settled' = settled /\ refresh' = refresh /\ task' = task
       /\ UNCHANGED providerVars
  BY <1>2 DEF providerVars
<1>11. faults' \in 0 .. MaxFaults
  BY <1>2, <1>3, FaultsAreBounded
<1>12. discovery' \in Lists /\ IsOfThePast(discovery)' /\ Len(discovery') <= PageLimit
  <2>1. DOMAIN page = 1 .. Len(page) /\ Len(page) \in Nat
        /\ \A i \in DOMAIN page : page[i] \in Conversations
    BY <1>4
  <2>2. /\ DOMAIN discovery' = DOMAIN page
        /\ \A i \in DOMAIN page : discovery'[i] = <<page[i], index'[page[i]]>>
        /\ discovery' = [i \in 1 .. Len(page) |-> discovery'[i]]
    BY <1>2, <2>1
  <2>3. \A i \in DOMAIN page : discovery'[i] \in Pair
    <3>1. \A c \in Conversations : index'[c] \in Row
      BY <1>9
    <3>2. \A c \in Conversations : <<c, index'[c]>> \in Pair
      BY <3>1 DEF Pair
    <3> QED BY <2>1, <2>2, <3>2, Zenon
  <2>4. discovery' \in Lists /\ Len(discovery') = Len(page)
    BY <2>1, <2>2, <2>3 DEF Lists
  <2>5. Refs(discovery') = [i \in 1 .. Len(page) |-> page[i]]
    BY <2>1, <2>2 DEF Refs
  <2>6. Refs(discovery') = page
    BY <1>4, <2>5
  <2>7. ASSUME NEW i \in DOMAIN page, discovery'[i][2] # Unseen
        PROVE  discovery'[i][2] <= stamp[discovery'[i][1]]
    <3>1. discovery'[i][1] = page[i] /\ discovery'[i][2] = index'[page[i]]
      BY <2>2
    <3>2. page[i] \in Known'
      BY <2>1, <2>7, <3>1 DEF Known
    <3> QED BY <1>9, <3>1, <3>2
  <2>8. IsOfThePast(discovery)'
    BY <1>4, <1>10, <2>2, <2>6, <2>7 DEF IsOfThePast
  <2> QED BY <1>4, <2>4, <2>8
<1>13. /\ settled' \subseteq Conversations \X Times
       /\ \A pair \in settled' : pair[2] <= stamp[pair[1]]
       /\ refresh' \in Refreshes
       /\ refresh'.step = "write" =>
            /\ IsInjective(Refs(refresh'.batch))
            /\ \A c \in DOMAIN refresh'.found : refresh'.found[c] <= stamp[c]
       /\ task' \in [Conversations -> Tasks] /\ TasksArePast'
  BY <1>3, <1>10, Zenon DEF TypeOK, InboxIsSound, HeldIsPast, TasksArePast
<1> QED BY <1>9, <1>10, <1>11, <1>12, <1>13, StepKeeps, Zenon

LEMMA RefreshReadKeeps ==
  ASSUME PollInvariant, RefreshRead
  PROVE  PollInvariant'
<1>0. PICK saw \in Scans :
      \E batch \in Batches(saw) : \E found \in Observations(Range(batch), saw) :
        /\ refresh' = [step |-> "write", batch |-> Pairs(batch), found |-> found]
        /\ faults' = Faults(saw, found, Range(batch))
  BY Zenon DEF RefreshRead
<1>1. PICK batch \in Batches(saw) :
      \E found \in Observations(Range(batch), saw) :
        /\ refresh' = [step |-> "write", batch |-> Pairs(batch), found |-> found]
        /\ faults' = Faults(saw, found, Range(batch))
  BY <1>0
<1>2. PICK found \in Observations(Range(batch), saw) :
        /\ refresh' = [step |-> "write", batch |-> Pairs(batch), found |-> found]
        /\ faults' = Faults(saw, found, Range(batch))
  BY <1>1
<1>3. TypeOK /\ InboxIsSound /\ HeldIsPast
  BY DEF PollInvariant
<1>4. batch \in Seq(Conversations) /\ IsInjective(batch)
  <2>1. SeedBatch \in Nat /\ SweepSize \in Nat
    BY InboxAssumption DEF InboxAssumption
  <2>2. saw \in SUBSET Conversations
    BY ScansAreListed
  <2>3. CASE saw \ Known # {}
    <3>1. batch \in Ordered(saw \ Known, ByReference, SeedBatch)
      BY <2>3 DEF Batches
    <3> QED BY <1>3, <2>1, <2>2, <3>1, PagesAreLists
  <2>4. CASE saw \ Known = {}
    <3>1. batch = First(rotation, SweepSize)
      BY <2>4 DEF Batches
    <3>2. rotation \in Seq(Conversations) /\ IsInjective(rotation)
      BY <1>3 DEF TypeOK, InboxIsSound
    <3> QED BY <2>1, <3>1, <3>2, FirstOfList
  <2> QED BY <2>3, <2>4
<1>5. Pairs(batch) \in Lists /\ IsInjective(Refs(Pairs(batch)))
  BY <1>3, <1>4, PairsTell
<1>6. PICK R \in SUBSET Range(batch) :
        /\ R \in SUBSET Conversations /\ found \in Findings(R) /\ DOMAIN found = R
        /\ \A c \in R : found[c] <= stamp[c]
  <2>1. Range(batch) \in SUBSET Conversations
    BY <1>4 DEF Range
  <2> QED BY <1>2, <1>3, <2>1, Observed
<1>7. faults' \in 0 .. MaxFaults
  BY <1>2, <1>3, FaultsAreBounded
<1>8. /\ UNCHANGED providerVars /\ index' = index /\ rotation' = rotation
      /\ discovery' = discovery /\ settled' = settled /\ task' = task /\ stamp' = stamp
  BY DEF RefreshRead, indexVars, providerVars
<1>9. /\ refresh'.step = "write" /\ refresh'.batch = Pairs(batch) /\ refresh'.found = found
  BY <1>2
<1>10. TypeOK'
  <2>1. refresh' \in Refreshes
    BY <1>2, <1>5, <1>6 DEF Refreshes
  <2> QED BY <1>3, <1>7, <1>8, <1>9, <2>1 DEF TypeOK, providerVars
<1>11. InboxIsSound'
  BY <1>3, <1>8, Zenon DEF InboxIsSound, IsOfThePast, Known
<1>12. HeldIsPast'
  <2>1. /\ messages' = messages /\ TasksArePast'
        /\ \A c \in Conversations : stamp[c] <= messages
    BY <1>3, <1>8, Zenon DEF HeldIsPast, TasksArePast, providerVars
  <2> QED BY <1>5, <1>6, <1>8, <1>9, <2>1 DEF HeldIsPast
<1> QED BY <1>10, <1>11, <1>12, Zenon DEF PollInvariant

LEMMA RefreshWriteKeeps ==
  ASSUME PollInvariant, RefreshWrite
  PROVE  PollInvariant'
<1>1. TypeOK /\ InboxIsSound /\ HeldIsPast
  BY DEF PollInvariant
<1> DEFINE rows == Fresh(refresh.batch, refresh.found)
<1>2. /\ refresh.step = "write" /\ Remember(rows, refresh.found)
      /\ refresh' = [step |-> "discover"]
      /\ discovery' = discovery /\ settled' = settled /\ task' = task /\ faults' = faults
      /\ UNCHANGED providerVars /\ stamp' = stamp
  BY DEF RefreshWrite, providerVars
<1>3. PICK S \in SUBSET Conversations : refresh.found \in Findings(S)
  BY <1>1, <1>2 DEF TypeOK, Refreshes
<1>4. DOMAIN refresh.found = S /\ \A c \in S : refresh.found[c] <= stamp[c]
  BY <1>1, <1>2, <1>3 DEF HeldIsPast, Findings
<1>5. rows \in Lists /\ IsInjective(Refs(rows)) /\ Range(Refs(rows)) \subseteq S
  <2>1. refresh.batch \in Lists /\ IsInjective(Refs(refresh.batch))
    BY <1>1, <1>2 DEF TypeOK, Refreshes, HeldIsPast
  <2> QED BY <1>4, <2>1, FreshIsRead
<1> HIDE DEF rows
<1>6. /\ index' \in [Conversations -> Row] /\ rotation' \in Seq(Conversations)
      /\ IsInjective(rotation') /\ Range(rotation') = Known'
      /\ \A c \in Known' : index'[c] <= stamp[c]
  BY <1>1, <1>2, <1>3, <1>4, <1>5, RememberKeeps
<1>7. /\ discovery' # NoDiscovery =>
           discovery' \in Lists /\ IsOfThePast(discovery)' /\ Len(discovery') <= PageLimit
      /\ settled' \subseteq Conversations \X Times
      /\ \A pair \in settled' : pair[2] <= stamp[pair[1]]
      /\ task' \in [Conversations -> Tasks] /\ TasksArePast' /\ faults' \in 0 .. MaxFaults
  BY <1>1, <1>2, Zenon DEF TypeOK, InboxIsSound, IsOfThePast, HeldIsPast, TasksArePast
<1>8. refresh' \in Refreshes /\ refresh'.step # "write"
  BY <1>2 DEF Refreshes
<1> QED BY <1>2, <1>6, <1>7, <1>8, StepKeeps, Zenon

LEMMA RefreshDiscoverKeeps ==
  ASSUME PollInvariant, RefreshDiscover
  PROVE  PollInvariant'
<1>1. TypeOK /\ InboxIsSound /\ HeldIsPast
  BY DEF PollInvariant
<1>2. /\ index' = index /\ rotation' = rotation /\ settled' = settled /\ task' = task
      /\ UNCHANGED providerVars /\ stamp' = stamp
  BY DEF RefreshDiscover, providerVars, indexVars
<1>3. /\ index' \in [Conversations -> Row] /\ rotation' \in Seq(Conversations)
      /\ IsInjective(rotation') /\ Range(rotation') = Known'
      /\ \A c \in Known' : index'[c] <= stamp[c]
      /\ settled' \subseteq Conversations \X Times
      /\ \A pair \in settled' : pair[2] <= stamp[pair[1]]
      /\ task' \in [Conversations -> Tasks] /\ TasksArePast'
  BY <1>1, <1>2, Zenon DEF TypeOK, InboxIsSound, Known, HeldIsPast, TasksArePast
<1>4. 0 \in 0 .. MaxRefreshPerPoll
  BY InboxAssumption DEF InboxAssumption
<1>5. CASE /\ discovery # NoDiscovery
           /\ refresh' = [step |-> "draft", todo |-> discovery, processed |-> 0]
           /\ UNCHANGED <<discovery, faults>>
  <2>1. discovery' \in Lists /\ IsOfThePast(discovery)' /\ Len(discovery') <= PageLimit
    BY <1>1, <1>2, <1>5, Zenon DEF TypeOK, InboxIsSound, IsOfThePast
  <2>2. refresh' \in Refreshes /\ refresh'.step # "write"
    <3>1. discovery \in Lists
      BY <1>1, <1>5 DEF TypeOK
    <3> QED BY <1>4, <1>5, <3>1 DEF Refreshes
  <2>3. faults' \in 0 .. MaxFaults
    BY <1>1, <1>5 DEF TypeOK
  <2> QED BY <1>2, <1>3, <2>1, <2>2, <2>3, StepKeeps, Zenon
<1>6. CASE \E saw \in Scans : \E refs \in Ordered(saw, ByDiscovery, PageLimit) :
             /\ discovery' = Pairs(refs)
             /\ refresh' = [step |-> "draft", todo |-> Pairs(refs), processed |-> 0]
             /\ faults' = IF saw = Listed THEN faults ELSE faults + 1
  <2>1. PICK saw \in Scans :
          \E refs \in Ordered(saw, ByDiscovery, PageLimit) :
             /\ discovery' = Pairs(refs)
             /\ refresh' = [step |-> "draft", todo |-> Pairs(refs), processed |-> 0]
             /\ faults' = IF saw = Listed THEN faults ELSE faults + 1
    BY <1>6
  <2>2. PICK refs \in Ordered(saw, ByDiscovery, PageLimit) :
             /\ discovery' = Pairs(refs)
             /\ refresh' = [step |-> "draft", todo |-> Pairs(refs), processed |-> 0]
             /\ faults' = IF saw = Listed THEN faults ELSE faults + 1
    BY <2>1
  <2>3. refs \in Seq(Conversations) /\ Len(refs) <= PageLimit /\ IsInjective(refs)
    <3>1. PageLimit \in Nat /\ saw \in SUBSET Conversations
      BY ScansAreListed, InboxAssumption DEF InboxAssumption
    <3> QED BY <1>1, <2>2, <3>1, PagesAreLists
  <2>4. Pairs(refs) \in Lists /\ Len(Pairs(refs)) <= PageLimit /\ IsOfThePast(Pairs(refs))
    BY <1>1, <2>3, PairsTell
  <2>5. discovery' \in Lists /\ Len(discovery') <= PageLimit
    BY <2>2, <2>4
  <2>6. IsOfThePast(discovery)'
    BY <1>2, <2>2, <2>4, Zenon DEF IsOfThePast
  <2>7. refresh' \in Refreshes /\ refresh'.step # "write"
    BY <1>4, <2>2, <2>4 DEF Refreshes
  <2>8. faults' \in 0 .. MaxFaults
    <3>1. faults \in 0 .. MaxFaults /\ MaxFaults \in Nat
      BY <1>1, InboxAssumption DEF TypeOK, InboxAssumption
    <3> QED BY <2>2, <3>1, ScansAreListed
  <2> QED BY <1>2, <1>3, <2>5, <2>6, <2>7, <2>8, StepKeeps, Zenon
<1> QED BY <1>5, <1>6, Zenon DEF RefreshDiscover

\* What process settles is a state the conversation has had.
LEMMA ProcessKeeps ==
  ASSUME TypeOK, InboxIsSound, NEW c \in Conversations, Process(c)
  PROVE  /\ settled' \subseteq Conversations \X Times
         /\ \A pair \in settled' : pair[2] <= stamp[pair[1]]
         /\ faults' \in 0 .. MaxFaults
<1>1. /\ settled \subseteq Conversations \X Times
      /\ \A pair \in settled : pair[2] <= stamp[pair[1]]
      /\ faults \in 0 .. MaxFaults /\ MaxFaults \in Nat
  BY InboxAssumption DEF TypeOK, InboxIsSound, InboxAssumption
<1>2. <<c, Live(c)>> \in Conversations \X Times /\ <<c, Live(c)>>[2] <= stamp[<<c, Live(c)>>[1]]
  BY LiveIsPast
<1>3. CASE settled' = settled
  <2>1. faults' \in 0 .. MaxFaults
    BY <1>1 DEF Process
  <2> QED BY <1>1, <1>3, <2>1
<1>4. CASE settled' = settled \cup {<<c, Live(c)>>} /\ faults' = faults
  BY <1>1, <1>2, <1>4
<1> QED BY <1>3, <1>4, Zenon DEF Process

LEMMA RefreshDraftKeeps ==
  ASSUME PollInvariant, RefreshDraft
  PROVE  PollInvariant'
<1>1. TypeOK /\ InboxIsSound /\ HeldIsPast
  BY DEF PollInvariant
<1>2. /\ index' = index /\ rotation' = rotation /\ discovery' = discovery /\ task' = task
      /\ UNCHANGED providerVars /\ stamp' = stamp /\ refresh.step = "draft"
  BY DEF RefreshDraft, providerVars, indexVars
<1>3. /\ index' \in [Conversations -> Row] /\ rotation' \in Seq(Conversations)
      /\ IsInjective(rotation') /\ Range(rotation') = Known'
      /\ \A c \in Known' : index'[c] <= stamp[c]
      /\ discovery' # NoDiscovery =>
           discovery' \in Lists /\ IsOfThePast(discovery)' /\ Len(discovery') <= PageLimit
      /\ task' \in [Conversations -> Tasks] /\ TasksArePast'
  BY <1>1, <1>2, Zenon DEF TypeOK, InboxIsSound, IsOfThePast, Known, HeldIsPast,
                           TasksArePast
<1> DEFINE due == Due(refresh.todo)
<1>4. /\ refresh \in [step : {"draft"}, todo : Lists, processed : 0 .. MaxRefreshPerPoll]
      /\ MaxRefreshPerPoll \in Nat
  BY <1>1, <1>2, InboxAssumption DEF TypeOK, Refreshes, InboxAssumption
<1>5. due \in Seq(Pair)
  BY <1>4, KeepKeeps, Zenon DEF Due, Lists
<1>6. \/ refresh' = Idle /\ UNCHANGED <<settled, faults>>
      \/ /\ ~(due = << >> \/ refresh.processed >= MaxRefreshPerPoll)
         /\ Process(due[1][1])
         /\ refresh' = [refresh EXCEPT !.todo = Tail(due), !.processed = @ + 1]
  BY Zenon DEF RefreshDraft
<1> HIDE DEF due
<1>7. CASE refresh' = Idle /\ UNCHANGED <<settled, faults>>
  <2>1. refresh' \in Refreshes /\ refresh'.step # "write"
    BY <1>7 DEF Idle, Refreshes
  <2>2. /\ settled' \subseteq Conversations \X Times
        /\ \A pair \in settled' : pair[2] <= stamp[pair[1]]
        /\ faults' \in 0 .. MaxFaults
    BY <1>1, <1>7, Zenon DEF TypeOK, InboxIsSound
  <2> QED BY <1>2, <1>3, <2>1, <2>2, StepKeeps, Zenon
<1>8. CASE /\ ~(due = << >> \/ refresh.processed >= MaxRefreshPerPoll)
           /\ Process(due[1][1])
           /\ refresh' = [refresh EXCEPT !.todo = Tail(due), !.processed = @ + 1]
  <2>1. due[1] \in Pair /\ Tail(due) \in Lists
    BY <1>5, <1>8 DEF Lists
  <2>2. due[1][1] \in Conversations
    BY <2>1 DEF Pair
  <2>3. /\ settled' \subseteq Conversations \X Times
        /\ \A pair \in settled' : pair[2] <= stamp[pair[1]]
        /\ faults' \in 0 .. MaxFaults
    BY <1>1, <1>8, <2>2, ProcessKeeps
  <2>4. refresh' \in [step : {"draft"}, todo : Lists, processed : 0 .. MaxRefreshPerPoll]
    <3>1. refresh.processed + 1 \in 0 .. MaxRefreshPerPoll
      BY <1>4, <1>8
    <3> QED BY <1>4, <1>8, <2>1, <3>1
  <2>5. refresh' \in Refreshes /\ refresh'.step # "write"
    BY <2>4 DEF Refreshes
  <2> QED BY <1>2, <1>3, <2>3, <2>5, StepKeeps, Zenon
<1> QED BY <1>6, <1>7, <1>8

\* The one row a webhook's task upserts.
LEMMA OneRow ==
  ASSUME TypeOK, NEW c \in Conversations
  PROVE  /\ <<<<c, index[c]>>>> \in Lists /\ IsInjective(Refs(<<<<c, index[c]>>>>))
         /\ Refs(<<<<c, index[c]>>>>) = <<c>> /\ Range(Refs(<<<<c, index[c]>>>>)) = {c}
<1> DEFINE rows == <<<<c, index[c]>>>>
<1>1. <<c, index[c]>> \in Pair
  BY DEF TypeOK, Pair
<1>2. rows \in Lists /\ DOMAIN rows = {1} /\ rows[1] = <<c, index[c]>>
  BY <1>1 DEF Lists
<1>3. Refs(rows) = [i \in {1} |-> c]
  BY <1>2 DEF Refs
<1>4. <<c>> = [i \in {1} |-> c]
  OBVIOUS
<1>5. DOMAIN <<c>> = {1} /\ <<c>>[1] = c
  OBVIOUS
<1>6. IsInjective(<<c>>) /\ Range(<<c>>) = {c}
  BY <1>5 DEF IsInjective, Range
<1> QED BY <1>2, <1>3, <1>4, <1>6

\* The next step of a task is one of these, and the other tasks stay as they are.
LEMMA OneTask ==
  ASSUME TypeOK, TasksArePast, NEW c \in Conversations, NEW next \in Tasks,
         task' = [task EXCEPT ![c] = next], stamp' = stamp,
         next.step = "upsert" => next.found <= stamp[c]
  PROVE  task' \in [Conversations -> Tasks] /\ TasksArePast'
<1>1. task \in [Conversations -> Tasks]
  BY DEF TypeOK
<1>2. task' \in [Conversations -> Tasks]
  BY <1>1, Zenon
<1>3. \A d \in Conversations : task'[d] = IF d = c THEN next ELSE task[d]
  BY <1>1, Zenon
<1>4. TasksArePast'
  BY <1>3 DEF TasksArePast
<1> QED BY <1>2, <1>4

LEMMA StepsOfTasks ==
  Idle \in Tasks /\ [step |-> "queued"] \in Tasks /\ [step |-> "read"] \in Tasks
BY DEF Idle, Tasks

\* What a task leaves alone but for its own step.
LEMMA TaskLeaves ==
  ASSUME PollInvariant, stamp' = stamp, discovery' = discovery, refresh' = refresh
  PROVE  /\ discovery' # NoDiscovery =>
              discovery' \in Lists /\ IsOfThePast(discovery)' /\ Len(discovery') <= PageLimit
         /\ refresh' \in Refreshes
         /\ refresh'.step = "write" =>
              /\ IsInjective(Refs(refresh'.batch))
              /\ \A d \in DOMAIN refresh'.found : refresh'.found[d] <= stamp[d]
BY Zenon DEF PollInvariant, TypeOK, InboxIsSound, HeldIsPast, IsOfThePast

LEMMA TaskProcessKeeps ==
  ASSUME PollInvariant, NEW c \in Conversations, TaskProcess(c)
  PROVE  PollInvariant'
<1>1. TypeOK /\ InboxIsSound /\ HeldIsPast
  BY DEF PollInvariant
<1>2. /\ Process(c) /\ index' = index /\ rotation' = rotation
      /\ discovery' = discovery /\ refresh' = refresh
      /\ UNCHANGED providerVars /\ stamp' = stamp
  BY DEF TaskProcess, providerVars, indexVars
<1>3. /\ settled' \subseteq Conversations \X Times
      /\ \A pair \in settled' : pair[2] <= stamp[pair[1]]
      /\ faults' \in 0 .. MaxFaults
  BY <1>1, <1>2, ProcessKeeps
<1>4. task' \in [Conversations -> Tasks] /\ TasksArePast'
  <2>1. PICK next \in {Idle, [step |-> "read"]} : task' = [task EXCEPT ![c] = next]
    BY Zenon DEF TaskProcess
  <2>2. next \in Tasks /\ next.step # "upsert"
    BY <2>1, StepsOfTasks DEF Idle
  <2> QED BY <1>1, <1>2, <2>1, <2>2, OneTask, Zenon DEF HeldIsPast
<1>5. /\ index' \in [Conversations -> Row] /\ rotation' \in Seq(Conversations)
      /\ IsInjective(rotation') /\ Range(rotation') = Known'
      /\ \A d \in Known' : index'[d] <= stamp[d]
  BY <1>1, <1>2, Zenon DEF TypeOK, InboxIsSound, Known
<1> QED BY <1>2, <1>3, <1>4, <1>5, TaskLeaves, StepKeeps, Zenon

LEMMA TaskReadKeeps ==
  ASSUME PollInvariant, NEW c \in Conversations, TaskRead(c)
  PROVE  PollInvariant'
<1>1. TypeOK /\ InboxIsSound /\ HeldIsPast
  BY DEF PollInvariant
<1>2. /\ index' = index /\ rotation' = rotation /\ settled' = settled /\ faults' = faults
      /\ discovery' = discovery /\ refresh' = refresh
      /\ UNCHANGED providerVars /\ stamp' = stamp
  BY DEF TaskRead, providerVars, indexVars
<1>3. task' \in [Conversations -> Tasks] /\ TasksArePast'
  <2>1. PICK next \in {Idle, [step |-> "upsert", found |-> Live(c)]} :
          task' = [task EXCEPT ![c] = next]
    BY Zenon DEF TaskRead
  <2>2. Live(c) \in Times /\ Live(c) <= stamp[c]
    BY <1>1, LiveIsPast
  <2>3. next \in Tasks /\ (next.step = "upsert" => next.found <= stamp[c])
    BY <2>1, <2>2 DEF Idle, Tasks
  <2> QED BY <1>1, <1>2, <2>1, <2>3, OneTask, Zenon DEF HeldIsPast
<1>4. /\ index' \in [Conversations -> Row] /\ rotation' \in Seq(Conversations)
      /\ IsInjective(rotation') /\ Range(rotation') = Known'
      /\ \A d \in Known' : index'[d] <= stamp[d]
      /\ settled' \subseteq Conversations \X Times
      /\ \A pair \in settled' : pair[2] <= stamp[pair[1]]
      /\ faults' \in 0 .. MaxFaults
  BY <1>1, <1>2, Zenon DEF TypeOK, InboxIsSound, Known
<1> QED BY <1>2, <1>3, <1>4, TaskLeaves, StepKeeps, Zenon

LEMMA TaskUpsertKeeps ==
  ASSUME PollInvariant, NEW c \in Conversations, TaskUpsert(c)
  PROVE  PollInvariant'
<1>1. TypeOK /\ InboxIsSound /\ HeldIsPast
  BY DEF PollInvariant
<1> DEFINE rows == <<<<c, index[c]>>>>
           found == [d \in {c} |-> task[c].found]
<1>2. /\ task[c].step = "upsert" /\ Remember(rows, found)
      /\ task' = [task EXCEPT ![c] = Idle]
      /\ settled' = settled /\ faults' = faults
      /\ discovery' = discovery /\ refresh' = refresh
      /\ UNCHANGED providerVars /\ stamp' = stamp
  BY DEF TaskUpsert, providerVars
<1>3. task' \in [Conversations -> Tasks] /\ TasksArePast'
  <2>1. Idle \in Tasks /\ Idle.step # "upsert"
    BY StepsOfTasks DEF Idle
  <2> QED BY <1>1, <1>2, <2>1, OneTask, Zenon DEF HeldIsPast
<1>4. rows \in Lists /\ IsInjective(Refs(rows)) /\ Range(Refs(rows)) \subseteq {c}
  BY <1>1, OneRow
<1>5. task[c].found \in Times /\ task[c].found <= stamp[c]
  <2>1. task[c] \in Tasks
    BY <1>1 DEF TypeOK
  <2>2. task[c].found \in Times
    BY <1>2, <2>1 DEF Tasks
  <2> QED BY <1>1, <1>2, <2>2 DEF HeldIsPast, TasksArePast
<1>6. {c} \in SUBSET Conversations /\ found \in Findings({c})
      /\ \A d \in {c} : found[d] <= stamp[d]
  BY <1>5 DEF Findings
<1>7. Remember(rows, found)
  BY <1>2
<1> HIDE DEF rows, found
<1>8. /\ index' \in [Conversations -> Row] /\ rotation' \in Seq(Conversations)
      /\ IsInjective(rotation') /\ Range(rotation') = Known'
      /\ \A d \in Known' : index'[d] <= stamp[d]
  BY <1>1, <1>4, <1>6, <1>7, RememberKeeps
<1>9. /\ settled' \subseteq Conversations \X Times
      /\ \A pair \in settled' : pair[2] <= stamp[pair[1]]
      /\ faults' \in 0 .. MaxFaults
  BY <1>1, <1>2, Zenon DEF TypeOK, InboxIsSound
<1> QED BY <1>2, <1>3, <1>8, <1>9, TaskLeaves, StepKeeps, Zenon

LEMMA GuestWritesKeeps ==
  ASSUME PollInvariant, NEW c \in Conversations, GuestWrites(c)
  PROVE  PollInvariant'
<1>1. TypeOK /\ InboxIsSound /\ HeldIsPast
  BY DEF PollInvariant
<1>2. /\ index' = index /\ rotation' = rotation /\ discovery' = discovery
      /\ settled' = settled /\ refresh' = refresh /\ faults' = faults
      /\ health' = health /\ stay' = stay
      /\ messages < MaxMessages /\ messages' = messages + 1
      /\ stamp' = [stamp EXCEPT ![c] = messages + 1]
      /\ task' = task \/ task' = [task EXCEPT ![c] = [step |-> "queued"]]
  BY DEF GuestWrites, indexVars
<1>3. /\ messages \in Nat /\ MaxMessages \in Nat /\ stamp \in [Conversations -> Times]
      /\ Times \subseteq Nat
  BY <1>1, InboxAssumption DEF TypeOK, Times, InboxAssumption
<1>4. \A d \in Conversations : stamp[d] <= messages /\ stamp[d] \in Nat
  BY <1>1, <1>3 DEF HeldIsPast
<1>5. \A d \in Conversations : stamp'[d] = IF d = c THEN messages + 1 ELSE stamp[d]
  BY <1>2, <1>3
<1>6. \A d \in Conversations : stamp[d] <= stamp'[d] /\ stamp'[d] <= messages'
                               /\ stamp'[d] \in Nat
  BY <1>2, <1>3, <1>4, <1>5
<1>7. TypeOK'
  <2>1. stamp' \in [Conversations -> Times]
    <3>1. messages + 1 \in Times
      BY <1>2, <1>3 DEF Times
    <3> QED BY <1>2, <1>3, <3>1
  <2>2. messages' \in 0 .. MaxMessages
    BY <1>2, <1>3
  <2>3. task' \in [Conversations -> Tasks]
    <3>1. task \in [Conversations -> Tasks]
      BY <1>1 DEF TypeOK
    <3> QED BY <1>2, <3>1, StepsOfTasks, Zenon
  <2> QED BY <1>1, <1>2, <2>1, <2>2, <2>3, Zenon DEF TypeOK
<1>8. stamp' \in [Conversations -> Times]
  BY <1>7 DEF TypeOK
<1>9. ASSUME NEW d \in Conversations, NEW t \in Nat, t <= stamp[d]
      PROVE  t <= stamp'[d]
  BY <1>4, <1>6, <1>9
<1>10. InboxIsSound'
  <2>1. IsInjective(rotation') /\ Range(rotation') = Known'
    BY <1>1, <1>2 DEF InboxIsSound, Known
  <2>2. ASSUME NEW d \in Known' PROVE index'[d] <= stamp'[d]
    <3>1. d \in Known /\ d \in Conversations /\ index'[d] = index[d]
      BY <1>2 DEF Known
    <3>2. index[d] \in Nat /\ index[d] <= stamp[d]
      BY <1>1, <1>3, <3>1 DEF TypeOK, Row, Known, InboxIsSound
    <3> QED BY <1>9, <3>1, <3>2
  <2>3. ASSUME NEW pair \in settled' PROVE pair[2] <= stamp'[pair[1]]
    <3>1. pair[1] \in Conversations /\ pair[2] \in Nat /\ pair[2] <= stamp[pair[1]]
      BY <1>1, <1>2, <1>3 DEF TypeOK, InboxIsSound
    <3> QED BY <1>9, <3>1
  <2>4. CASE discovery # NoDiscovery
    <3>1. discovery \in Lists /\ IsOfThePast(discovery) /\ Len(discovery) <= PageLimit
      BY <1>1, <2>4 DEF TypeOK, InboxIsSound
    <3>2. IsOfThePast(discovery)'
      <4>1. /\ IsInjective(Refs(discovery))
            /\ \A i \in DOMAIN discovery :
                 discovery[i][2] # Unseen => discovery[i][2] <= stamp'[discovery[i][1]]
        BY <1>1, <1>6, <1>8, <3>1, PastIsPast
      <4> QED BY <1>2, <4>1, Zenon DEF IsOfThePast
    <3> QED BY <1>2, <2>1, <2>2, <2>3, <3>1, <3>2, Zenon DEF InboxIsSound
  <2>5. CASE discovery = NoDiscovery
    BY <1>2, <2>1, <2>2, <2>3, <2>5, Zenon DEF InboxIsSound
  <2> QED BY <2>4, <2>5
<1>11. HeldIsPast'
  <2>0. ASSUME NEW d \in Conversations, task'[d].step = "upsert"
        PROVE  task'[d].found <= stamp'[d]
    <3>1. task \in [Conversations -> Tasks]
      BY <1>1 DEF TypeOK
    <3>2. \A e \in Conversations : task'[e] = task[e] \/ task'[e] = [step |-> "queued"]
      BY <1>2, <3>1, Zenon
    <3>3. task'[d] = task[d] /\ task[d] \in Tasks
      BY <2>0, <3>1, <3>2
    <3>4. task[d].found \in Nat
      BY <1>3, <2>0, <3>3 DEF Tasks
    <3>5. task[d].found <= stamp[d]
      BY <1>1, <2>0, <3>3, Zenon DEF HeldIsPast, TasksArePast
    <3> QED BY <1>9, <3>3, <3>4, <3>5
  <2>3. TasksArePast'
    BY <2>0, Zenon DEF TasksArePast
  <2>1. CASE refresh.step = "write"
    <3>1. PICK S \in SUBSET Conversations : refresh.found \in Findings(S)
      BY <1>1, <2>1 DEF TypeOK, Refreshes
    <3>2. ASSUME NEW d \in DOMAIN refresh.found PROVE refresh.found[d] <= stamp'[d]
      <4>1. d \in Conversations /\ refresh.found[d] \in Nat
        BY <1>3, <3>1 DEF Findings
      <4> QED BY <1>1, <1>9, <2>1, <4>1 DEF HeldIsPast
    <3> QED BY <1>1, <1>2, <1>6, <2>3, <3>2 DEF HeldIsPast
  <2>2. CASE refresh.step # "write"
    BY <1>2, <1>6, <2>2, <2>3 DEF HeldIsPast
  <2> QED BY <2>1, <2>2
<1> QED BY <1>7, <1>10, <1>11 DEF PollInvariant

LEMMA BookingMovesKeeps ==
  ASSUME PollInvariant, NEW c \in Conversations, BookingMoves(c)
  PROVE  PollInvariant'
<1>1. TypeOK /\ InboxIsSound /\ HeldIsPast
  BY DEF PollInvariant
<1>2. /\ index' = index /\ rotation' = rotation /\ discovery' = discovery
      /\ settled' = settled /\ refresh' = refresh /\ task' = task
      /\ health' = health /\ stamp' = stamp /\ messages' = messages
      /\ faults < MaxFaults /\ faults' = faults + 1
      /\ stay' = [stay EXCEPT ![c] = IF @ = "unknown" THEN "listed" ELSE "historic"]
  BY DEF BookingMoves, indexVars
<1>3. faults' \in 0 .. MaxFaults
  BY <1>1, <1>2, InboxAssumption DEF TypeOK, InboxAssumption
<1>4. stay' \in [Conversations -> {"unknown", "listed", "historic"}]
  BY <1>1, <1>2 DEF TypeOK
<1>5. TypeOK'
  BY <1>1, <1>2, <1>3, <1>4, Zenon DEF TypeOK
<1>6. InboxIsSound' /\ HeldIsPast'
  BY <1>1, <1>2, Zenon DEF InboxIsSound, HeldIsPast, TasksArePast, IsOfThePast, Known
<1> QED BY <1>5, <1>6 DEF PollInvariant

LEMMA ThreadGoesDarkKeeps ==
  ASSUME PollInvariant, NEW c \in Conversations, ThreadGoesDark(c)
  PROVE  PollInvariant'
<1>1. TypeOK /\ InboxIsSound /\ HeldIsPast
  BY DEF PollInvariant
<1>2. /\ index' = index /\ rotation' = rotation /\ discovery' = discovery
      /\ settled' = settled /\ refresh' = refresh /\ task' = task
      /\ stay' = stay /\ stamp' = stamp /\ messages' = messages
      /\ faults < MaxFaults /\ faults' = faults + 1
      /\ \E h \in {"refused", "emptied"} : health' = [health EXCEPT ![c] = h]
  BY DEF ThreadGoesDark, indexVars
<1>3. faults' \in 0 .. MaxFaults
  BY <1>1, <1>2, InboxAssumption DEF TypeOK, InboxAssumption
<1>4. health' \in [Conversations -> {"served", "refused", "emptied"}]
  BY <1>1, <1>2 DEF TypeOK
<1>5. TypeOK'
  BY <1>1, <1>2, <1>3, <1>4, Zenon DEF TypeOK
<1>6. InboxIsSound' /\ HeldIsPast'
  BY <1>1, <1>2, Zenon DEF InboxIsSound, HeldIsPast, TasksArePast, IsOfThePast, Known
<1> QED BY <1>5, <1>6 DEF PollInvariant

\* A lapse of the discovery, and a restart, forget and learn nothing.
LEMMA ForgettingKeeps ==
  ASSUME PollInvariant, DiscoveryExpires \/ Restart
  PROVE  PollInvariant'
<1>1. TypeOK /\ InboxIsSound /\ HeldIsPast
  BY DEF PollInvariant
<1>2. /\ index' = index /\ rotation' = rotation /\ settled' = settled
      /\ UNCHANGED providerVars /\ discovery' = NoDiscovery
  BY DEF DiscoveryExpires, Restart, indexVars
<1>3. /\ index' \in [Conversations -> Row] /\ rotation' \in Seq(Conversations)
      /\ IsInjective(rotation') /\ Range(rotation') = Known'
      /\ \A c \in Known' : index'[c] <= stamp[c]
      /\ settled' \subseteq Conversations \X Times
      /\ \A pair \in settled' : pair[2] <= stamp[pair[1]]
  BY <1>1, <1>2, Zenon DEF TypeOK, InboxIsSound, Known
<1>4. CASE DiscoveryExpires
  <2>1. refresh' = refresh /\ task' = task /\ faults' = faults
    BY <1>4 DEF DiscoveryExpires
  <2>2. /\ refresh' \in Refreshes
        /\ refresh'.step = "write" =>
             /\ IsInjective(Refs(refresh'.batch))
             /\ \A c \in DOMAIN refresh'.found : refresh'.found[c] <= stamp[c]
        /\ task' \in [Conversations -> Tasks] /\ faults' \in 0 .. MaxFaults
    BY <1>1, <2>1, Zenon DEF TypeOK, HeldIsPast
  <2>3. TasksArePast'
    BY <1>1, <1>2, <2>1, Zenon DEF HeldIsPast, TasksArePast, providerVars
  <2> QED BY <1>2, <1>3, <2>2, <2>3, StepKeeps, Zenon
<1>5. CASE Restart
  <2>1. /\ refresh' = Idle /\ task' = [c \in Conversations |-> Idle]
        /\ faults < MaxFaults /\ faults' = faults + 1
    BY <1>5 DEF Restart
  <2>2. refresh' \in Refreshes /\ refresh'.step # "write"
    BY <2>1 DEF Idle, Refreshes
  <2>3. faults' \in 0 .. MaxFaults
    BY <1>1, <2>1, InboxAssumption DEF TypeOK, InboxAssumption
  <2>4. task' \in [Conversations -> Tasks] /\ TasksArePast'
    BY <2>1, StepsOfTasks DEF TasksArePast, Idle
  <2> QED BY <1>2, <1>3, <2>2, <2>3, <2>4, StepKeeps, Zenon
<1> QED BY <1>4, <1>5

LEMMA InitIsSound ==
  ASSUME Init
  PROVE  PollInvariant
<1>1. /\ stamp = [c \in Conversations |-> 0]
      /\ health = [c \in Conversations |-> "served"]
      /\ stay \in [Conversations -> {"unknown", "listed"}]
      /\ index = [c \in Conversations |-> Unseen]
      /\ rotation = << >> /\ discovery = NoDiscovery /\ settled = {}
      /\ refresh = Idle /\ task = [c \in Conversations |-> Idle]
      /\ messages = 0 /\ faults = 0
  BY DEF Init
<1>2. MaxMessages \in Nat /\ MaxFaults \in Nat
  BY InboxAssumption DEF InboxAssumption
<1>3. TypeOK
  <2>1. stamp \in [Conversations -> Times]
    BY <1>1, <1>2 DEF Times
  <2>2. /\ health \in [Conversations -> {"served", "refused", "emptied"}]
        /\ stay \in [Conversations -> {"unknown", "listed", "historic"}]
        /\ index \in [Conversations -> Row]
    BY <1>1 DEF Row
  <2>3. rotation \in Seq(Conversations) /\ refresh \in Refreshes
    BY <1>1 DEF Idle, Refreshes
  <2>4. messages \in 0 .. MaxMessages /\ faults \in 0 .. MaxFaults
    BY <1>1, <1>2
  <2>5. settled \subseteq Conversations \X Times /\ task \in [Conversations -> Tasks]
    BY <1>1, StepsOfTasks
  <2> QED BY <1>1, <2>1, <2>2, <2>3, <2>4, <2>5, Zenon DEF TypeOK
<1>4. InboxIsSound
  <2>1. DOMAIN rotation = {} /\ Range(rotation) = {} /\ Known = {}
    BY <1>1 DEF Known, Range
  <2> QED BY <1>1, <2>1 DEF InboxIsSound, IsInjective
<1>5. HeldIsPast
  BY <1>1 DEF HeldIsPast, TasksArePast, Idle
<1> QED BY <1>3, <1>4, <1>5 DEF PollInvariant

LEMMA NextKeeps ==
  ASSUME PollInvariant, [Next]_vars
  PROVE  PollInvariant'
<1>1. CASE Poll
  BY <1>1, PollKeeps
<1>2. CASE RefreshRead
  BY <1>2, RefreshReadKeeps
<1>3. CASE RefreshWrite
  BY <1>3, RefreshWriteKeeps
<1>4. CASE RefreshDiscover
  BY <1>4, RefreshDiscoverKeeps
<1>5. CASE RefreshDraft
  BY <1>5, RefreshDraftKeeps
<1>6. ASSUME NEW c \in Conversations, TaskProcess(c) \/ TaskRead(c) \/ TaskUpsert(c)
      PROVE  PollInvariant'
  BY <1>6, TaskProcessKeeps, TaskReadKeeps, TaskUpsertKeeps
<1>7. ASSUME NEW c \in Conversations, GuestWrites(c) PROVE PollInvariant'
  BY <1>7, GuestWritesKeeps
<1>8. ASSUME NEW c \in Conversations, BookingMoves(c) PROVE PollInvariant'
  BY <1>8, BookingMovesKeeps
<1>9. ASSUME NEW c \in Conversations, ThreadGoesDark(c) PROVE PollInvariant'
  BY <1>9, ThreadGoesDarkKeeps
<1>10. CASE DiscoveryExpires \/ Restart
  BY <1>10, ForgettingKeeps
<1>11. CASE UNCHANGED vars
  <2>1. /\ stamp' = stamp /\ health' = health /\ stay' = stay /\ messages' = messages
        /\ index' = index /\ rotation' = rotation
        /\ discovery' = discovery /\ settled' = settled /\ refresh' = refresh
        /\ task' = task /\ faults' = faults
    BY <1>11 DEF vars, providerVars, indexVars
  <2> QED BY <2>1, Zenon DEF PollInvariant, TypeOK, InboxIsSound, HeldIsPast, TasksArePast,
                             IsOfThePast, Known
<1> QED BY <1>1, <1>2, <1>3, <1>4, <1>5, <1>6, <1>7, <1>8, <1>9, <1>10, <1>11, Zenon
        DEF Next, RefreshStep

-----------------------------------------------------------------------------
(* The invariants.                                                          *)

\* Whatever polls, refreshes, webhooks and restarts do, the invariant holds.
THEOREM InboxInvariant == Spec => []PollInvariant
<1>1. Init => PollInvariant
  BY InitIsSound
<1>2. PollInvariant /\ [Next]_vars => PollInvariant'
  BY NextKeeps
<1> QED BY <1>1, <1>2, PTL DEF Spec

\* Every variable keeps its type.
THEOREM InboxTypes == Spec => []TypeOK
<1>1. PollInvariant => TypeOK
  BY DEF PollInvariant
<1> QED BY <1>1, InboxInvariant, PTL

\* The sweep's rotation is the index's own rows, each once; neither the index nor
\* the shared discovery is ever ahead of the provider; no state is settled that a
\* conversation never had (upsert, inbox_discovery, ConversationRefreshService).
THEOREM InboxSound == Spec => []InboxIsSound
<1>1. PollInvariant => InboxIsSound
  BY DEF PollInvariant
<1> QED BY <1>1, InboxInvariant, PTL

-----------------------------------------------------------------------------
(* Turns.                                                                   *)

\* A conversation that is ahead of another is not behind it.
LEMMA AheadIsOneWay ==
  ASSUME TypeOK, InboxIsSound, NEW c, NEW d, Ahead(c, d),
         NEW p \in DOMAIN rotation, NEW q \in DOMAIN rotation,
         rotation[p] = d, rotation[q] = c
  PROVE  ~(p < q)
<1>1. PICK i \in DOMAIN rotation, j \in DOMAIN rotation :
        i < j /\ rotation[i] = c /\ rotation[j] = d
  BY Zenon DEF Ahead
<1>2. i = q /\ j = p
  BY <1>1 DEF InboxIsSound, IsInjective
<1>3. i \in Nat /\ j \in Nat
  BY DEF TypeOK
<1> QED BY <1>1, <1>2, <1>3

\* An upsert gives nobody's turn away but that of the rows it writes.
LEMMA UpsertTakesItsOwnTurn ==
  ASSUME TypeOK, InboxIsSound,
         NEW rows \in Lists, NEW found, Remember(rows, found),
         NEW c \in Conversations, NEW d \in Conversations, Ahead(c, d), Ahead(d, c)'
  PROVE  c \in Range(Refs(rows)) /\ index'[c] = found[c]
<1> DEFINE refs == Refs(rows)
           rest == Keep(rotation, Known \ Range(refs))
<1>1. index' = [e \in Conversations |-> IF e \in Range(refs) THEN found[e] ELSE index[e]]
  BY Zenon DEF Remember, Upserted
<1>2. rotation' = rest \o refs
  BY Zenon DEF Remember
<1>3. refs \in Seq(Conversations)
  BY RefsOfRows
<1>4. rotation \in Seq(Conversations)
  BY DEF TypeOK
<1>5. /\ rest \in Seq(Conversations)
      /\ \A i, j \in DOMAIN rest : i < j =>
           \E p, q \in DOMAIN rotation :
             p < q /\ rest[i] = rotation[p] /\ rest[j] = rotation[q]
  <2> DEFINE T == Known \ Range(refs)
  <2> HIDE DEF T
  <2>1. /\ Keep(rotation, T) \in Seq(Conversations)
        /\ \A i, j \in DOMAIN Keep(rotation, T) : i < j =>
             \E p, q \in DOMAIN rotation :
               p < q /\ Keep(rotation, T)[i] = rotation[p] /\ Keep(rotation, T)[j] = rotation[q]
    BY <1>4, KeepKeeps
  <2> QED BY <2>1, Zenon DEF T
<1> HIDE DEF refs, rest
<1>6. SUFFICES ASSUME c \notin Range(refs) PROVE FALSE
  BY <1>1 DEF refs
<1>7. PICK i \in DOMAIN rotation', j \in DOMAIN rotation' :
        i < j /\ rotation'[i] = d /\ rotation'[j] = c
  BY Zenon DEF Ahead
<1> DEFINE m == Len(rest)
           n == Len(refs)
<1>8. /\ DOMAIN rotation' = 1 .. m + n
      /\ \A k \in 1 .. m : rotation'[k] = rest[k]
      /\ \A k \in 1 .. n : rotation'[m + k] = refs[k]
      /\ \A k \in DOMAIN rotation' : k \in 1 .. m \/ k - m \in 1 .. n
  BY <1>2, <1>3, <1>5, PlacesOfBoth
<1>9. m \in Nat /\ n \in Nat /\ DOMAIN rest = 1 .. m /\ DOMAIN refs = 1 .. n
  BY <1>3, <1>5
<1> HIDE DEF m, n
<1>10. j \in 1 .. m
  <2> SUFFICES ASSUME j - m \in 1 .. n PROVE FALSE
    BY <1>8
  <2>1. m + (j - m) = j
    BY <1>8, <1>9
  <2>2. refs[j - m] = c
    BY <1>7, <1>8, <2>1
  <2>3. c \in Range(refs)
    BY <1>9, <2>2 DEF Range
  <2> QED BY <1>6, <2>3
<1>11. i \in 1 .. m
  BY <1>7, <1>8, <1>9, <1>10
<1>12. rest[i] = d /\ rest[j] = c
  BY <1>7, <1>8, <1>10, <1>11
<1>13. PICK p \in DOMAIN rotation, q \in DOMAIN rotation :
         p < q /\ rotation[p] = d /\ rotation[q] = c
  BY <1>5, <1>7, <1>9, <1>10, <1>11, <1>12
<1> QED BY <1>13, AheadIsOneWay

LEMMA NoTurnIsLost ==
  ASSUME TypeOK, InboxIsSound, rotation' = rotation,
         NEW c, NEW d, Ahead(c, d), Ahead(d, c)'
  PROVE  FALSE
<1>1. PICK p \in DOMAIN rotation, q \in DOMAIN rotation :
        p < q /\ rotation[p] = d /\ rotation[q] = c
  BY Zenon DEF Ahead
<1> QED BY <1>1, AheadIsOneWay

\* A conversation loses its turn in the sweep only to a reading of it
\* (least_recently_refreshed, upsert).
THEOREM TurnsKept == Spec => TurnsAreKept
<1> DEFINE Read(c) == \/ health[c] # "refused" /\ index'[c] = Live(c)
                      \/ /\ refresh.step = "write" /\ c \in DOMAIN refresh.found
                         /\ index'[c] = refresh.found[c]
                      \/ task[c].step = "upsert" /\ index'[c] = task[c].found
           Turns == \A c, d \in Conversations : Ahead(c, d) /\ Ahead(d, c)' => Read(c)
<1>1. PollInvariant /\ [Next]_vars => [Turns]_vars
  <2> SUFFICES ASSUME PollInvariant, [Next]_vars,
                      NEW c \in Conversations, NEW d \in Conversations,
                      Ahead(c, d), Ahead(d, c)'
               PROVE  Read(c)
    OBVIOUS
  <2>1. TypeOK /\ InboxIsSound /\ HeldIsPast
    BY DEF PollInvariant
  <2>2. rotation' # rotation
    BY <2>1, NoTurnIsLost
  <2>3. CASE Poll
    <3>1. PICK saw \in Scans, page \in OrderedActivity(PageLimit) :
            \E found \in Observations(Range(page), saw) :
              Remember(Fresh(Pairs(page), found), found)
      BY <2>3, Zenon DEF Poll
    <3>2. PICK found \in Observations(Range(page), saw) :
            Remember(Fresh(Pairs(page), found), found)
      BY <3>1
    <3>3. page \in Seq(Conversations) /\ IsInjective(page)
      <4>1. PageLimit \in Nat /\ {} \in SUBSET Conversations
        BY InboxAssumption DEF InboxAssumption
      <4> QED BY <2>1, <3>1, <4>1, PagesAreLists
    <3>4. Pairs(page) \in Lists /\ Refs(Pairs(page)) = page
      BY <2>1, <3>3, PairsTell
    <3>5. PICK R \in SUBSET Range(page) :
            DOMAIN found = R /\ \A e \in R : found[e] = Live(e) /\ health[e] # "refused"
      <4>1. Range(page) \in SUBSET Conversations
        BY <3>3 DEF Range
      <4> QED BY <2>1, <3>2, <4>1, Observed
    <3> DEFINE rows == Fresh(Pairs(page), found)
    <3>6. rows \in Lists /\ Range(Refs(rows)) \subseteq DOMAIN found
      BY <3>3, <3>4, FreshIsRead
    <3>7. Remember(rows, found)
      BY <3>2
    <3> HIDE DEF rows
    <3>8. c \in Range(Refs(rows)) /\ index'[c] = found[c]
      BY <2>1, <3>6, <3>7, UpsertTakesItsOwnTurn
    <3> QED BY <3>5, <3>6, <3>8
  <2>4. CASE RefreshWrite
    <3> DEFINE rows == Fresh(refresh.batch, refresh.found)
    <3>1. refresh.step = "write" /\ Remember(rows, refresh.found)
      BY <2>4 DEF RefreshWrite
    <3>2. refresh.batch \in Lists /\ IsInjective(Refs(refresh.batch))
      BY <2>1, <3>1 DEF TypeOK, Refreshes, HeldIsPast
    <3>3. rows \in Lists /\ Range(Refs(rows)) \subseteq DOMAIN refresh.found
      BY <3>2, FreshIsRead
    <3> HIDE DEF rows
    <3>4. c \in Range(Refs(rows)) /\ index'[c] = refresh.found[c]
      BY <2>1, <3>1, <3>3, UpsertTakesItsOwnTurn
    <3> QED BY <3>1, <3>3, <3>4
  <2>5. ASSUME NEW e \in Conversations, TaskUpsert(e) PROVE Read(c)
    <3> DEFINE rows == <<<<e, index[e]>>>>
               found == [x \in {e} |-> task[e].found]
    <3>1. task[e].step = "upsert" /\ Remember(rows, found)
      BY <2>5 DEF TaskUpsert
    <3>2. rows \in Lists /\ Range(Refs(rows)) = {e}
      BY <2>1, OneRow
    <3>3. Remember(rows, found) /\ found[e] = task[e].found
      BY <3>1
    <3> HIDE DEF rows, found
    <3>4. c \in Range(Refs(rows)) /\ index'[c] = found[c]
      BY <2>1, <3>2, <3>3, UpsertTakesItsOwnTurn
    <3> QED BY <3>1, <3>2, <3>3, <3>4
  <2>6. CASE RefreshRead \/ RefreshDiscover \/ RefreshDraft \/ DiscoveryExpires \/ Restart
    <3>1. rotation' = rotation
      BY <2>6 DEF RefreshRead, RefreshDiscover, RefreshDraft, DiscoveryExpires, Restart,
                  indexVars
    <3> QED BY <2>2, <3>1
  <2>7. ASSUME NEW e \in Conversations,
               \/ TaskProcess(e) \/ TaskRead(e)
               \/ GuestWrites(e) \/ BookingMoves(e) \/ ThreadGoesDark(e)
        PROVE  Read(c)
    <3>1. rotation' = rotation
      BY <2>7 DEF TaskProcess, TaskRead, GuestWrites, BookingMoves, ThreadGoesDark, indexVars
    <3> QED BY <2>2, <3>1
  <2>8. CASE UNCHANGED vars
    BY <2>2, <2>8 DEF vars, indexVars
  <2> HIDE DEF Read
  <2> QED BY <2>3, <2>4, <2>5, <2>6, <2>7, <2>8, Zenon DEF Next, RefreshStep
<1>2. [][Turns]_vars <=> TurnsAreKept
  BY DEF TurnsAreKept
<1> QED BY <1>1, <1>2, InboxInvariant, PTL DEF Spec
=============================================================================
