---------------------------- MODULE KnowledgeProofs ----------------------------
(***************************************************************************)
(* A decision taken between two runs holds, for any number of rules,       *)
(* administrators and runs of any batch. The rows of the decided rules     *)
(* (DecidedStand) are kept by what a run at work has listed and read       *)
(* (RunSparesDecided): its list was made, and what it looked up was read,  *)
(* when the decision was there.                                            *)
(***************************************************************************)
EXTENDS Knowledge, TLAPS

LEMMA RowsAreTyped ==
  ASSUME TypeOK, NEW r \in Refs
  PROVE  /\ rows[r] \in Row \cup {Absent}
         /\ r \in Present <=> rows[r] # Absent
         /\ r \in Present => rows[r] \in Row
         /\ r \in Proposed <=> rows[r] # Absent /\ rows[r].status = "PROPOSED"
         /\ Absent \notin Row
  BY AbsentAssumption DEF TypeOK, Present, Proposed

\* An edit, a decision and a refresh leave a row a row.
LEMMA RowsAreEdited ==
  ASSUME NEW row \in Row, NEW name \in Names, NEW content \in Contents,
         NEW status \in KnowledgeStatus, NEW by \in Admins \cup {SeedActor, Nobody}
  PROVE  /\ [row EXCEPT !.name = name, !.content = content] \in Row
         /\ [row EXCEPT !.name = name, !.content = content].status = row.status
         /\ [row EXCEPT !.name = name, !.content = content].by = row.by
         /\ [row EXCEPT !.name = name, !.content = content].content = content
         /\ [row EXCEPT !.content = content] \in Row
         /\ [row EXCEPT !.content = content].status = row.status
         /\ [row EXCEPT !.content = content].by = row.by
         /\ [row EXCEPT !.status = status, !.by = by] \in Row
         /\ [row EXCEPT !.status = status, !.by = by].status = status
         /\ [row EXCEPT !.status = status, !.by = by].by = by
         /\ [row EXCEPT !.status = status, !.by = by].content = row.content
         /\ Rule(name, content, status, by) \in Row
         /\ Rule(name, content, status, by).status = status
         /\ Rule(name, content, status, by).by = by
         /\ Rule(name, content, status, by).content = content
  BY DEF Row, Rule

LEMMA NamesAreRefs ==
  ASSUME NEW name \in Names, NEW content \in Contents
  PROVE  Ref(name) \in Refs /\ <<name, content>> \in Refs
  BY DEF Ref, Refs

\* The steps of a run are told apart by its shape.
LEMMA RunShapes ==
  ASSUME TypeOK
  PROVE  /\ run = Idle <=> run.step = "idle"
         /\ run.step = "clear" => run.listed \in SUBSET Refs /\ run.batch \in Seq(Candidates)
         /\ run.step = "propose" => run.batch \in Seq(Candidates)
         /\ run.step = "commit" => /\ run.batch \in Seq(Candidates) /\ run.batch # << >>
                                   /\ run.existing \in Row \cup {Absent}
  BY DEF TypeOK, Run, Idle

\* A row names who decided, unless it is in the queue.
Attributed(row) == row.status = "PROPOSED" <=> row.by = Nobody

LEMMA RowsChange ==
  ASSUME TypeOK, NEW new \in [Refs -> Row \cup {Absent}], rows' = new,
         \A r \in Refs : new[r] # Absent => Attributed(new[r])
  PROVE  /\ rows' \in [Refs -> Row \cup {Absent}]
         /\ \A r \in Present' : rows'[r].status = "PROPOSED" <=> rows'[r].by = Nobody
  BY DEF Present, Attributed

LEMMA TouchIsCounted ==
  ASSUME TypeOK, Touch
  PROVE  touches' \in 0 .. MaxTouches /\ run' = run /\ runs' = runs
<1>1. MaxTouches \in Nat /\ touches \in 0 .. MaxTouches
  BY KnowledgeAssumption DEF TypeOK
<1> QED BY <1>1 DEF Touch

LEMMA RefreshIsTyped ==
  ASSUME NEW existing \in Row \cup {Absent}, NEW row \in Row \cup {Absent},
         NEW candidate \in Candidates, existing = Absent <=> row = Absent,
         row # Absent => Attributed(row)
  PROVE  /\ Refreshed(existing, row, candidate) \in Row
         /\ Attributed(Refreshed(existing, row, candidate))
<1>1. candidate[1] \in Names /\ candidate[2] \in Contents
  BY DEF Candidates
<1>2. CASE existing = Absent
  <2> DEFINE new == Rule(candidate[1], candidate[2], "PROPOSED", Nobody)
  <2>1. Refreshed(existing, row, candidate) = new
    BY <1>2 DEF Refreshed
  <2>2. new \in Row /\ new.status = "PROPOSED" /\ new.by = Nobody
    BY <1>1 DEF Rule, Row, KnowledgeStatus
  <2> QED BY <2>1, <2>2 DEF Attributed
<1>3. CASE existing # Absent
  <2>1. row \in Row /\ Attributed(row)
    BY <1>3
  <2>2. [row EXCEPT !.content = candidate[2]] \in Row
        /\ Attributed([row EXCEPT !.content = candidate[2]])
    BY <1>1, <2>1 DEF Row, Attributed
  <2> QED BY <1>3, <2>1, <2>2 DEF Refreshed
<1> QED BY <1>2, <1>3

LEMMA StepsAreTyped ==
  ASSUME TypeOK, [Next]_vars
  PROVE  TypeOK'
<1> USE KnowledgeAssumption, AbsentAssumption
<1>0. /\ rows \in [Refs -> Row \cup {Absent}]
      /\ \A r \in Refs : rows[r] # Absent => Attributed(rows[r])
  BY DEF TypeOK, Present, Attributed
<1>1. CASE UNCHANGED vars
  BY <1>1 DEF TypeOK, vars, history, bounds, Present
<1>2. CASE RunStarts
  <2>1. PICK batch \in Batches :
          run' = [step |-> "clear", listed |-> Proposed, batch |-> batch]
    BY <1>2 DEF RunStarts
  <2>2. Proposed \in SUBSET Refs /\ batch \in Seq(Candidates)
    BY DEF Proposed, Present, Candidates
  <2>3. run' \in Run
    BY <2>1, <2>2 DEF Run
  <2> QED
    BY <1>2, <2>3 DEF RunStarts, TypeOK, history, Present
<1>3. CASE RunClears
  <2> DEFINE new == [r \in Refs |-> IF r \in run.listed THEN Absent ELSE rows[r]]
  <2>1. new \in [Refs -> Row \cup {Absent}] /\ rows' = new
        /\ \A r \in Refs : new[r] # Absent => Attributed(new[r])
    BY <1>0, <1>3 DEF RunClears
  <2>2. run' \in Run
    BY <1>3, RunShapes DEF RunClears, Run
  <2> QED
    BY <1>3, <2>1, <2>2, RowsChange DEF RunClears, TypeOK, history, bounds
<1>4. CASE RunLooksUp
  <2>1. Head(run.batch) \in Candidates
    BY <1>4, RunShapes DEF RunLooksUp
  <2>2. rows[Ref(Head(run.batch)[1])] \in Row \cup {Absent}
    BY <1>0, <2>1 DEF Candidates, Ref, Refs
  <2>3. run' \in Run
    BY <1>4, <2>2, RunShapes DEF RunLooksUp, Run
  <2> QED
    BY <1>4, <2>3 DEF RunLooksUp, TypeOK, history, bounds, Present
<1>5. CASE RunCommits
  <2> DEFINE candidate == Head(run.batch)
             ref == Ref(candidate[1])
             refreshed == Refreshed(run.existing, rows[ref], candidate)
             new == [rows EXCEPT ![ref] = refreshed]
  <2>1. /\ candidate \in Candidates /\ Tail(run.batch) \in Seq(Candidates)
        /\ run.existing \in Row \cup {Absent}
    BY <1>5, RunShapes DEF RunCommits
  <2>2. ref \in Refs
    BY <2>1 DEF Candidates, Ref, Refs
  <2>3. CASE (run.existing = Absent) # (rows[ref] = Absent)
    <3>1. run' = Idle /\ UNCHANGED <<rows, current, history, bounds>>
      BY <1>5, <2>3 DEF RunCommits
    <3> QED BY <3>1 DEF TypeOK, Run, history, bounds, Present
  <2>4. CASE run.existing = Absent <=> rows[ref] = Absent
    <3>1. /\ rows' = new
          /\ run' = [step |-> "propose", batch |-> Tail(run.batch)]
          /\ UNCHANGED <<current, history, bounds>>
      BY <1>5, <2>4 DEF RunCommits
    <3>2. refreshed \in Row /\ Attributed(refreshed)
      BY <1>0, <2>1, <2>2, <2>4, RefreshIsTyped
    <3> HIDE DEF refreshed
    <3>3. new \in [Refs -> Row \cup {Absent}]
          /\ \A r \in Refs : new[r] # Absent => Attributed(new[r])
      BY <1>0, <2>2, <3>2
    <3>4. run' \in Run
      BY <2>1, <3>1 DEF Run
    <3> QED
      BY <3>1, <3>3, <3>4, RowsChange DEF TypeOK, history, bounds
  <2> QED BY <2>3, <2>4
<1>6. CASE RunEnds
  BY <1>6 DEF RunEnds, TypeOK, Run, history, bounds, Present
<1>7. ASSUME NEW a \in Admins, NEW r \in Refs, NEW status \in {"APPROVED", "REJECTED"},
             Decide(a, r, status)
      PROVE  TypeOK'
  <2> DEFINE row == [rows[r] EXCEPT !.status = status, !.by = a]
             new == [rows EXCEPT ![r] = row]
  <2>1. rows' = new /\ r \in Present
    BY <1>7 DEF Decide
  <2>2. row \in Row /\ Attributed(row)
    <3>1. rows[r] \in Row /\ status \in KnowledgeStatus /\ status # "PROPOSED"
      BY <1>0, <2>1 DEF Present, KnowledgeStatus
    <3> QED BY <3>1 DEF Row, Attributed
  <2> HIDE DEF row
  <2>3. new \in [Refs -> Row \cup {Absent}]
        /\ \A s \in Refs : new[s] # Absent => Attributed(new[s])
    BY <1>0, <2>2
  <2>5. quiet' \subseteq Refs /\ replaces' \subseteq Refs \X Refs
    BY <1>7 DEF Decide, Noted, TypeOK
  <2>6. /\ rows' \in [Refs -> Row \cup {Absent}]
        /\ \A s \in Present' : rows'[s].status = "PROPOSED" <=> rows'[s].by = Nobody
    BY <2>1, <2>3, RowsChange
  <2>7. touches' \in 0 .. MaxTouches /\ run' = run /\ runs' = runs
    BY <1>7, TouchIsCounted DEF Decide
  <2> QED
    BY <1>7, <2>6, <2>7, <2>5 DEF Decide, TypeOK
<1>8. ASSUME NEW a \in Admins \cup {SeedActor}, NEW name \in Names, NEW content \in Contents,
             Create(a, name, content)
      PROVE  TypeOK'
  <2> DEFINE row == Rule(name, content, "APPROVED", a)
             new == [rows EXCEPT ![Ref(name)] = row]
  <2>1. rows' = new /\ Ref(name) \in Refs
    BY <1>8, NamesAreRefs DEF Create
  <2>2. row \in Row /\ Attributed(row)
    BY DEF Rule, Row, Attributed, KnowledgeStatus
  <2> HIDE DEF row
  <2>3. new \in [Refs -> Row \cup {Absent}]
        /\ \A s \in Refs : new[s] # Absent => Attributed(new[s])
    BY <1>0, <2>2
  <2>5. quiet' \subseteq Refs /\ replaces' \subseteq Refs \X Refs
    BY <1>8, <2>1 DEF Create, Noted, TypeOK
  <2>6. /\ rows' \in [Refs -> Row \cup {Absent}]
        /\ \A s \in Present' : rows'[s].status = "PROPOSED" <=> rows'[s].by = Nobody
    BY <2>1, <2>3, RowsChange
  <2>7. touches' \in 0 .. MaxTouches /\ run' = run /\ runs' = runs
    BY <1>8, TouchIsCounted DEF Create
  <2> QED
    BY <1>8, <2>6, <2>7, <2>5 DEF Create, TypeOK
<1>9. ASSUME NEW r \in Refs, NEW name \in Names, NEW content \in Contents,
             Edit(r, name, content)
      PROVE  TypeOK'
  <2> DEFINE row == [rows[r] EXCEPT !.name = name, !.content = content]
             new == [rows EXCEPT ![r] = row]
  <2>1. rows' = new /\ r \in Present
    BY <1>9 DEF Edit
  <2>2. row \in Row /\ Attributed(row)
    <3>1. rows[r] \in Row /\ Attributed(rows[r])
      BY <1>0, <2>1 DEF Present
    <3> QED BY <3>1 DEF Row, Attributed
  <2> HIDE DEF row
  <2>3. new \in [Refs -> Row \cup {Absent}]
        /\ \A s \in Refs : new[s] # Absent => Attributed(new[s])
    BY <1>0, <2>2
  <2>4. quiet' = quiet /\ replaces' = replaces
    BY <1>9 DEF Edit, history
  <2>6. /\ rows' \in [Refs -> Row \cup {Absent}]
        /\ \A s \in Present' : rows'[s].status = "PROPOSED" <=> rows'[s].by = Nobody
    BY <2>1, <2>3, RowsChange
  <2>7. touches' \in 0 .. MaxTouches /\ run' = run /\ runs' = runs
    BY <1>9, TouchIsCounted DEF Edit
  <2> QED
    BY <1>9, <2>6, <2>7, <2>4 DEF Edit, TypeOK
<1>10. ASSUME NEW a \in Admins, NEW r \in Refs, SupersedeReads(a, r) PROVE TypeOK'
  <2>1. rows[r] \in Row
    BY <1>0, <1>10 DEF SupersedeReads, Told, Present
  <2>2. current' \in [Admins -> [ref : Refs, row : Row] \cup {Absent}]
    BY <1>10, <2>1 DEF SupersedeReads, TypeOK
  <2> QED
    BY <1>10, <2>2 DEF SupersedeReads, Touch, TypeOK, history, Present
<1>11. ASSUME NEW a \in Admins, NEW name \in Names, NEW content \in Contents,
              SupersedeWrites(a, name, content)
       PROVE  TypeOK'
  <2>1. current' \in [Admins -> [ref : Refs, row : Row] \cup {Absent}]
    BY <1>11 DEF SupersedeWrites, TypeOK
  <2> DEFINE old  == current[a].ref
             ref  == <<name, content>>
             past == [rows[old] EXCEPT !.status = "SUPERSEDED", !.by = a]
             row  == Rule(name, content, "APPROVED", a)
             new  == [rows EXCEPT ![old] = past, ![ref] = row]
  <2>2. CASE UNCHANGED <<rows, history>>
    BY <1>11, <2>1, <2>2 DEF SupersedeWrites, TypeOK, history, bounds, Present
  <2>3. CASE /\ rows' = new /\ Noted({old, ref}) /\ replaces' = replaces \cup {<<ref, old>>}
             /\ old \in Present /\ ref \notin Present
    <3>1. old \in Refs /\ ref \in Refs /\ old # ref
      BY <2>3, NamesAreRefs DEF Present
    <3>2. past \in Row /\ Attributed(past)
      <4>1. rows[old] \in Row
        BY <1>0, <2>3 DEF Present
      <4> QED BY <4>1 DEF Row, Attributed, KnowledgeStatus
    <3>3. row \in Row /\ Attributed(row)
      BY DEF Rule, Row, Attributed, KnowledgeStatus
    <3> HIDE DEF past, row, old, ref
    <3>4. new \in [Refs -> Row \cup {Absent}]
          /\ \A s \in Refs : new[s] # Absent => Attributed(new[s])
      BY <1>0, <3>1, <3>2, <3>3
    <3>7. quiet' \subseteq Refs /\ replaces' \subseteq Refs \X Refs
      BY <2>3, <3>1 DEF Noted, TypeOK
    <3> QED
      BY <1>11, <2>1, <2>3, <3>4, <3>7, RowsChange DEF SupersedeWrites, TypeOK, bounds
  <2> QED
    BY <1>11, <2>2, <2>3 DEF SupersedeWrites
<1> QED
  BY <1>1, <1>2, <1>3, <1>4, <1>5, <1>6, <1>7, <1>8, <1>9, <1>10, <1>11 DEF Next, Candidates

\* Every rule keeps its type, and a decided one names who decided.
THEOREM TypeCorrect == Spec => []TypeOK
<1>1. Init => TypeOK
  BY KnowledgeAssumption, AbsentAssumption DEF Init, TypeOK, Run, Present
<1> QED
  BY <1>1, StepsAreTyped, PTL DEF Spec

-----------------------------------------------------------------------------
(* The decisions.                                                           *)

\* A rule that was decided between two runs is there, and out of the queue.
Stands(r) == rows[r] # Absent /\ rows[r].status # "PROPOSED"

DecidedStand == \A r \in quiet : Stands(r)

\* The run at work neither listed a decided rule nor read it as undecided.
RunSparesDecided ==
  /\ run.step = "clear" => run.listed \cap quiet = {}
  /\ run.step = "commit" /\ Ref(Head(run.batch)[1]) \in quiet =>
       run.existing # Absent /\ run.existing.status # "PROPOSED"

Inv == DecidedStand /\ RunSparesDecided

\* A person's step keeps every decision that stood, or decides anew.
LEMMA DecisionsAreKept ==
  ASSUME TypeOK, DecidedStand, NEW S \in SUBSET Refs,
         quiet' \subseteq quiet \cup S,
         \A r \in quiet \ S : rows'[r] = rows[r],
         \A r \in S : rows'[r] # Absent /\ rows'[r].status # "PROPOSED"
  PROVE  DecidedStand'
  BY DEF DecidedStand, Stands

\* ... and what the run holds is as good as before, when nothing was decided by it.
LEMMA RunIsUntouched ==
  ASSUME TypeOK, RunSparesDecided, run' = run, run = Idle \/ quiet' = quiet
  PROVE  RunSparesDecided'
  BY DEF RunSparesDecided, Idle, Ref

LEMMA InvIsInvariant == Spec => []Inv
<1>1. Init => Inv
  BY DEF Init, Inv, DecidedStand, RunSparesDecided, Idle
<1>2. TypeOK /\ TypeOK' /\ Inv /\ [Next]_vars => Inv'
  <2> SUFFICES ASSUME TypeOK, TypeOK', Inv, [Next]_vars PROVE Inv'
    OBVIOUS
  <2> USE DEF Inv
  <2>0. /\ quiet \subseteq Refs
        /\ rows \in [Refs -> Row \cup {Absent}] /\ Absent \notin Row
    BY AbsentAssumption DEF TypeOK
  <2>1. CASE UNCHANGED vars
    BY <2>1 DEF vars, history, DecidedStand, Stands, RunSparesDecided, Ref
  <2>2. CASE RunStarts
    <3>1. run'.step = "clear" /\ run'.listed = Proposed /\ UNCHANGED <<rows, history>>
      BY <2>2 DEF RunStarts
    <3>2. Proposed \cap quiet = {}
      BY DEF DecidedStand, Stands, Proposed
    <3> QED BY <3>1, <3>2 DEF DecidedStand, Stands, RunSparesDecided, history
  <2>3. CASE RunClears
    <3>1. run'.step = "propose" /\ UNCHANGED history
      BY <2>3 DEF RunClears
    <3>2. \A r \in quiet : rows'[r] = rows[r]
      BY <2>0, <2>3 DEF RunClears, RunSparesDecided
    <3> QED BY <3>1, <3>2 DEF DecidedStand, Stands, RunSparesDecided, history
  <2>4. CASE RunLooksUp
    <3>1. /\ run'.step = "commit" /\ run'.batch = run.batch
          /\ run'.existing = rows[Ref(Head(run.batch)[1])]
          /\ UNCHANGED <<rows, history>>
      BY <2>4 DEF RunLooksUp
    <3> QED BY <3>1 DEF DecidedStand, Stands, RunSparesDecided, history, Ref
  <2>5. CASE RunCommits
    <3> DEFINE candidate == Head(run.batch)
               ref == Ref(candidate[1])
    <3>1. run'.step \in {"idle", "propose"} /\ UNCHANGED history
      BY <2>5 DEF RunCommits, Idle
    <3>2. \/ UNCHANGED rows
          \/ rows' = [rows EXCEPT ![ref] = Refreshed(run.existing, @, candidate)]
      BY <2>5 DEF RunCommits
    <3>3. ref \in quiet => Refreshed(run.existing, rows[ref], candidate) = rows[ref]
      BY <2>5 DEF RunCommits, RunSparesDecided, Refreshed
    <3> HIDE DEF candidate, ref
    <3>4. \A r \in quiet : rows'[r] = rows[r]
      BY <2>0, <3>2, <3>3
    <3> QED BY <3>1, <3>4 DEF DecidedStand, Stands, RunSparesDecided, history
  <2>6. CASE RunEnds
    BY <2>6 DEF RunEnds, DecidedStand, Stands, RunSparesDecided, history, Idle
  <2>7. ASSUME NEW a \in Admins, NEW r \in Refs, NEW status \in {"APPROVED", "REJECTED"},
               Decide(a, r, status)
        PROVE  Inv'
    <3>1. rows' = [rows EXCEPT ![r] = [@ EXCEPT !.status = status, !.by = a]]
          /\ rows[r] \in Row
      BY <2>0, <2>7 DEF Decide, Present
    <3>2. /\ rows'[r] # Absent /\ rows'[r].status # "PROPOSED"
          /\ \A s \in quiet \ {r} : rows'[s] = rows[s]
      <4>1. rows'[r] = [rows[r] EXCEPT !.status = status, !.by = a]
        BY <2>0, <3>1
      <4>2. status \in KnowledgeStatus /\ status # "PROPOSED"
        BY DEF KnowledgeStatus
      <4>3. [rows[r] EXCEPT !.status = status, !.by = a] \in Row
            /\ [rows[r] EXCEPT !.status = status, !.by = a].status = status
        BY <3>1, <4>2 DEF Row
      <4> QED BY <2>0, <3>1, <4>1, <4>2, <4>3
    <3>3. run' = run /\ quiet' = IF run = Idle THEN quiet \cup {r} ELSE quiet
      BY <2>7 DEF Decide, Noted, Touch
    <3>4. DecidedStand'
      <4>1. {r} \in SUBSET Refs /\ quiet' \subseteq quiet \cup {r}
        BY <3>3
      <4> QED BY <3>2, <4>1, DecisionsAreKept
    <3> QED BY <3>3, <3>4, RunIsUntouched
  <2>8. ASSUME NEW a \in Admins \cup {SeedActor}, NEW name \in Names, NEW content \in Contents, Create(a, name, content)
        PROVE  Inv'
    <3> DEFINE r == Ref(name)
    <3>1. r \in Refs /\ rows' = [rows EXCEPT ![r] = Rule(name, content, "APPROVED", a)]
      BY <2>8, NamesAreRefs DEF Create
    <3>2. /\ rows[r] = Absent
          /\ rows'[r].status # "PROPOSED" /\ rows'[r] # Absent
          /\ \A s \in quiet \ {r} : rows'[s] = rows[s]
      <4>1. rows[r] = Absent
        BY <2>8, <3>1 DEF Create, Present
      <4>2. rows'[r] = Rule(name, content, "APPROVED", a)
        BY <2>0, <3>1
      <4>3. rows'[r].status = "APPROVED" /\ rows'[r] # Absent
        BY <2>0, <4>2 DEF Rule, Row, KnowledgeStatus
      <4> QED BY <2>0, <3>1, <4>1, <4>3
    <3>3. run' = run /\ quiet' = IF run = Idle THEN quiet \cup {r} ELSE quiet
      BY <2>8 DEF Create, Noted, Touch
    <3> HIDE DEF r
    <3>4. DecidedStand'
      <4>1. {r} \in SUBSET Refs /\ quiet' \subseteq quiet \cup {r}
        BY <3>1, <3>3
      <4> QED BY <3>2, <4>1, DecisionsAreKept
    <3> QED BY <3>3, <3>4, RunIsUntouched
  <2>9. ASSUME NEW r \in Refs, NEW name \in Names, NEW content \in Contents,
               Edit(r, name, content)
        PROVE  Inv'
    <3>1. rows' = [rows EXCEPT ![r] = [@ EXCEPT !.name = name, !.content = content]]
          /\ rows[r] \in Row
      BY <2>0, <2>9 DEF Edit, Present
    <3>2. /\ rows'[r] # Absent /\ rows'[r].status = rows[r].status
          /\ \A s \in quiet \ {r} : rows'[s] = rows[s]
      <4>1. rows'[r] = [rows[r] EXCEPT !.name = name, !.content = content]
        BY <2>0, <3>1
      <4>2. rows'[r] \in Row /\ rows'[r].status = rows[r].status
        BY <3>1, <4>1, ZenonT(60) DEF Row
      <4> QED BY <2>0, <3>1, <4>2
    <3>3. run' = run /\ quiet' = quiet
      BY <2>9 DEF Edit, Touch, history
    <3>4. DecidedStand'
      BY <3>2, <3>3 DEF DecidedStand, Stands
    <3> QED BY <3>3, <3>4, RunIsUntouched
  <2>10. ASSUME NEW a \in Admins, NEW r \in Refs, SupersedeReads(a, r) PROVE Inv'
    BY <2>10, RunIsUntouched
    DEF SupersedeReads, Touch, history, DecidedStand, Stands
  <2>11. ASSUME NEW a \in Admins, NEW name \in Names, NEW content \in Contents,
                SupersedeWrites(a, name, content)
         PROVE  Inv'
    <3> DEFINE old == current[a].ref
               ref == <<name, content>>
    <3>1. run' = run
      BY <2>11 DEF SupersedeWrites
    <3>2. CASE UNCHANGED <<rows, history>>
      BY <3>1, <3>2, RunIsUntouched DEF history, DecidedStand, Stands
    <3>3. CASE /\ rows' = [rows EXCEPT ![old] = [@ EXCEPT !.status = "SUPERSEDED", !.by = a],
                                       ![ref] = Rule(name, content, "APPROVED", a)]
               /\ Noted({old, ref}) /\ old \in Present /\ ref \notin Present
      <4>1. old \in Refs /\ ref \in Refs /\ old # ref /\ rows[old] \in Row
        BY <2>0, <3>3, NamesAreRefs DEF Present
      <4>2. /\ rows'[old] = [rows[old] EXCEPT !.status = "SUPERSEDED", !.by = a]
            /\ rows'[ref] = Rule(name, content, "APPROVED", a)
            /\ \A s \in quiet \ {old, ref} : rows'[s] = rows[s]
        BY <2>0, <3>3, <4>1
      <4>3. rows'[old] # Absent /\ rows'[old].status # "PROPOSED"
        <5> DEFINE past == [rows[old] EXCEPT !.status = "SUPERSEDED", !.by = a]
        <5>1. past \in Row /\ past.status = "SUPERSEDED"
          BY <4>1 DEF Row, KnowledgeStatus
        <5> QED BY <2>0, <4>2, <5>1
      <4>4. rows'[ref] # Absent /\ rows'[ref].status # "PROPOSED"
        BY <2>0, <4>2 DEF Rule, Row, KnowledgeStatus
      <4>5. quiet' = IF run = Idle THEN quiet \cup {old, ref} ELSE quiet
        BY <3>3 DEF Noted
      <4> HIDE DEF old, ref
      <4>6. DecidedStand'
        <5>1. {old, ref} \in SUBSET Refs /\ quiet' \subseteq quiet \cup {old, ref}
          BY <4>1, <4>5
        <5> QED BY <4>2, <4>3, <4>4, <5>1, DecisionsAreKept
      <4> QED BY <3>1, <4>5, <4>6, RunIsUntouched
    <3> QED BY <2>11, <3>2, <3>3 DEF SupersedeWrites
  <2> QED
    BY <2>1, <2>2, <2>3, <2>4, <2>5, <2>6, <2>7, <2>8, <2>9, <2>10, <2>11,
       KnowledgeAssumption DEF Next
<1> QED
  BY <1>1, <1>2, TypeCorrect, PTL DEF Spec

\* No run deletes a decision that was there when it started, or returns it to the
\* queue (clear_proposed, propose).
THEOREM DecisionsHold == Spec => []DecisionsOutliveRuns
<1>1. TypeOK /\ Inv => DecisionsOutliveRuns
  BY DEF TypeOK, Inv, DecidedStand, Stands, DecisionsOutliveRuns, Present, Proposed
<1> QED
  BY <1>1, TypeCorrect, InvIsInvariant, PTL

-----------------------------------------------------------------------------
(* The retired rules and what replaced them.                                *)

Retired == {r \in Present : rows[r].status = "SUPERSEDED"}

\* What was written to replace a rule stays: it is never in the queue, and no run
\* lists it.
ReplacementsStay ==
  /\ \A r \in Present : r[2] # Original => rows[r].status # "PROPOSED"
  /\ run.step = "clear" => \A r \in run.listed : r[2] = Original
  /\ \A p \in replaces : p[1] \in Present /\ p[1][2] # Original

Balance == RetiredHasReplacement /\ ReplacementsStay

\* Nothing but rows changes, and what was there is.
LEMMA ReplacementsAreKept ==
  ASSUME TypeOK, TypeOK', Balance, replaces' = replaces, Retired' \subseteq Retired,
         \A r \in Present : r[2] # Original => r \in Present',
         \A r \in Present' : r[2] # Original => rows'[r].status # "PROPOSED",
         run'.step = "clear" => \A r \in run'.listed : r[2] = Original
  PROVE  Balance'
<1>1. \A p \in replaces : p[1] \in Present' /\ p[1][2] # Original
  BY DEF Balance, ReplacementsStay
<1>2. ASSUME NEW r \in Present', rows'[r].status = "SUPERSEDED"
      PROVE  \E s \in Present' : <<s, r>> \in replaces'
  <2>1. r \in Present /\ rows[r].status = "SUPERSEDED"
    BY <1>2 DEF Retired
  <2>2. PICK s \in Present : <<s, r>> \in replaces
    BY <2>1 DEF Balance, RetiredHasReplacement
  <2>3. s \in Present'
    BY <1>1, <2>2
  <2> QED BY <2>2, <2>3
<1>3. \A p, q \in replaces' : p[1] = q[1] => p = q
  BY Zenon DEF Balance, RetiredHasReplacement
<1>4. RetiredHasReplacement'
  BY <1>2, <1>3, Zenon DEF RetiredHasReplacement
<1>5. ReplacementsStay'
  BY <1>1, Zenon DEF ReplacementsStay
<1> QED BY <1>4, <1>5, Zenon DEF Balance

\* A step that sets one row to another status than SUPERSEDED, and does not put a
\* replacement in the queue.
LEMMA OneRowIsSet ==
  ASSUME TypeOK, TypeOK', Balance, NEW r \in Refs, NEW row \in Row,
         rows' = [rows EXCEPT ![r] = row], replaces' = replaces,
         row.status = "SUPERSEDED" => r \in Retired,
         row.status = "PROPOSED" => r[2] = Original,
         run' = run \/ run'.step # "clear"
  PROVE  Balance'
<1>1. /\ rows \in [Refs -> Row \cup {Absent}] /\ row # Absent
  BY AbsentAssumption DEF TypeOK
<1>2. rows'[r] = row /\ \A s \in Refs \ {r} : rows'[s] = rows[s]
  BY <1>1
<1>3. Retired' \subseteq Retired
  BY <1>1, <1>2 DEF Retired, Present
<1>4. /\ \A s \in Present : s[2] # Original => s \in Present'
      /\ \A s \in Present' : s[2] # Original => rows'[s].status # "PROPOSED"
  BY <1>1, <1>2 DEF Present, Balance, ReplacementsStay
<1>5. run'.step = "clear" => \A s \in run'.listed : s[2] = Original
  BY DEF Balance, ReplacementsStay
<1> QED BY <1>3, <1>4, <1>5, ReplacementsAreKept

LEMMA NoRowIsSet ==
  ASSUME TypeOK, TypeOK', Balance, rows' = rows, replaces' = replaces,
         run' = run \/ run'.step # "clear"
  PROVE  Balance'
<1>1. /\ Retired' = Retired /\ Present' = Present
      /\ \A r \in Present : r[2] # Original => rows'[r].status # "PROPOSED"
  BY DEF Retired, Present, Balance, ReplacementsStay
<1>2. run'.step = "clear" => \A s \in run'.listed : s[2] = Original
  BY DEF Balance, ReplacementsStay
<1> QED BY <1>1, <1>2, ReplacementsAreKept

LEMMA BalanceIsInvariant == Spec => []Balance
<1>1. Init => Balance
  <2> SUFFICES ASSUME Init PROVE Balance
    OBVIOUS
  <2>1. Present = {} /\ replaces = {}
    BY DEF Init, Present
  <2> QED BY <2>1 DEF Init, Balance, RetiredHasReplacement, ReplacementsStay, Idle
<1>2. TypeOK /\ TypeOK' /\ Balance /\ [Next]_vars => Balance'
  <2> SUFFICES ASSUME TypeOK, TypeOK', Balance, [Next]_vars
               PROVE  Balance'
    OBVIOUS
  <2>0. rows \in [Refs -> Row \cup {Absent}] /\ Absent \notin Row
    BY AbsentAssumption DEF TypeOK
  <2>2. CASE UNCHANGED vars
    BY <2>2, NoRowIsSet DEF vars, history
  <2>3. CASE RunStarts
    <3>1. rows' = rows /\ run'.listed = Proposed /\ replaces' = replaces
      BY <2>3 DEF RunStarts, history
    <3>2. /\ Retired' = Retired /\ Present' = Present
          /\ \A r \in Present : r[2] # Original => rows'[r].status # "PROPOSED"
      BY <3>1 DEF Retired, Present, Balance, ReplacementsStay
    <3>3. \A r \in run'.listed : r[2] = Original
      BY <3>1 DEF Balance, ReplacementsStay, Proposed
    <3> QED BY <3>1, <3>2, <3>3, ReplacementsAreKept
  <2>4. CASE RunClears
    <3>1. \A r \in Refs : rows'[r] = IF r \in run.listed THEN Absent ELSE rows[r]
      BY <2>4 DEF RunClears
    <3>2. run.step = "clear" /\ run'.step = "propose" /\ replaces' = replaces
      BY <2>4 DEF RunClears, history
    <3>3. /\ Retired' \subseteq Retired
          /\ \A r \in Present : r[2] # Original => r \in Present'
          /\ \A r \in Present' : r[2] # Original => rows'[r].status # "PROPOSED"
      BY <3>1, <3>2 DEF Retired, Present, Balance, ReplacementsStay
    <3> QED BY <3>2, <3>3, ReplacementsAreKept
  <2>5. CASE RunLooksUp \/ RunEnds
    BY <2>5, NoRowIsSet DEF RunLooksUp, RunEnds, Idle, history
  <2>6. CASE RunCommits
    <3> DEFINE candidate == Head(run.batch)
               ref == Ref(candidate[1])
               refreshed == Refreshed(run.existing, rows[ref], candidate)
    <3>1. run'.step # "clear" /\ replaces' = replaces
      BY <2>6 DEF RunCommits, Idle, history
    <3>2. CASE UNCHANGED rows
      BY <3>1, <3>2, NoRowIsSet
    <3>3. CASE /\ run.existing = Absent <=> rows[ref] = Absent
               /\ rows' = [rows EXCEPT ![ref] = refreshed]
      <4>1. candidate \in Candidates /\ run.existing \in Row \cup {Absent}
        BY <2>6, RunShapes DEF RunCommits
      <4>2. ref \in Refs /\ ref[2] = Original
        BY <4>1 DEF Candidates, Ref, Refs
      <4>3. rows[ref] # Absent => Attributed(rows[ref])
        BY <2>0, <4>2 DEF TypeOK, Present, Attributed
      <4>4. refreshed \in Row
        BY <2>0, <3>3, <4>1, <4>2, <4>3, RefreshIsTyped
      <4>5. refreshed.status = "SUPERSEDED" => ref \in Retired
        <5>1. CASE run.existing = Absent
          BY <5>1 DEF Refreshed, Rule
        <5>2. CASE run.existing # Absent
          <6>1. rows[ref] \in Row /\ ref \in Present
            BY <2>0, <3>3, <4>2, <5>2 DEF Present
          <6>2. refreshed.status = rows[ref].status
            BY <5>2, <6>1 DEF Refreshed, Row
          <6> QED BY <6>1, <6>2 DEF Retired
        <5> QED BY <5>1, <5>2
      <4> HIDE DEF refreshed, ref
      <4> QED BY <3>1, <3>3, <4>2, <4>4, <4>5, OneRowIsSet
    <3> QED BY <2>6, <3>2, <3>3 DEF RunCommits
  <2>7. ASSUME NEW a \in Admins, NEW r \in Refs, NEW status \in {"APPROVED", "REJECTED"},
               Decide(a, r, status)
        PROVE  Balance'
    <3> DEFINE row == [rows[r] EXCEPT !.status = status, !.by = a]
    <3>1. /\ rows' = [rows EXCEPT ![r] = row] /\ run' = run /\ rows[r] \in Row
          /\ replaces' = replaces
      BY <2>0, <2>7 DEF Decide, Touch, Present
    <3>2. status \in KnowledgeStatus /\ status # "PROPOSED" /\ status # "SUPERSEDED"
      BY DEF KnowledgeStatus
    <3>3. row \in Row /\ row.status = status
      BY <3>1, <3>2 DEF Row
    <3> HIDE DEF row
    <3> QED BY <3>1, <3>2, <3>3, OneRowIsSet
  <2>8. ASSUME NEW a \in Admins \cup {SeedActor}, NEW name \in Names, NEW content \in Contents,
               Create(a, name, content)
        PROVE  Balance'
    <3> DEFINE row == Rule(name, content, "APPROVED", a)
    <3>1. /\ rows' = [rows EXCEPT ![Ref(name)] = row] /\ run' = run /\ Ref(name) \in Refs
          /\ replaces' = replaces
      BY <2>8, NamesAreRefs DEF Create, Touch
    <3>2. row \in Row /\ row.status = "APPROVED"
      BY DEF Row, Rule, KnowledgeStatus
    <3> HIDE DEF row
    <3> QED BY <3>1, <3>2, OneRowIsSet
  <2>9. ASSUME NEW r \in Refs, NEW name \in Names, NEW content \in Contents,
               Edit(r, name, content)
        PROVE  Balance'
    <3> DEFINE row == [rows[r] EXCEPT !.name = name, !.content = content]
    <3>1. /\ rows' = [rows EXCEPT ![r] = row] /\ run' = run /\ rows[r] \in Row
          /\ r \in Present /\ replaces' = replaces
      BY <2>0, <2>9 DEF Edit, Touch, Present, history
    <3>2. row \in Row /\ row.status = rows[r].status
      BY <3>1 DEF Row
    <3> HIDE DEF row
    <3>3. row.status = "SUPERSEDED" => r \in Retired
      BY <3>1, <3>2 DEF Retired
    <3>4. row.status = "PROPOSED" => r[2] = Original
      BY <3>1, <3>2 DEF Balance, ReplacementsStay
    <3> QED BY <3>1, <3>2, <3>3, <3>4, OneRowIsSet
  <2>10. ASSUME NEW a \in Admins, NEW r \in Refs, SupersedeReads(a, r) PROVE Balance'
    BY <2>10, NoRowIsSet DEF SupersedeReads, Touch, history
  <2>11. ASSUME NEW a \in Admins, NEW name \in Names, NEW content \in Contents,
                SupersedeWrites(a, name, content)
         PROVE  Balance'
    <3> DEFINE old == current[a].ref
               ref == <<name, content>>
    <3>1. run' = run
      BY <2>11 DEF SupersedeWrites
    <3>2. CASE UNCHANGED <<rows, history>>
      BY <3>1, <3>2, NoRowIsSet DEF history
    <3>3. CASE /\ rows' = [rows EXCEPT ![old] = [@ EXCEPT !.status = "SUPERSEDED", !.by = a],
                                       ![ref] = Rule(name, content, "APPROVED", a)]
               /\ replaces' = replaces \cup {<<ref, old>>}
               /\ old \in Present /\ ref \notin Present
      <4>1. /\ old \in Refs /\ ref \in Refs /\ old # ref /\ rows[old] \in Row
            /\ ref[2] # Original
        BY <2>0, <3>3, NamesAreRefs, KnowledgeAssumption DEF Present
      <4>2. /\ rows'[old] = [rows[old] EXCEPT !.status = "SUPERSEDED", !.by = a]
            /\ rows'[ref] = Rule(name, content, "APPROVED", a)
            /\ \A s \in Refs \ {old, ref} : rows'[s] = rows[s]
        BY <2>0, <3>3, <4>1
      <4>3. rows'[old] \in Row /\ rows'[old].status = "SUPERSEDED"
        <5> DEFINE past == [rows[old] EXCEPT !.status = "SUPERSEDED", !.by = a]
        <5>1. past \in Row /\ past.status = "SUPERSEDED"
          BY <4>1 DEF Row, KnowledgeStatus
        <5> QED BY <4>2, <5>1
      <4>4. rows'[ref] \in Row /\ rows'[ref].status = "APPROVED"
        BY <4>2 DEF Rule, Row, KnowledgeStatus
      <4> HIDE DEF old, ref
      <4>5. /\ \A s \in Present : s \in Present'
            /\ \A s \in Present' : s \in Present \/ s = ref
            /\ ref \in Present'
        BY <2>0, <4>1, <4>2, <4>3, <4>4 DEF Present
      <4>6. \A p \in replaces : p[1] \in Present /\ p[1] # ref /\ p[1][2] # Original
        BY <3>3 DEF Balance, ReplacementsStay
      <4>7. RetiredHasReplacement'
        <5>1. ASSUME NEW s \in Present', rows'[s].status = "SUPERSEDED"
              PROVE  \E n \in Present' : <<n, s>> \in replaces'
          <6>1. CASE s = old
            BY <3>3, <4>5, <6>1
          <6>2. CASE s # old
            <7>1. s # ref
              BY <4>4, <5>1
            <7>2. s \in Present /\ rows[s].status = "SUPERSEDED"
              <8>1. s \in Present
                BY <4>5, <7>1
              <8>2. rows'[s] = rows[s]
                BY <4>2, <6>2, <7>1, <8>1 DEF Present
              <8> QED BY <5>1, <8>1, <8>2
            <7>3. PICK n \in Present : <<n, s>> \in replaces
              BY <7>2 DEF Balance, RetiredHasReplacement
            <7> QED BY <3>3, <4>5, <7>3
          <6> QED BY <6>1, <6>2
        <5>2. ASSUME NEW p \in replaces', NEW q \in replaces', p[1] = q[1]
              PROVE  p = q
          <6>1. \A x \in replaces' : x \in replaces \/ x = <<ref, old>>
            BY <3>3
          <6>2. p \in replaces /\ q \in replaces => p = q
            BY <5>2 DEF Balance, RetiredHasReplacement
          <6> QED BY <4>6, <5>2, <6>1, <6>2
        <5> QED BY <5>1, <5>2, Zenon DEF RetiredHasReplacement
      <4>8. ReplacementsStay'
        <5>1. \A s \in Present' : s[2] # Original => rows'[s].status # "PROPOSED"
          BY <4>1, <4>2, <4>3, <4>4, <4>5 DEF Present, Balance, ReplacementsStay
        <5>2. \A p \in replaces' : p[1] \in Present' /\ p[1][2] # Original
          BY <3>3, <4>1, <4>5, <4>6
        <5>3. run'.step = "clear" => \A s \in run'.listed : s[2] = Original
          BY <3>1 DEF Balance, ReplacementsStay
        <5> QED BY <5>1, <5>2, <5>3, Zenon DEF ReplacementsStay
      <4> QED BY <4>7, <4>8 DEF Balance
    <3> QED BY <2>11, <3>2, <3>3 DEF SupersedeWrites
  <2> QED
    BY <2>2, <2>3, <2>4, <2>5, <2>6, <2>7, <2>8, <2>9, <2>10, <2>11,
       KnowledgeAssumption DEF Next
<1> QED
  BY <1>1, <1>2, TypeCorrect, PTL DEF Spec

\* A rule is retired in one commit with a replacement of its own, whoever else
\* supersedes, runs or decides meanwhile (supersede).
THEOREM RetiredAreReplaced == Spec => []RetiredHasReplacement
<1>1. Balance => RetiredHasReplacement
  BY DEF Balance
<1> QED
  BY <1>1, BalanceIsInvariant, PTL
=============================================================================
