------------------------------ MODULE Knowledge ------------------------------
(***************************************************************************)
(* The table hospitality_knowledge (KnowledgeStore): candidates a          *)
(* distilling run proposes (app.distill_knowledge, a process of its own),  *)
(* and the administrators who approve, reject, write, edit and supersede   *)
(* rules meanwhile. A run clears the queue and then proposes one candidate *)
(* after the other; each of its sessions reads first and commits later,    *)
(* and so does a supersession, which is two sessions. Only APPROVED rules  *)
(* reach a guest-facing draft (approved_for).                              *)
(*                                                                         *)
(* A rule's scope, topic and title are its name. Its reference is made of  *)
(* the name it was created with, and for a replacement of its content too  *)
(* (knowledge_ref_for); an edit leaves the reference as it is.             *)
(***************************************************************************)
EXTENDS Naturals, Sequences, FiniteSets, SequencesExt

CONSTANTS
  Names,       \* scope, topic and title together
  Contents,
  Admins,
  OwnerRules,  \* name and content of the rules the owner wrote (OWNER_RULES)
  Batches,     \* what runs may come up with: sequences of names and contents
  Original,    \* the discriminator of a rule that replaces none
  Absent, Nobody,
  MaxTouches,  \* bound: what administrators do
  MaxRuns      \* bound: distilling runs

SeedActor == "owner-authored"

ASSUME KnowledgeAssumption ==
  /\ IsFiniteSet(Names) /\ IsFiniteSet(Contents)
  /\ OwnerRules \subseteq Names \X Contents
  /\ Batches \subseteq Seq(Names \X Contents)
  /\ Original \notin Contents /\ Nobody \notin Admins \cup {SeedActor}
  /\ {MaxTouches, MaxRuns} \subseteq Nat

Refs == Names \X (Contents \cup {Original})
KnowledgeStatus == {"PROPOSED", "APPROVED", "REJECTED", "SUPERSEDED"}
Row == [name : Names, content : Contents, status : KnowledgeStatus,
        by : Admins \cup {SeedActor, Nobody}]

ASSUME AbsentAssumption == Absent \notin Row

VARIABLES
  rows,      \* hospitality_knowledge, by knowledge_ref
  run,       \* the distilling run: its step, what it listed or read, what is left
  current,   \* the rule each administrator's supersession has read
  quiet,     \* history: rules decided while no run was at work
  replaces,  \* history: which rule was written to replace which
  touches, runs

history == <<quiet, replaces>>
bounds == <<touches, runs>>
vars == <<rows, run, current, history, bounds>>

Candidates == Names \X Contents
Idle == [step |-> "idle"]
Run ==
  {Idle} \cup [step : {"clear"}, listed : SUBSET Refs, batch : Seq(Candidates)]
         \cup [step : {"propose"}, batch : Seq(Candidates)]
         \cup [step : {"commit"}, batch : Seq(Candidates) \ {<< >>}, existing : Row \cup {Absent}]

Init ==
  /\ rows = [r \in Refs |-> Absent]
  /\ run = Idle
  /\ current = [a \in Admins |-> Absent]
  /\ quiet = {} /\ replaces = {}
  /\ touches = 0 /\ runs = 0

Present == {r \in Refs : rows[r] # Absent}
Proposed == {r \in Present : rows[r].status = "PROPOSED"}
Ref(name) == <<name, Original>>
Rule(name, content, status, by) ==
  [name |-> name, content |-> content, status |-> status, by |-> by]

\* What the drafting layer is told of a property's rules (approved_for).
Told == {r \in Present : rows[r].status = "APPROVED"}

\* A person has decided on these rules.
Noted(refs) == quiet' = IF run = Idle THEN quiet \cup refs ELSE quiet

Touch ==
  /\ touches < MaxTouches /\ touches' = touches + 1
  /\ UNCHANGED <<run, runs>>

-----------------------------------------------------------------------------
(* distil: one run.                                                         *)

\* Mutant: the run replaces everything that is not live.
RunStartsAfresh ==
  /\ run = Idle /\ runs < MaxRuns
  /\ \E batch \in Batches :
       run' = [step |-> "clear", listed |-> Present \ Told, batch |-> batch]
  /\ runs' = runs + 1
  /\ UNCHANGED <<rows, current, history, touches>>

\* clear_proposed reads the queue ...
RunStarts ==
  /\ run = Idle /\ runs < MaxRuns
  /\ \E batch \in Batches :
       run' = [step |-> "clear", listed |-> Proposed, batch |-> batch]
  /\ runs' = runs + 1
  /\ UNCHANGED <<rows, current, history, touches>>

\* ... and deletes the rows it read, by their primary keys.
RunClears ==
  /\ run.step = "clear"
  /\ rows' = [r \in Refs |-> IF r \in run.listed THEN Absent ELSE rows[r]]
  /\ run' = [step |-> "propose", batch |-> run.batch]
  /\ UNCHANGED <<current, history, bounds>>

\* propose looks its reference up ...
RunLooksUp ==
  /\ run.step = "propose" /\ run.batch # <<>>
  /\ run' = [step |-> "commit", batch |-> run.batch,
             existing |-> rows[Ref(Head(run.batch)[1])]]
  /\ UNCHANGED <<rows, current, history, bounds>>

\* ... and inserts a candidate, refreshes one that is still in the queue, or
\* leaves a decided one alone. The refresh updates the content and no status.
Refreshed(existing, row, candidate) ==
  IF existing = Absent THEN Rule(candidate[1], candidate[2], "PROPOSED", Nobody)
  ELSE IF existing.status = "PROPOSED" THEN [row EXCEPT !.content = candidate[2]]
  ELSE row

\* An insert that meets a row, or an update that meets none, raises, and the run
\* ends there.
RunCommits ==
  /\ run.step = "commit"
  /\ LET candidate == Head(run.batch)
         ref == Ref(candidate[1])
     IN IF (run.existing = Absent) # (rows[ref] = Absent)
        THEN run' = Idle /\ UNCHANGED rows
        ELSE /\ rows' = [rows EXCEPT ![ref] = Refreshed(run.existing, @, candidate)]
             /\ run' = [step |-> "propose", batch |-> Tail(run.batch)]
  /\ UNCHANGED <<current, history, bounds>>

\* The batch is through, or the process dies.
RunEnds ==
  /\ run # Idle
  /\ run' = Idle
  /\ UNCHANGED <<rows, current, history, bounds>>

-----------------------------------------------------------------------------
(* The administrators.                                                      *)

\* decide: approve or reject, whatever the status.
Decide(a, r, status) ==
  /\ Touch
  /\ r \in Present
  /\ rows' = [rows EXCEPT ![r] = [@ EXCEPT !.status = status, !.by = a]]
  /\ Noted({r})
  /\ UNCHANGED <<current, replaces>>

\* create_manual, and seed_owner_knowledge with what the table does not hold.
Create(a, name, content) ==
  /\ Touch
  /\ Ref(name) \notin Present
  /\ rows' = [rows EXCEPT ![Ref(name)] = Rule(name, content, "APPROVED", a)]
  /\ Noted({Ref(name)})
  /\ UNCHANGED <<current, replaces>>

\* update: words and scope; the status and the reference stay. What is edited in
\* the queue still has to be approved.
Edit(r, name, content) ==
  /\ Touch
  /\ r \in Present
  /\ rows' = [rows EXCEPT ![r] = [@ EXCEPT !.name = name, !.content = content]]
  /\ UNCHANGED <<current, history>>

\* supersede reads the rule and tests that it is approved ...
SupersedeReads(a, r) ==
  /\ Touch
  /\ current[a] = Absent /\ r \in Told
  /\ current' = [current EXCEPT ![a] = [ref |-> r, row |-> rows[r]]]
  /\ UNCHANGED <<rows, history>>

\* Mutant: the old rule is retired whether or not its replacement is there.
SupersedeWritesRetiring(a, name, content) ==
  /\ current[a] # Absent
  /\ current' = [current EXCEPT ![a] = Absent]
  /\ LET old == current[a].ref
         new == <<name, content>>
     IN IF old \notin Present
        THEN UNCHANGED <<rows, history>>
        ELSE /\ rows' = [rows EXCEPT ![old] = [@ EXCEPT !.status = "SUPERSEDED", !.by = a],
                                     ![new] = IF @ = Absent
                                                THEN Rule(name, content, "APPROVED", a) ELSE @]
             /\ Noted({old, new})
             /\ replaces' = IF new \in Present THEN replaces
                            ELSE replaces \cup {<<new, old>>}
  /\ UNCHANGED <<run, bounds>>

\* ... and, in a session of its own that tests nothing of it again, retires it
\* and inserts the replacement, unless one with these words exists.
SupersedeWrites(a, name, content) ==
  /\ current[a] # Absent
  /\ current' = [current EXCEPT ![a] = Absent]
  /\ LET old == current[a].ref
         new == <<name, content>>
     IN IF <<name, content>> = <<current[a].row.name, current[a].row.content>>
             \/ new \in Present \/ old \notin Present
        THEN UNCHANGED <<rows, history>>
        ELSE /\ rows' = [rows EXCEPT ![old] = [@ EXCEPT !.status = "SUPERSEDED", !.by = a],
                                     ![new] = Rule(name, content, "APPROVED", a)]
             /\ Noted({old, new})
             /\ replaces' = replaces \cup {<<new, old>>}
  /\ UNCHANGED <<run, bounds>>

Next ==
  \/ RunStarts \/ RunClears \/ RunLooksUp \/ RunCommits \/ RunEnds
  \/ \E rule \in OwnerRules : Create(SeedActor, rule[1], rule[2])
  \/ \E a \in Admins, r \in Refs :
       \/ \E status \in {"APPROVED", "REJECTED"} : Decide(a, r, status)
       \/ SupersedeReads(a, r)
  \/ \E name \in Names, content \in Contents :
       \/ \E r \in Refs : Edit(r, name, content)
       \/ \E a \in Admins : Create(a, name, content) \/ SupersedeWrites(a, name, content)

Spec == Init /\ [][Next]_vars

-----------------------------------------------------------------------------
\* Every variable keeps its type, and a status other than PROPOSED has the name
\* of the person who decided (decided_by_user_id) on every path to it.
TypeOK ==
  /\ rows \in [Refs -> Row \cup {Absent}]
  /\ \A r \in Present : rows[r].status = "PROPOSED" <=> rows[r].by = Nobody
  /\ run \in Run
  /\ current \in [Admins -> [ref : Refs, row : Row] \cup {Absent}]
  /\ quiet \subseteq Refs /\ replaces \subseteq Refs \X Refs
  /\ touches \in 0 .. MaxTouches /\ runs \in 0 .. MaxRuns

\* A decision taken while no run is at work outlives every later run: the rule is
\* not deleted and does not return to the queue (clear_proposed: "cannot destroy
\* owner knowledge"; propose: "a rejection is an answer").
DecisionsOutliveRuns ==
  \A r \in quiet : r \in Present \ Proposed

\* Whoever else supersedes, decides or runs meanwhile, a rule is retired in one
\* commit with a replacement of its own: written for it and for no other rule, and
\* there to be found (supersede: "so the old row is marked SUPERSEDED and kept, and
\* the new wording becomes a new APPROVED row").
RetiredHasReplacement ==
  /\ \A r \in Present :
       rows[r].status = "SUPERSEDED" => \E s \in Present : <<s, r>> \in replaces
  /\ \A p, q \in replaces : p[1] = q[1] => p = q

-----------------------------------------------------------------------------
(* What comments say and the program does not keep.                         *)

\* "This method cannot destroy owner knowledge": no decided rule is ever deleted
\* (clear_proposed).
OwnerKnowledgeIsKept ==
  [][\A r \in Present \ Proposed : rows'[r] # Absent]_vars

\* "A candidate the owner already decided on is left alone": no step of a run puts
\* its words into a live rule (propose).
LiveWordsAreLeft ==
  [][run' # run => \A r \in Told : r \in Told' => rows'[r].content = rows[r].content]_vars

\* "Editing an APPROVED rule in place would rewrite history": what a guest may have
\* been told stays as it was (supersede).
WordsOfLiveRulesStay ==
  [][\A r \in Told : r \in Present' /\ rows'[r].content = rows[r].content]_vars

\* A supersession leaves one version of a rule live: what replaced the old one is
\* not live beside it, or beside another replacement (supersede).
OneLiveVersion ==
  \A r, s \in Told : rows[r].name = rows[s].name => r = s
=============================================================================
