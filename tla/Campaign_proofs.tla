---- MODULE Campaign_proofs ----
(***************************************************************************)
(* Theorems about Campaigns, for every plan, every set of Campaigns, every *)
(* host and every bound.                                                   *)
(***************************************************************************)
EXTENDS CampaignServer, FiniteSetTheorems, TLAPS

(***************************************************************************)
(* The inductive invariant of the proposals of one Campaign: rows are its  *)
(* ProposalRecords, tasks the Tasks the authority has for them.            *)
(***************************************************************************)

\* The row records its Task, and the Task is delivered.
Done(rows, tasks, p) ==
    p \in Standing(rows) /\ rows[p].taskId /\ tasks[p] # Null /\ tasks[p].state = "delivered"

\* What a released proposal depends on is delivered, and it starts from the merge of one of the
\* dependencies of its Repository.
Released(rows, tasks, p) ==
    /\ \A d \in DependsOn[p] : Done(rows, tasks, d)
    /\ (\E d \in DependsOn[p] : SameRepository(p, d)) =>
          \E e \in Dependencies(rows, p) :
              SameRepository(p, e) /\ Done(rows, tasks, e) /\ rows[p].base = tasks[e].merged

RowsType(rows, tasks) ==
    /\ rows \in [Proposals -> ProposalRecord \cup {Null}]
    /\ tasks \in [Proposals -> TaskRecord \cup {Null}]
SeqBounded(rows) == \E n \in Nat : \A p \in Present(rows) : rows[p].seq <= n

\* A Task belongs to a released row, which may not have recorded it yet.
TasksAreOwned(rows, tasks) ==
    /\ \A p \in Proposals : tasks[p] # Null =>
          rows[p] # Null /\ rows[p].base # 0 /\ tasks[p].base = rows[p].base
    /\ \A p \in Present(rows) : rows[p].taskId => tasks[p] # Null

SupersededIsUnowned(rows) ==
    \A p \in Present(rows) : rows[p].status = "superseded" =>
        /\ rows[p].base = 0 /\ ~rows[p].taskId
        /\ rows[p].supersededBy \in Present(rows)
        /\ rows[rows[p].supersededBy].supersedes = p

MergesAreCommits(tasks) ==
    \A p \in Merging : tasks[p] # Null /\ tasks[p].state = "delivered" => tasks[p].merged # 0

RowsSound(rows, tasks) ==
    /\ RowsType(rows, tasks)
    /\ SeqBounded(rows)
    /\ TasksAreOwned(rows, tasks)
    /\ SupersededIsUnowned(rows)
    /\ \A p \in Present(rows) : rows[p].base # 0 => Released(rows, tasks, p)
    /\ MergesAreCommits(tasks)

\* What no step takes back of a row r that becomes s.
RowKeeps(r, s) ==
    /\ s.seq = r.seq /\ s.addition = r.addition
    /\ s.replaces = r.replaces /\ s.supersedes = r.supersedes
    /\ r.base # 0 => s.base = r.base /\ (r.status # "superseded" => s.status # "superseded")
    /\ r.taskId => s.taskId
    /\ r.status = "superseded" => s = r

TaskKeeps(t, u) ==
    /\ t # Null => u # Null /\ u.base = t.base
    /\ t # Null /\ TerminalTask(t) => u = t

RowsKeep(rows, tasks, next, then) ==
    /\ \A p \in Present(rows) : next[p] # Null /\ RowKeeps(rows[p], next[p])
    /\ \A p \in Proposals : TaskKeeps(tasks[p], then[p])

\* ... and what is kept of a Campaign's rows that gets none.
ScopeKept(rows, next) == Present(next) = Present(rows) /\ Standing(next) = Standing(rows)

(***************************************************************************)
(* Least elements.                                                         *)
(***************************************************************************)

\* A set of naturals that is not empty has a least element.
LEMMA LeastNatural ==
    ASSUME NEW S \in SUBSET Nat, S # {}
    PROVE  \E n \in S : \A m \in S : n <= m
<1> DEFINE R == {ss \in Nat \X Nat : ss[1] < ss[2]}
<1>1. IsWellFoundedOn(R, Nat)
    BY NatLessThanWellFounded, Zenon DEF OpToRel
<1> HIDE DEF R
<1>2. PICK n \in S : \A m \in S : ~(<<m, n>> \in R)
    BY <1>1, WFMin
<1>3. ASSUME NEW m \in S PROVE n <= m
    <2>1. ~(<<m, n>> \in R)
        BY <1>2
    <2> QED BY <2>1 DEF R
<1> QED BY <1>3

\* ... and a greatest one if it is bounded.
LEMMA GreatestNatural ==
    ASSUME NEW S \in SUBSET Nat, S # {}, NEW b \in Nat, \A n \in S : n <= b
    PROVE  \E n \in S : \A m \in S : m <= n
<1> DEFINE T == {b - n : n \in S}
<1>1. T \in SUBSET Nat /\ T # {}
    <2>1. \A n \in S : b - n \in Nat
        OBVIOUS
    <2>2. PICK n \in S : TRUE
        OBVIOUS
    <2>3. b - n \in T
        OBVIOUS
    <2> QED BY <2>1, <2>3
<1>2. PICK k \in T : \A m \in T : k <= m
    BY <1>1, LeastNatural
<1>3. PICK n \in S : k = b - n
    OBVIOUS
<1>4. ASSUME NEW m \in S PROVE m <= n
    <2>1. b - m \in T
        OBVIOUS
    <2> QED BY <1>2, <1>3, <2>1
<1> QED BY <1>4

(***************************************************************************)
(* Operators of the model.                                                 *)
(***************************************************************************)

\* Min, First and DependencyBase choose one of the set they are given.
LEMMA MinIsElement ==
    ASSUME NEW S \in SUBSET Nat, S # {}
    PROVE  Min(S) \in S
  BY LeastNatural DEF Min

\* The first of some rows is one of them.
LEMMA FirstIsElement ==
    ASSUME NEW rows \in [Proposals -> ProposalRecord \cup {Null}],
           NEW ps \in SUBSET Present(rows), ps # {}
    PROVE  First(rows, ps) \in ps
<1> DEFINE S == {rows[p].seq : p \in ps}
<1>1. \A p \in ps : rows[p].seq \in Nat
    BY DEF Present, ProposalRecord
<1>2. PICK n \in S : \A m \in S : n <= m
    <2>1. PICK p \in ps : TRUE
        OBVIOUS
    <2>2. rows[p].seq \in S
        OBVIOUS
    <2>3. S \in SUBSET Nat
        BY <1>1
    <2> HIDE DEF S
    <2> QED BY <2>2, <2>3, LeastNatural
<1>3. PICK p \in ps : n = rows[p].seq
    OBVIOUS
<1>4. \A q \in ps : rows[p].seq <= rows[q].seq
    BY <1>2, <1>3
<1> QED BY <1>4 DEF First

\* The base of a dependent is the merge of one of its dependencies in its Repository.
LEMMA BaseIsOfADependency ==
    ASSUME NEW c \in Campaigns, NEW p \in Proposals, NEW rows, RowsType(rows, task[c]), SeqBounded(rows),
           Dependencies(rows, p) \subseteq Present(rows),
           NEW d \in Dependencies(rows, p), SameRepository(p, d)
    PROVE  \E e \in Dependencies(rows, p) :
              SameRepository(p, e) /\ DependencyBase(c, rows, p) = task[c][e].merged
<1> DEFINE merged == {e \in Dependencies(rows, p) : SameRepository(p, e)}
           S == {rows[e].seq : e \in merged}
<1>1. \A e \in merged : rows[e].seq \in Nat
    BY DEF Present, ProposalRecord, RowsType
<1>2. PICK b \in Nat : \A e \in merged : rows[e].seq <= b
    BY DEF SeqBounded
<1>3. d \in merged
    OBVIOUS
<1>4. S \in SUBSET Nat /\ S # {} /\ \A n \in S : n <= b
    BY <1>1, <1>2, <1>3
<1>5. PICK n \in S : \A m \in S : m <= n
    BY <1>4, GreatestNatural
<1>6. PICK e \in merged : n = rows[e].seq
    OBVIOUS
<1>7. \A f \in merged : rows[e].seq >= rows[f].seq
    BY <1>1, <1>5, <1>6
<1> DEFINE g == CHOOSE g \in merged : \A f \in merged : rows[g].seq >= rows[f].seq
<1>8. g \in merged
    BY <1>7
<1>9. DependencyBase(c, rows, p) = task[c][g].merged
    BY <1>3 DEF DependencyBase, MergedAt
<1> QED BY <1>8, <1>9

(***************************************************************************)
(* The changes of a Campaign's proposals, each of which keeps RowsSound.   *)
(***************************************************************************)

\* Nothing that is kept undoes what is done.
LEMMA DoneIsKept ==
    ASSUME NEW rows, NEW tasks, NEW next, NEW then, RowsType(rows, tasks), RowsType(next, then),
           TasksAreOwned(rows, tasks), RowsKeep(rows, tasks, next, then),
           NEW p \in Proposals, Done(rows, tasks, p)
    PROVE  Done(next, then, p) /\ then[p] = tasks[p]
<1>1. p \in Present(rows) /\ rows[p].base # 0 /\ rows[p].taskId /\ tasks[p] # Null
    BY DEF Done, Standing, TasksAreOwned
<1>2. next[p] # Null /\ RowKeeps(rows[p], next[p]) /\ TaskKeeps(tasks[p], then[p])
    BY <1>1 DEF RowsKeep, Present
<1>3. then[p] = tasks[p]
    BY <1>1, <1>2 DEF TaskKeeps, Done, TerminalTask
<1>4. next[p].taskId /\ next[p].status # "superseded"
    BY <1>1, <1>2 DEF RowKeeps, Done, Standing
<1> QED BY <1>2, <1>3, <1>4 DEF Done, Standing, Present

\* What holds of a released row holds for good: delivered dependencies stay delivered.
LEMMA ReleasedIsKept ==
    ASSUME NEW rows, NEW tasks, NEW next, NEW then, RowsType(rows, tasks), RowsType(next, then),
           TasksAreOwned(rows, tasks), RowsKeep(rows, tasks, next, then),
           NEW p \in Present(rows), rows[p].base # 0, Released(rows, tasks, p)
    PROVE  Released(next, then, p)
<1>1. p \in Proposals /\ DependsOn[p] \subseteq Proposals
    BY PlanAssumption DEF Present
<1>2. next[p].base = rows[p].base
    BY DEF RowsKeep, RowKeeps
<1>3. \A d \in DependsOn[p] : Done(next, then, d)
    BY <1>1, DoneIsKept DEF Released
<1>4. ASSUME NEW d \in DependsOn[p], SameRepository(p, d)
      PROVE  \E e \in Dependencies(next, p) :
                SameRepository(p, e) /\ Done(next, then, e) /\ next[p].base = then[e].merged
    <2>1. PICK e \in Dependencies(rows, p) :
              SameRepository(p, e) /\ Done(rows, tasks, e) /\ rows[p].base = tasks[e].merged
        BY <1>4 DEF Released
    <2>2. e \in Proposals
        BY <2>1 DEF Done, Standing, Present
    <2>3. Done(next, then, e) /\ then[e] = tasks[e]
        BY <2>1, <2>2, DoneIsKept
    <2>4. e \in Dependencies(next, p)
        BY <2>1, <2>3 DEF Dependencies, Done
    <2> QED BY <1>2, <2>1, <2>3, <2>4
<1> QED BY <1>3, <1>4 DEF Released

\* So a change that keeps what was there has only its news to answer for.
LEMMA KeptIsSound ==
    ASSUME NEW rows, NEW tasks, NEW next, NEW then, RowsSound(rows, tasks),
           RowsType(next, then), SeqBounded(next), TasksAreOwned(next, then),
           MergesAreCommits(then), RowsKeep(rows, tasks, next, then),
           \A p \in Present(next) :
              next[p].base # 0 /\ ~(p \in Present(rows) /\ rows[p].base # 0) => Released(next, then, p),
           \A p \in Present(next) :
              next[p].status = "superseded" /\ ~(p \in Present(rows) /\ rows[p].status = "superseded") =>
                 /\ next[p].base = 0 /\ ~next[p].taskId
                 /\ next[p].supersededBy \in Present(next)
                 /\ next[next[p].supersededBy].supersedes = p
    PROVE  RowsSound(next, then)
<1>1. \A p \in Present(next) : next[p].base # 0 => Released(next, then, p)
    BY ReleasedIsKept DEF RowsSound
<1>2. SupersededIsUnowned(next)
    <2> SUFFICES ASSUME NEW p \in Present(rows), rows[p].status = "superseded"
                 PROVE  /\ next[p].base = 0 /\ ~next[p].taskId
                        /\ next[p].supersededBy \in Present(next)
                        /\ next[next[p].supersededBy].supersedes = p
        BY DEF SupersededIsUnowned
    <2>1. next[p] = rows[p]
        BY DEF RowsKeep, RowKeeps
    <2> DEFINE q == rows[p].supersededBy
    <2>2. q \in Present(rows) /\ rows[q].supersedes = p /\ rows[p].base = 0 /\ ~rows[p].taskId
        BY DEF RowsSound, SupersededIsUnowned
    <2>3. q \in Present(next) /\ next[q].supersedes = p
        BY <2>2 DEF RowsKeep, RowKeeps, Present
    <2> QED BY <2>1, <2>2, <2>3
<1> QED BY <1>1, <1>2 DEF RowsSound

\* A dependency that blocks nobody is done.
LEMMA UnblockedIsDone ==
    ASSUME NEW c \in Campaigns, NEW rows, RowsSound(rows, task[c]), NEW p \in Present(rows),
           ~DependencyBlocked(c, rows, p), NEW d \in Dependencies(rows, p)
    PROVE  /\ Done(rows, task[c], d)
           /\ SameRepository(p, d) => task[c][d].merged \in Nat \ {0}
<1>1. d \in Standing(rows)
    BY DEF DependencyBlocked, Dependencies
<1>2. Delivered(TaskOf(c, rows, d)) /\ (SameRepository(p, d) => d \in Merging)
    BY DEF DependencyBlocked
<1>3. Done(rows, task[c], d)
    BY <1>1, <1>2 DEF Done, Delivered, TaskOf
<1>4. task[c][d] \in TaskRecord
    BY <1>1, <1>3 DEF Done, RowsSound, RowsType, Standing, Present
<1> QED BY <1>2, <1>3, <1>4 DEF RowsSound, MergesAreCommits, Done, TaskRecord

ObservedHeads(observed) == \A r \in DOMAIN observed : observed[r] \in Nat

\* Reconciling a row keeps its base and Task, and releases it only after its dependencies.
LEMMA ReconciledRowKeeps ==
    ASSUME NEW c \in Campaigns, NEW camps, NEW observed, ObservedHeads(observed),
           NEW rows, RowsSound(rows, task[c]), NEW p \in Standing(rows)
    PROVE  LET r == rows[p]
               s == ReconciledRow(camps, rows, c, p, observed)
           IN  /\ s \in ProposalRecord /\ RowKeeps(r, s)
               /\ s.status # "superseded" /\ s.taskId = r.taskId
               /\ s.base # 0 /\ r.base = 0 =>
                    /\ ~DependencyBlocked(c, rows, p)
                    /\ s.base = DependencyBase(c, rows, p) \/ DependencyBase(c, rows, p) = 0
<1> DEFINE r == rows[p]
           blocker == Blocker(camps, rows, c, p, observed)
           waits == blocker = Null /\ DependencyBlocked(c, rows, p)
           status == IF blocker # Null THEN "blocked" ELSE IF waits THEN "planned" ELSE "ready"
           d == DependencyBase(c, rows, p)
           base == IF status = "ready" /\ RepositoryOf[p] \in DOMAIN observed
                   THEN IF d # 0 THEN d ELSE observed[RepositoryOf[p]]
                   ELSE 0
           s == ReconciledRow(camps, rows, c, p, observed)
<1>1. s = [r EXCEPT !.status = status, !.blocker = IF waits THEN "dependency" ELSE blocker,
                    !.base = IF r.base # 0 THEN r.base ELSE base]
    BY DEF ReconciledRow
<1>2. r \in ProposalRecord /\ r.status # "superseded" /\ p \in Present(rows)
    BY DEF Standing, Present, RowsSound, RowsType
<1>3. status = "ready" => ~DependencyBlocked(c, rows, p)
    OBVIOUS
<1>4. ~DependencyBlocked(c, rows, p) => d \in Nat
    <2> SUFFICES ASSUME ~DependencyBlocked(c, rows, p) PROVE d \in Nat
        OBVIOUS
    <2>1. CASE \A e \in Dependencies(rows, p) : ~SameRepository(p, e)
        BY <2>1 DEF DependencyBase
    <2>2. CASE \E e \in Dependencies(rows, p) : SameRepository(p, e)
        <3>1. Dependencies(rows, p) \subseteq Present(rows)
            BY DEF DependencyBlocked, Dependencies, Standing
        <3>2. PICK e \in Dependencies(rows, p) : SameRepository(p, e) /\ d = task[c][e].merged
            BY <1>2, <2>2, <3>1, BaseIsOfADependency DEF RowsSound, Present
        <3> QED BY <1>2, <3>2, UnblockedIsDone
    <2> QED BY <2>1, <2>2
<1>5. base \in Nat /\ (base # 0 => ~DependencyBlocked(c, rows, p) /\ (base = d \/ d = 0))
    BY <1>3, <1>4 DEF ObservedHeads
<1>6. status \in {"planned", "ready", "blocked"}
    OBVIOUS
<1>7. (IF waits THEN "dependency" ELSE blocker) \in {Null, "dependency", "authority", "repository"}
    BY DEF Blocker
<1> HIDE DEF base, status, waits, blocker, d
<1>8. s \in ProposalRecord
    BY <1>1, <1>2, <1>5, <1>6, <1>7 DEF ProposalRecord
<1>9. RowKeeps(r, s) /\ s.status # "superseded" /\ s.taskId = r.taskId
    BY <1>1, <1>2, <1>6 DEF ProposalRecord, RowKeeps
<1>10. s.base = IF r.base # 0 THEN r.base ELSE base
    BY <1>1, <1>2 DEF ProposalRecord
<1> QED BY <1>5, <1>8, <1>9, <1>10 DEF d

\* The projection of every row.
LEMMA ReconciledRowsAreSound ==
    ASSUME NEW c \in Campaigns, NEW camps, NEW observed, ObservedHeads(observed),
           NEW rows, RowsSound(rows, task[c])
    PROVE  LET next == ReconciledRows(camps, rows, c, observed)
           IN  /\ RowsSound(next, task[c])
               /\ RowsKeep(rows, task[c], next, task[c])
               /\ ScopeKept(rows, next)
               /\ \A p \in Present(rows) : next[p].taskId = rows[p].taskId
<1> DEFINE next == ReconciledRows(camps, rows, c, observed)
           tasks == task[c]
<1>1. \A p \in Proposals :
          next[p] = IF p \in Standing(rows) THEN ReconciledRow(camps, rows, c, p, observed) ELSE rows[p]
    BY DEF ReconciledRows
<1>2. ASSUME NEW p \in Standing(rows)
      PROVE  LET s == next[p]
             IN  /\ s \in ProposalRecord /\ RowKeeps(rows[p], s)
                 /\ s.status # "superseded" /\ s.taskId = rows[p].taskId
                 /\ s.base # 0 /\ rows[p].base = 0 =>
                      /\ ~DependencyBlocked(c, rows, p)
                      /\ s.base = DependencyBase(c, rows, p) \/ DependencyBase(c, rows, p) = 0
    BY <1>1, <1>2, ReconciledRowKeeps DEF Standing, Present
<1>3. \A p \in Proposals : rows[p] \in ProposalRecord \cup {Null} /\ tasks[p] \in TaskRecord \cup {Null}
    BY DEF RowsSound, RowsType
<1>4. \A p \in Proposals : p \notin Standing(rows) => next[p] = rows[p]
    BY <1>1
<1>t. RowsType(next, tasks)
    <2>1. next \in [Proposals -> ProposalRecord \cup {Null}]
        <3>1. \A p \in Proposals : next[p] \in ProposalRecord \cup {Null}
            BY <1>2, <1>3, <1>4
        <3> QED BY <3>1 DEF ReconciledRows
    <2> QED BY <2>1 DEF RowsType, RowsSound
<1> HIDE DEF next
<1>5. Present(next) = Present(rows)
    BY <1>2, <1>4, NullAssumption DEF Present, Standing
<1>6. Standing(next) = Standing(rows)
    <2>1. \A p \in Present(rows) : next[p].status # "superseded" <=> rows[p].status # "superseded"
        BY <1>2, <1>4 DEF Standing, Present
    <2> QED BY <1>5, <2>1 DEF Standing
<1>7. \A p \in Present(rows) : RowKeeps(rows[p], next[p]) /\ next[p].taskId = rows[p].taskId
    BY <1>2, <1>4 DEF Standing, Present, RowKeeps
<1>8. RowsKeep(rows, tasks, next, tasks)
    BY <1>5, <1>7 DEF RowsKeep, TaskKeeps, Present
<1>9. SeqBounded(next)
    BY <1>5, <1>7 DEF RowsSound, SeqBounded, RowKeeps
<1>10. TasksAreOwned(next, tasks)
    BY <1>5, <1>7 DEF RowsSound, TasksAreOwned, RowKeeps, Present
<1>11. ASSUME NEW p \in Present(next), next[p].base # 0, ~(p \in Present(rows) /\ rows[p].base # 0)
       PROVE  Released(next, tasks, p)
    <2>1. p \in Standing(rows) /\ rows[p].base = 0
        BY <1>4, <1>5, <1>11 DEF Present
    <2>2. /\ ~DependencyBlocked(c, rows, p)
          /\ next[p].base = DependencyBase(c, rows, p) \/ DependencyBase(c, rows, p) = 0
        BY <1>2, <1>11, <2>1
    <2>3. \A d \in Dependencies(rows, p) : Done(rows, tasks, d) /\ Done(next, tasks, d)
        <3> TAKE d \in Dependencies(rows, p)
        <3>1. Done(rows, tasks, d)
            BY <2>1, <2>2, UnblockedIsDone DEF Standing
        <3> QED BY <3>1, <1>8, <1>t, DoneIsKept DEF RowsSound, Done, Standing, Present
    <2>4. Dependencies(rows, p) = Dependencies(next, p) /\ DependsOn[p] \subseteq Dependencies(rows, p)
        BY <1>6 DEF Dependencies
    <2>5. ASSUME NEW d \in DependsOn[p], SameRepository(p, d)
          PROVE  \E e \in Dependencies(next, p) :
                    SameRepository(p, e) /\ Done(next, tasks, e) /\ next[p].base = tasks[e].merged
        <3>1. Dependencies(rows, p) \subseteq Present(rows)
            BY <2>3 DEF Done, Standing
        <3>2. PICK e \in Dependencies(rows, p) :
                  SameRepository(p, e) /\ DependencyBase(c, rows, p) = tasks[e].merged
            BY <2>1, <2>4, <2>5, <3>1, BaseIsOfADependency DEF RowsSound, Standing, Present
        <3>3. tasks[e].merged \in Nat \ {0}
            BY <2>1, <2>2, <3>2, UnblockedIsDone DEF Standing
        <3> QED BY <2>2, <2>3, <2>4, <3>2, <3>3
    <2> QED BY <2>3, <2>4, <2>5 DEF Released
<1>12. ASSUME NEW p \in Present(next), next[p].status = "superseded"
       PROVE  p \in Present(rows) /\ rows[p].status = "superseded"
    BY <1>2, <1>4, <1>5, <1>12 DEF Present
<1>13. RowsSound(next, tasks)
    BY <1>t, <1>8, <1>9, <1>10, <1>11, <1>12, KeptIsSound DEF RowsSound
<1> QED BY <1>5, <1>6, <1>7, <1>8, <1>13 DEF next, ScopeKept

\* A new row, by the guardian or by the planner.
LEMMA NewRowIsSound ==
    ASSUME NEW rows, NEW tasks, RowsSound(rows, tasks), NEW p \in Proposals, rows[p] = Null,
           NEW addition \in BOOLEAN, NEW replaces \in BOOLEAN, NEW supersedes \in Proposals \cup {Null}
    PROVE  LET next == [rows EXCEPT ![p] = NewRow(NextSequence(rows), addition, replaces, supersedes)]
           IN  RowsSound(next, tasks) /\ RowsKeep(rows, tasks, next, tasks)
<1> DEFINE r == NewRow(NextSequence(rows), addition, replaces, supersedes)
           next == [rows EXCEPT ![p] = r]
<1>1. NextSequence(rows) \in Nat
    <2>1. Present(rows) \in SUBSET Proposals
        BY DEF Present
    <2> QED BY <2>1, PlanAssumption, FS_Subset, FS_CardinalityType DEF NextSequence
<1>2. r \in ProposalRecord /\ r.base = 0 /\ ~r.taskId /\ r.status = "planned" /\ r.seq = NextSequence(rows)
    BY <1>1 DEF NewRow, ProposalRecord
<1> HIDE DEF r
<1>3. next[p] = r /\ \A q \in Proposals \ {p} : next[q] = rows[q]
    BY DEF RowsSound, RowsType
<1>4. RowsType(next, tasks)
    BY <1>2 DEF RowsSound, RowsType
<1>5. \A q \in Present(rows) : next[q] = rows[q]
    BY <1>3 DEF Present
<1>6. Present(next) \subseteq Present(rows) \cup {p} /\ tasks[p] = Null
    BY <1>3 DEF Present, RowsSound, TasksAreOwned
<1> HIDE DEF next
<1>7. RowsKeep(rows, tasks, next, tasks)
    BY <1>5 DEF RowsKeep, RowKeeps, TaskKeeps, Present
<1>8. SeqBounded(next)
    <2>1. PICK n \in Nat : \A q \in Present(rows) : rows[q].seq <= n
        BY DEF RowsSound, SeqBounded
    <2>2. \A q \in Present(rows) : rows[q].seq \in Nat
        BY DEF RowsSound, RowsType, Present, ProposalRecord
    <2>3. \A q \in Present(next) : next[q].seq <= n + r.seq
        BY <1>1, <1>2, <1>3, <1>5, <1>6, <2>1, <2>2
    <2>4. n + r.seq \in Nat
        BY <1>1, <1>2
    <2> QED BY <2>3, <2>4 DEF SeqBounded
<1>9. TasksAreOwned(next, tasks)
    BY <1>2, <1>3, <1>5, <1>6 DEF RowsSound, TasksAreOwned, Present
<1>10. RowsSound(next, tasks)
    BY <1>2, <1>3, <1>4, <1>5, <1>6, <1>7, <1>8, <1>9, KeptIsSound DEF RowsSound
<1> QED BY <1>7, <1>10 DEF next, r

\* The row a replacement supersedes has no Task, no base and no dependents.
LEMMA SupersedingIsSound ==
    ASSUME NEW rows, NEW tasks, RowsSound(rows, tasks), NEW p \in Present(rows), NEW s \in Present(rows),
           rows[s].status # "superseded", rows[s].base = 0, ~rows[s].taskId, rows[p].supersedes = s, p # s
    PROVE  LET next == [rows EXCEPT ![s].status = "superseded", ![s].blocker = Null,
                                    ![s].supersededBy = p]
           IN  RowsSound(next, tasks) /\ RowsKeep(rows, tasks, next, tasks)
<1> DEFINE r == [rows[s] EXCEPT !.status = "superseded", !.blocker = Null, !.supersededBy = p]
           next == [rows EXCEPT ![s] = r]
<1>0. next = [rows EXCEPT ![s].status = "superseded", ![s].blocker = Null, ![s].supersededBy = p]
    BY DEF RowsSound, RowsType, Present
<1>1. rows[s] \in ProposalRecord /\ s \in Proposals /\ p \in Proposals
    BY DEF Present, RowsSound, RowsType
<1>2. /\ r \in ProposalRecord /\ r.base = 0 /\ ~r.taskId /\ r.status = "superseded" /\ r.supersededBy = p
      /\ r.seq = rows[s].seq /\ RowKeeps(rows[s], r)
    BY <1>1 DEF ProposalRecord, RowKeeps
<1> HIDE DEF r
<1>3. next[s] = r /\ \A q \in Proposals \ {s} : next[q] = rows[q]
    BY <1>1 DEF RowsSound, RowsType
<1>4. RowsType(next, tasks)
    BY <1>2 DEF RowsSound, RowsType
<1>5. Present(next) = Present(rows) /\ tasks[s] = Null
    BY <1>1, <1>2, <1>3, NullAssumption DEF Present, RowsSound, TasksAreOwned
<1> HIDE DEF next
<1>6. RowsKeep(rows, tasks, next, tasks)
    BY <1>2, <1>3, <1>5 DEF RowsKeep, RowKeeps, TaskKeeps, Present
<1>7. SeqBounded(next)
    BY <1>2, <1>3, <1>5 DEF RowsSound, SeqBounded, Present
<1>8. TasksAreOwned(next, tasks)
    BY <1>2, <1>3, <1>5 DEF RowsSound, TasksAreOwned, Present
<1>9. next[p] = rows[p]
    BY <1>1, <1>3
<1>10. RowsSound(next, tasks)
    BY <1>2, <1>3, <1>4, <1>5, <1>6, <1>7, <1>8, <1>9, KeptIsSound DEF RowsSound, Present
<1> QED BY <1>0, <1>6, <1>10 DEF next

\* A Task is recorded by its row.
LEMMA RecordIsSound ==
    ASSUME NEW rows, NEW tasks, RowsSound(rows, tasks), NEW p \in Present(rows),
           rows[p].base # 0, tasks[p] # Null
    PROVE  LET next == [rows EXCEPT ![p].taskId = TRUE]
           IN  /\ RowsSound(next, tasks) /\ RowsKeep(rows, tasks, next, tasks)
               /\ ScopeKept(rows, next)
<1> DEFINE r == [rows[p] EXCEPT !.taskId = TRUE]
           next == [rows EXCEPT ![p] = r]
<1>0. next = [rows EXCEPT ![p].taskId = TRUE]
    OBVIOUS
<1>1. rows[p] \in ProposalRecord /\ p \in Proposals /\ rows[p].status # "superseded"
    BY DEF Present, RowsSound, RowsType, SupersededIsUnowned
<1>2. /\ r \in ProposalRecord /\ r.base = rows[p].base /\ r.taskId /\ r.status = rows[p].status
      /\ r.seq = rows[p].seq /\ RowKeeps(rows[p], r)
    BY <1>1 DEF ProposalRecord, RowKeeps
<1> HIDE DEF r
<1>3. next[p] = r /\ \A q \in Proposals \ {p} : next[q] = rows[q]
    BY <1>1 DEF RowsSound, RowsType
<1>4. RowsType(next, tasks)
    BY <1>2 DEF RowsSound, RowsType
<1>5. Present(next) = Present(rows)
    BY <1>1, <1>2, <1>3, NullAssumption DEF Present
<1> HIDE DEF next
<1>6. Standing(next) = Standing(rows)
    <2>1. \A q \in Present(rows) : next[q].status = rows[q].status
        BY <1>2, <1>3 DEF Present
    <2> QED BY <1>5, <2>1 DEF Standing
<1>7. RowsKeep(rows, tasks, next, tasks)
    BY <1>2, <1>3, <1>5 DEF RowsKeep, RowKeeps, TaskKeeps, Present
<1>8. SeqBounded(next)
    BY <1>2, <1>3, <1>5 DEF RowsSound, SeqBounded, Present
<1>9. TasksAreOwned(next, tasks)
    BY <1>2, <1>3, <1>5 DEF RowsSound, TasksAreOwned, Present
<1>10. RowsSound(next, tasks)
    BY <1>1, <1>2, <1>3, <1>4, <1>5, <1>7, <1>8, <1>9, KeptIsSound DEF RowsSound, Present
<1> QED BY <1>0, <1>5, <1>6, <1>7, <1>10 DEF next, ScopeKept

\* A Task is admitted for a released row, on the base of the row.
LEMMA AdmissionIsSound ==
    ASSUME NEW rows, NEW tasks, RowsSound(rows, tasks), NEW p \in Present(rows), rows[p].base # 0, tasks[p] = Null,
           NEW t \in TaskRecord, t.state = "admitted", t.base = rows[p].base
    PROVE  LET then == [tasks EXCEPT ![p] = t]
           IN  RowsSound(rows, then) /\ RowsKeep(rows, tasks, rows, then)
<1> DEFINE then == [tasks EXCEPT ![p] = t]
<1>1. p \in Proposals
    BY DEF Present
<1>2. then[p] = t /\ \A q \in Proposals \ {p} : then[q] = tasks[q]
    BY <1>1 DEF RowsSound, RowsType
<1>3. RowsType(rows, then)
    BY DEF RowsSound, RowsType
<1> HIDE DEF then
<1>4. RowsKeep(rows, tasks, rows, then)
    BY <1>1, <1>2 DEF RowsKeep, RowKeeps, TaskKeeps, Present
<1>5. TasksAreOwned(rows, then)
    BY <1>1, <1>2, NullAssumption DEF RowsSound, TasksAreOwned, Present
<1>6. MergesAreCommits(then)
    BY <1>1, <1>2, PlanAssumption DEF RowsSound, MergesAreCommits
<1>7. RowsSound(rows, then)
    BY <1>3, <1>4, <1>5, <1>6, KeptIsSound DEF RowsSound
<1> QED BY <1>4, <1>7 DEF then

\* The Tasks go on: each keeps its base, and what has ended stays.
LEMMA TasksGoOn ==
    ASSUME NEW rows, NEW tasks, RowsSound(rows, tasks), NEW then \in [Proposals -> TaskRecord \cup {Null}],
           \A p \in Proposals : TaskKeeps(tasks[p], then[p]) /\ (tasks[p] = Null => then[p] = Null),
           \A p \in Merging : then[p] # Null /\ then[p].state = "delivered" =>
               then[p].merged # 0 \/ then[p] = tasks[p]
    PROVE  RowsSound(rows, then) /\ RowsKeep(rows, tasks, rows, then)
<1>1. RowsType(rows, then)
    BY DEF RowsSound, RowsType
<1>2. RowsKeep(rows, tasks, rows, then)
    BY DEF RowsKeep, RowKeeps, Present
<1>3. TasksAreOwned(rows, then)
    BY DEF RowsSound, TasksAreOwned, TaskKeeps, Present
<1>4. MergesAreCommits(then)
    BY DEF RowsSound, MergesAreCommits
<1> QED BY <1>1, <1>2, <1>3, <1>4, KeptIsSound DEF RowsSound

(***************************************************************************)
(* The inductive invariant of the durable facts, and what a step keeps.    *)
(***************************************************************************)

\* EvidenceOf, of rows and Tasks that are given.
EvidenceIn(rows, tasks, o) ==
    [added |-> {p \in Present(rows) \cap Of(o) : rows[p].addition},
     facts |-> {<<p, tasks[p].state>> :
        p \in {q \in Standing(rows) \cap Of(o) :
                  rows[q].taskId /\ tasks[q] # Null /\ tasks[q].candidate}}]

Proven(rows, tasks, answers) ==
    /\ Live # {}
    /\ \A o \in Live :
          /\ answers[o] # Null /\ answers[o].verdict = "satisfied"
          /\ answers[o].evidence = EvidenceIn(rows, tasks, o)
          /\ Standing(rows) \cap Of(o) # {}
          /\ \A p \in Standing(rows) \cap Of(o) : Done(rows, tasks, p)

DurableType ==
    /\ campaign \in [Campaigns -> CampaignRecord \cup {Null}]
    /\ row \in [Campaigns -> [Proposals -> ProposalRecord \cup {Null}]]
    /\ task \in [Campaigns -> [Proposals -> TaskRecord \cup {Null}]]
    /\ assessment \in [Campaigns -> [Outcomes -> AssessmentRecord \cup {Null}]]
    /\ replacement \in [Campaigns -> [Outcomes -> ReplacementRecord \cup {Null}]]
    /\ main \in [Repositories -> Nat]

DurableInv ==
    /\ DurableType
    /\ \A c \in Campaigns : RowsSound(row[c], task[c])
    /\ \A c \in Campaigns : campaign[c] # Null /\ campaign[c].status = "accepted" =>
          Proven(row[c], task[c], assessment[c])

\* What no step takes back: what the rows and Tasks keep, an answer, and for a Campaign that is
\* not open its assessments and which of its rows stand.
Final == {"accepted", "abandoned"}
StatusKept(camp, next) ==
    camp # Null => next # Null /\ (camp.status \in Final => next.status = camp.status)

Advance ==
    \A c \in Campaigns :
        /\ RowsKeep(row[c], task[c], row'[c], task'[c])
        /\ StatusKept(campaign[c], campaign'[c])
        /\ campaign[c] # Null /\ ~Open(c) =>
              assessment'[c] = assessment[c] /\ ScopeKept(row[c], row'[c])

\* The evidence of an Outcome depends on the rows and the Tasks of its own Campaign only.
LEMMA EvidenceIsOfTheTasks ==
    ASSUME NEW c \in Campaigns, NEW rows \in [Proposals -> ProposalRecord \cup {Null}],
           task \in [Campaigns -> [Proposals -> TaskRecord \cup {Null}]], NEW o
    PROVE  EvidenceOf(c, rows, o) = EvidenceIn(rows, task[c], o)
<1>1. \A p \in Standing(rows) :
          /\ TaskOf(c, rows, p) # Null /\ TaskOf(c, rows, p).candidate
                <=> rows[p].taskId /\ task[c][p] # Null /\ task[c][p].candidate
          /\ rows[p].taskId => TaskOf(c, rows, p) = task[c][p]
    BY DEF TaskOf
<1>2. {q \in Standing(rows) \cap Of(o) : TaskOf(c, rows, q) # Null /\ TaskOf(c, rows, q).candidate}
    = {q \in Standing(rows) \cap Of(o) : rows[q].taskId /\ task[c][q] # Null /\ task[c][q].candidate}
    BY <1>1
<1> DEFINE S == {q \in Standing(rows) \cap Of(o) :
                    rows[q].taskId /\ task[c][q] # Null /\ task[c][q].candidate}
<1>3. {<<p, TaskOf(c, rows, p).state>> : p \in S} = {<<p, task[c][p].state>> : p \in S}
    BY <1>1
<1> QED BY <1>2, <1>3 DEF EvidenceOf, EvidenceIn

\* The evidence of an Outcome has its type.
LEMMA EvidenceIsTyped ==
    ASSUME NEW rows, NEW tasks, RowsType(rows, tasks), NEW o
    PROVE  EvidenceIn(rows, tasks, o) \in Evidence
<1>1. \A p \in Standing(rows) : tasks[p] # Null => <<p, tasks[p].state>> \in Proposals \X TaskStates
    BY DEF RowsType, Standing, Present, TaskRecord
<1>2. {p \in Present(rows) \cap Of(o) : rows[p].addition} \subseteq Proposals
    BY DEF Present
<1>3. {<<p, tasks[p].state>> :
        p \in {q \in Standing(rows) \cap Of(o) :
                  rows[q].taskId /\ tasks[q] # Null /\ tasks[q].candidate}} \subseteq Proposals \X TaskStates
    BY <1>1
<1> QED BY <1>2, <1>3 DEF EvidenceIn, Evidence

\* What is kept adds up.
LEMMA KeepingComposes ==
    ASSUME NEW rows, NEW tasks, NEW next, NEW then, NEW last, RowsType(rows, tasks),
           RowsKeep(rows, tasks, next, then), RowsKeep(next, then, last, then)
    PROVE  RowsKeep(rows, tasks, last, then)
<1>1. ASSUME NEW p \in Present(rows)
      PROVE  last[p] # Null /\ RowKeeps(rows[p], last[p])
    <2>1. next[p] # Null /\ RowKeeps(rows[p], next[p])
        BY DEF RowsKeep
    <2>2. last[p] # Null /\ RowKeeps(next[p], last[p])
        BY <2>1 DEF RowsKeep, Present
    <2> QED BY <2>1, <2>2 DEF RowKeeps
<1> QED BY <1>1 DEF RowsKeep

\* An accepted Campaign stays proven: what stands in its live Outcomes is done.
LEMMA ProvenIsKept ==
    ASSUME NEW rows, NEW tasks, NEW next, NEW then, NEW answers, RowsType(rows, tasks),
           RowsType(next, then), TasksAreOwned(rows, tasks), RowsKeep(rows, tasks, next, then),
           ScopeKept(rows, next), Proven(rows, tasks, answers)
    PROVE  Proven(next, then, answers)
<1> SUFFICES ASSUME NEW o \in Live
             PROVE  /\ EvidenceIn(next, then, o) = EvidenceIn(rows, tasks, o)
                    /\ \A p \in Standing(rows) \cap Of(o) : Done(next, then, p)
    BY DEF Proven, ScopeKept
<1>1. \A p \in Standing(rows) \cap Of(o) : Done(rows, tasks, p)
    BY DEF Proven
<1>2. \A p \in Standing(rows) \cap Of(o) : Done(next, then, p) /\ then[p] = tasks[p]
    BY <1>1, DoneIsKept DEF Standing, Present
<1>3. {p \in Present(next) \cap Of(o) : next[p].addition} = {p \in Present(rows) \cap Of(o) : rows[p].addition}
    BY DEF ScopeKept, RowsKeep, RowKeeps
<1>4. {q \in Standing(next) \cap Of(o) : next[q].taskId /\ then[q] # Null /\ then[q].candidate}
    = {q \in Standing(rows) \cap Of(o) : rows[q].taskId /\ tasks[q] # Null /\ tasks[q].candidate}
    BY <1>1, <1>2 DEF ScopeKept, Done
<1> DEFINE S == {q \in Standing(rows) \cap Of(o) : rows[q].taskId /\ tasks[q] # Null /\ tasks[q].candidate}
<1>5. {<<p, then[p].state>> : p \in S} = {<<p, tasks[p].state>> : p \in S}
    BY <1>2
<1> QED BY <1>2, <1>3, <1>4, <1>5 DEF EvidenceIn

(***************************************************************************)
(* reconcileAll.                                                           *)
(***************************************************************************)

\* A Campaign's own projection: it is accepted on the evidence of its rows.
LEMMA ReconciledCampaignIsSound ==
    ASSUME NEW c \in Campaigns, NEW camps \in [Campaigns -> CampaignRecord \cup {Null}], camps[c] # Null,
           NEW rows \in [Proposals -> ProposalRecord \cup {Null}], DurableType
    PROVE  LET camp == ReconciledCampaign(camps, rows, c)
           IN  /\ camp \in CampaignRecord
               /\ camps[c].status # "planning" => camp.status = camps[c].status
               /\ camps[c].status = "planning" /\ camp.status = "accepted" =>
                    Proven(rows, task[c], assessment[c])
               /\ camp.superseded = IsSuperseded(camps, c)
<1> DEFINE r == camps[c]
           judged == ReconciledStatus(r, rows, c)
           current == {o \in Live : CurrentAssessment(c, rows, o)}
           failing == {o \in current : ~Satisfied(c, rows, o)}
           useful == UsefulWork(c, rows)
<1>1. r \in CampaignRecord /\ IsSuperseded(camps, c) \in BOOLEAN
    BY DEF IsSuperseded, CampaignRecord
<1>2. \A o : AfterFailure(r, rows, c, o) \in CampaignRecord
             /\ AfterFailure(r, rows, c, o).status \in {"planning", "blocked"}
    BY <1>1 DEF AfterFailure, CampaignRecord, Decisions
<1>3. /\ judged \in CampaignRecord
      /\ judged.status = "accepted" /\ r.status = "planning" =>
            Live # {} /\ current = Live /\ failing = {}
    <2>1. CASE ~r.authorized
        BY <1>1, <2>1 DEF ReconciledStatus, CampaignRecord, Decisions, FirstDecision
    <2>2. CASE r.authorized /\ Live = {}
        BY <1>1, <2>2 DEF ReconciledStatus, CampaignRecord, Decisions, FirstDecision
    <2>3. CASE r.authorized /\ Live # {} /\ current = Live /\ failing = {}
        <3>1. judged = [r EXCEPT !.status = "accepted", !.decision = Null]
            BY <2>3 DEF ReconciledStatus
        <3> QED BY <1>1, <2>3, <3>1 DEF CampaignRecord
    <2>4. CASE r.authorized /\ Live # {} /\ current = Live /\ failing # {} /\ ~useful
        <3>1. judged = AfterFailure(r, rows, c, Min(failing))
            BY <2>4 DEF ReconciledStatus
        <3> QED BY <1>2, <3>1
    <2>5. CASE /\ r.authorized /\ Live # {}
               /\ ~(current = Live /\ failing = {}) /\ ~(current = Live /\ failing # {} /\ ~useful)
        <3>1. judged = r
            BY <2>5 DEF ReconciledStatus
        <3> QED BY <1>1, <3>1
    <2> QED BY <2>1, <2>2, <2>3, <2>4, <2>5
<1>4. Live # {} /\ current = Live /\ failing = {} => Proven(rows, task[c], assessment[c])
    <2> SUFFICES ASSUME Live # {}, current = Live, failing = {}, NEW o \in Live
                 PROVE  /\ assessment[c][o] # Null /\ assessment[c][o].verdict = "satisfied"
                        /\ assessment[c][o].evidence = EvidenceIn(rows, task[c], o)
                        /\ Standing(rows) \cap Of(o) # {}
                        /\ \A p \in Standing(rows) \cap Of(o) : Done(rows, task[c], p)
        BY DEF Proven
    <2>1. CurrentAssessment(c, rows, o) /\ Satisfied(c, rows, o)
        OBVIOUS
    <2>2. EvidenceOf(c, rows, o) = EvidenceIn(rows, task[c], o)
        BY EvidenceIsOfTheTasks DEF DurableType
    <2>3. /\ Standing(rows) \cap Of(o) # {}
          /\ \A p \in Standing(rows) \cap Of(o) : Delivered(TaskOf(c, rows, p))
        BY <2>1 DEF Satisfied, OutcomeDelivered
    <2>4. \A p \in Standing(rows) \cap Of(o) : Done(rows, task[c], p)
        BY <2>3 DEF Delivered, TaskOf, Done
    <2> QED BY <2>1, <2>2, <2>3, <2>4 DEF CurrentAssessment, Satisfied
<1> DEFINE camp == IF ~IsSuperseded(camps, c) /\ r.handedOff /\ ~IsTerminal(r.status) THEN judged ELSE r
           answered == camp.status = "accepted" \/ (camp.status = "blocked" /\ camp.decision # Null)
           s == ReconciledCampaign(camps, rows, c)
<1>5. s = [camp EXCEPT !.superseded = IsSuperseded(camps, c), !.checkpoint = @ /\ ~answered]
    BY DEF ReconciledCampaign
<1>6. /\ camp \in CampaignRecord /\ (r.status # "planning" => camp.status = r.status)
      /\ camp.status = "accepted" /\ r.status = "planning" => Live # {} /\ current = Live /\ failing = {}
    BY <1>1, <1>3 DEF IsTerminal
<1> HIDE DEF camp, current, failing
<1>7. s \in CampaignRecord /\ s.status = camp.status /\ s.superseded = IsSuperseded(camps, c)
    BY <1>1, <1>5, <1>6 DEF CampaignRecord
<1> QED BY <1>4, <1>6, <1>7

\* An observation of the Repositories' heads gives each a head or none.
LEMMA HeadsAreObserved ==
    ASSUME NEW observed \in Observations
    PROVE  ObservedHeads(observed)
<1>1. PICK seen : observed \in [seen -> 1..MaxCommit]
    BY DEF Observations
<1> QED BY <1>1, PlanAssumption DEF ObservedHeads

\* A transaction that has made camps and rows of the tables and reconciles them: it may add rows
\* to open Campaigns only, and accept none itself.
LEMMA ReconcilingIsSound ==
    ASSUME DurableInv, NEW observed \in Observations,
           NEW camps \in [Campaigns -> CampaignRecord \cup {Null}],
           NEW rows \in [Campaigns -> [Proposals -> ProposalRecord \cup {Null}]],
           \A c \in Campaigns : /\ RowsSound(rows[c], task[c])
                                /\ RowsKeep(row[c], task[c], rows[c], task[c])
                                /\ StatusKept(campaign[c], camps[c])
                                /\ campaign[c] # Null /\ ~Open(c) => ScopeKept(row[c], rows[c])
                                /\ camps[c] # Null /\ camps[c].status = "accepted" =>
                                      campaign[c] # Null /\ campaign[c].status = "accepted",
           ReconcileAll(camps, rows, observed), UNCHANGED <<task, assessment, replacement, main>>
    PROVE  DurableInv' /\ Advance
<1> DEFINE made == [c \in Campaigns |->
               IF camps[c] = Null THEN rows[c] ELSE ReconciledRows(camps, rows[c], c, observed)]
<1>1. row' = made
    BY DEF ReconcileAll
<1>2. campaign' = [c \in Campaigns |->
          IF camps[c] = Null THEN Null ELSE ReconciledCampaign(camps, made[c], c)]
    BY DEF ReconcileAll
<1>3. ASSUME NEW c \in Campaigns
      PROVE  /\ made[c] \in [Proposals -> ProposalRecord \cup {Null}]
             /\ RowsSound(made[c], task[c])
             /\ RowsKeep(row[c], task[c], made[c], task[c])
             /\ ScopeKept(rows[c], made[c])
    <2>1. /\ RowsSound(made[c], task[c])
          /\ RowsKeep(rows[c], task[c], made[c], task[c])
          /\ ScopeKept(rows[c], made[c])
        <3>1. CASE camps[c] = Null
            BY <3>1 DEF ScopeKept, RowsKeep, RowKeeps, TaskKeeps, Present
        <3>2. CASE camps[c] # Null
            <4>1. made[c] = ReconciledRows(camps, rows[c], c, observed)
                BY <3>2
            <4>2. ObservedHeads(observed) /\ RowsSound(rows[c], task[c])
                BY HeadsAreObserved
            <4> HIDE DEF made
            <4> DEFINE new == ReconciledRows(camps, rows[c], c, observed)
            <4>3. RowsSound(new, task[c])
                BY <4>2, ReconciledRowsAreSound
            <4>4. RowsKeep(rows[c], task[c], new, task[c])
                BY <4>2, ReconciledRowsAreSound
            <4>5. ScopeKept(rows[c], new)
                BY <4>2, ReconciledRowsAreSound
            <4> QED BY <4>1, <4>3, <4>4, <4>5
        <3> QED BY <3>1, <3>2
    <2>2. RowsType(row[c], task[c])
        BY DEF DurableInv, RowsSound
    <2>3. RowsKeep(row[c], task[c], made[c], task[c])
        BY <2>1, <2>2, KeepingComposes
    <2> HIDE DEF made
    <2>4. made[c] \in [Proposals -> ProposalRecord \cup {Null}]
        BY <2>1 DEF RowsSound, RowsType
    <2> QED BY <2>1, <2>3, <2>4
<1>4. ASSUME NEW c \in Campaigns
      PROVE  /\ campaign'[c] \in CampaignRecord \cup {Null}
             /\ StatusKept(campaign[c], campaign'[c])
             /\ campaign'[c] # Null /\ campaign'[c].status = "accepted" =>
                  Proven(made[c], task[c], assessment[c])
    <2>1. CASE camps[c] = Null
        BY <1>2, <2>1 DEF StatusKept
    <2>2. CASE camps[c] # Null
        <3> DEFINE camp == ReconciledCampaign(camps, made[c], c)
        <3>1. /\ camp \in CampaignRecord
              /\ camps[c].status # "planning" => camp.status = camps[c].status
              /\ camps[c].status = "planning" /\ camp.status = "accepted" =>
                   Proven(made[c], task[c], assessment[c])
            BY <1>3, <2>2, ReconciledCampaignIsSound DEF DurableInv
        <3>2. campaign'[c] = camp
            BY <1>2, <2>2
        <3> HIDE DEF camp
        <3>3. StatusKept(campaign[c], camp)
            BY <3>1, NullAssumption DEF StatusKept, Final
        <3>4. camp.status = "accepted" => Proven(made[c], task[c], assessment[c])
            <4> SUFFICES ASSUME camp.status = "accepted", camps[c].status # "planning"
                         PROVE  Proven(made[c], task[c], assessment[c])
                BY <3>1
            <4>1. campaign[c] # Null /\ campaign[c].status = "accepted" /\ ~Open(c)
                BY <2>2, <3>1 DEF Open, IsTerminal
            <4>2. Proven(row[c], task[c], assessment[c]) /\ RowsSound(row[c], task[c])
                BY <4>1 DEF DurableInv
            <4>3. ScopeKept(row[c], made[c])
                BY <1>3, <4>1 DEF ScopeKept
            <4> QED BY <1>3, <4>2, <4>3, ProvenIsKept DEF RowsSound
        <3> QED BY <3>1, <3>2, <3>3, <3>4
    <2> QED BY <2>1, <2>2
<1>5. DurableType'
    <2>1. row' \in [Campaigns -> [Proposals -> ProposalRecord \cup {Null}]]
        BY <1>1, <1>3
    <2>2. campaign' \in [Campaigns -> CampaignRecord \cup {Null}]
        BY <1>2, <1>4
    <2> QED BY <2>1, <2>2 DEF DurableInv, DurableType
<1> HIDE DEF made
<1>6. DurableInv'
    BY <1>1, <1>3, <1>4, <1>5 DEF DurableInv
<1>7. Advance
    <2> SUFFICES ASSUME NEW c \in Campaigns, campaign[c] # Null /\ ~Open(c)
                 PROVE  ScopeKept(row[c], made[c])
        BY <1>1, <1>3, <1>4 DEF Advance
    <2> QED BY <1>3 DEF ScopeKept
<1> QED BY <1>6, <1>7

(***************************************************************************)
(* The other transactions.                                                 *)
(***************************************************************************)

\* A step that accepts nothing has its rows and Tasks to answer for.
LEMMA StepIsSound ==
    ASSUME DurableInv, DurableType',
           \A c \in Campaigns :
              /\ RowsSound(row'[c], task'[c])
              /\ RowsKeep(row[c], task[c], row'[c], task'[c])
              /\ StatusKept(campaign[c], campaign'[c])
              /\ campaign'[c] # Null /\ campaign'[c].status = "accepted" =>
                    campaign[c] # Null /\ campaign[c].status = "accepted"
              /\ campaign[c] # Null /\ ~Open(c) =>
                    assessment'[c] = assessment[c] /\ ScopeKept(row[c], row'[c])
    PROVE  DurableInv' /\ Advance
<1>1. ASSUME NEW c \in Campaigns, campaign'[c] # Null, campaign'[c].status = "accepted"
      PROVE  Proven(row'[c], task'[c], assessment'[c])
    <2>1. campaign[c] # Null /\ campaign[c].status = "accepted" /\ ~Open(c)
        BY <1>1 DEF Open, IsTerminal
    <2>2. assessment'[c] = assessment[c] /\ ScopeKept(row[c], row'[c])
        BY <2>1
    <2>3. Proven(row[c], task[c], assessment[c])
        BY <2>1 DEF DurableInv
    <2>4. RowsSound(row[c], task[c]) /\ RowsSound(row'[c], task'[c])
        BY DEF DurableInv
    <2>5. RowsType(row[c], task[c]) /\ TasksAreOwned(row[c], task[c]) /\ RowsType(row'[c], task'[c])
        BY <2>4 DEF RowsSound
    <2> QED BY <2>2, <2>3, <2>5, ProvenIsKept
<1>2. DurableInv'
    BY <1>1 DEF DurableInv
<1> QED BY <1>2 DEF Advance

\* Rows that stay as they are keep what they must.
LEMMA NothingChanged ==
    ASSUME NEW rows, NEW tasks
    PROVE  RowsKeep(rows, tasks, rows, tasks) /\ ScopeKept(rows, rows)
  BY DEF RowsKeep, RowKeeps, TaskKeeps, ScopeKept, Present

\* A step that changes neither rows nor Tasks.
LEMMA CampaignStepIsSound ==
    ASSUME DurableInv, DurableType', UNCHANGED <<row, task>>,
           \A c \in Campaigns :
              /\ StatusKept(campaign[c], campaign'[c])
              /\ campaign'[c] # Null /\ campaign'[c].status = "accepted" =>
                    campaign[c] # Null /\ campaign[c].status = "accepted"
              /\ campaign[c] # Null /\ ~Open(c) => assessment'[c] = assessment[c]
    PROVE  DurableInv' /\ Advance
<1>1. ASSUME NEW c \in Campaigns
      PROVE  /\ RowsSound(row'[c], task'[c])
             /\ RowsKeep(row[c], task[c], row'[c], task'[c])
             /\ ScopeKept(row[c], row'[c])
    BY NothingChanged DEF DurableInv
<1> QED BY <1>1, StepIsSound

\* A step that leaves the durable facts alone keeps them sound.
LEMMA StutteringIsSound ==
    ASSUME DurableInv, UNCHANGED <<campaign, row, task, assessment, replacement, main>>
    PROVE  DurableInv' /\ Advance
<1>1. DurableType'
    BY DEF DurableInv, DurableType
<1>2. \A c \in Campaigns : StatusKept(campaign[c], campaign'[c])
    BY DEF StatusKept
<1> QED BY <1>1, <1>2, CampaignStepIsSound

\* A step of Tasks that are there.
LEMMA TaskStepIsSound ==
    ASSUME DurableInv, DurableType', UNCHANGED <<campaign, row, assessment>>,
           \A c \in Campaigns, p \in Proposals :
              /\ TaskKeeps(task[c][p], task'[c][p]) /\ (task[c][p] = Null => task'[c][p] = Null)
              /\ p \in Merging /\ task'[c][p] # Null /\ task'[c][p].state = "delivered" =>
                    task'[c][p].merged # 0 \/ task'[c][p] = task[c][p]
    PROVE  DurableInv' /\ Advance
<1>1. ASSUME NEW c \in Campaigns
      PROVE  /\ RowsSound(row'[c], task'[c])
             /\ RowsKeep(row[c], task[c], row'[c], task'[c])
             /\ ScopeKept(row[c], row'[c])
    <2>1. RowsSound(row[c], task[c]) /\ task'[c] \in [Proposals -> TaskRecord \cup {Null}]
        BY DEF DurableInv, DurableType
    <2>2. \A p \in Merging : p \in Proposals
        BY PlanAssumption
    <2>3. RowsSound(row[c], task'[c])
        BY <2>1, <2>2, TasksGoOn
    <2>4. RowsKeep(row[c], task[c], row[c], task'[c])
        BY <2>1, <2>2, TasksGoOn
    <2> QED BY <2>3, <2>4, NothingChanged
<1>2. \A c \in Campaigns : StatusKept(campaign[c], campaign'[c])
    BY DEF StatusKept
<1> QED BY <1>1, <1>2, StepIsSound

\* A Task that goes on, or ends, keeps the facts sound.
LEMMA OneTaskIsSound ==
    ASSUME DurableInv, NEW c \in Campaigns, NEW p \in Proposals, task[c][p] # Null,
           ~TerminalTask(task[c][p]), NEW t \in TaskRecord, t.base = task[c][p].base,
           p \in Merging /\ t.state = "delivered" => t.merged # 0, SetTask(c, p, t),
           UNCHANGED <<campaign, row, assessment, replacement>>, main' \in [Repositories -> Nat]
    PROVE  DurableInv' /\ Advance
<1>1. task' = [task EXCEPT ![c][p] = t] /\ task \in [Campaigns -> [Proposals -> TaskRecord \cup {Null}]]
    BY DEF SetTask, DurableInv, DurableType
<1>2. /\ task' \in [Campaigns -> [Proposals -> TaskRecord \cup {Null}]]
      /\ task'[c][p] = t
      /\ \A d \in Campaigns, q \in Proposals : d # c \/ q # p => task'[d][q] = task[d][q]
    BY <1>1
<1>3. DurableType'
    BY <1>2 DEF DurableInv, DurableType
<1>4. ASSUME NEW d \in Campaigns, NEW q \in Proposals
      PROVE  /\ TaskKeeps(task[d][q], task'[d][q]) /\ (task[d][q] = Null => task'[d][q] = Null)
             /\ q \in Merging /\ task'[d][q] # Null /\ task'[d][q].state = "delivered" =>
                   task'[d][q].merged # 0 \/ task'[d][q] = task[d][q]
    <2>1. CASE d = c /\ q = p
        BY <1>2, <2>1, NullAssumption DEF TaskKeeps
    <2>2. CASE d # c \/ q # p
        BY <1>2, <2>2 DEF TaskKeeps
    <2> QED BY <2>1, <2>2
<1> QED BY <1>3, <1>4, TaskStepIsSound

\* publishCampaign keeps the facts sound.
LEMMA PublishingIsSound ==
    ASSUME DurableInv, NEW c \in Campaigns, NEW observed \in Observations, PublishCampaign(c, observed)
    PROVE  DurableInv' /\ Advance
<1> DEFINE camps == [campaign EXCEPT ![c] = NewCampaign(c)]
<1>1. NewCampaign(c) \in CampaignRecord /\ NewCampaign(c).status = "planning"
    BY DEF NewCampaign, CampaignRecord
<1>2. camps \in [Campaigns -> CampaignRecord \cup {Null}]
    BY <1>1 DEF DurableInv, DurableType
<1>3. row \in [Campaigns -> [Proposals -> ProposalRecord \cup {Null}]]
    BY DEF DurableInv, DurableType
<1>4. ASSUME NEW d \in Campaigns
      PROVE  /\ RowsSound(row[d], task[d])
             /\ RowsKeep(row[d], task[d], row[d], task[d])
             /\ StatusKept(campaign[d], camps[d])
             /\ campaign[d] # Null /\ ~Open(d) => ScopeKept(row[d], row[d])
             /\ camps[d] # Null /\ camps[d].status = "accepted" =>
                   campaign[d] # Null /\ campaign[d].status = "accepted"
    <2>1. camps[d] = IF d = c THEN NewCampaign(c) ELSE campaign[d]
        BY DEF DurableInv, DurableType
    <2>2. StatusKept(campaign[d], camps[d])
        BY <2>1 DEF StatusKept, PublishCampaign
    <2> HIDE DEF camps
    <2> QED BY <1>1, <2>1, <2>2, NothingChanged DEF DurableInv
<1>5. ReconcileAll(camps, row, observed) /\ UNCHANGED <<task, assessment, replacement, main>>
    BY DEF PublishCampaign
<1> HIDE DEF camps
<1> QED BY <1>2, <1>3, <1>4, <1>5, ReconcilingIsSound

\* proposeCampaign keeps the facts sound.
LEMMA ProposingIsSound ==
    ASSUME DurableInv, NEW c \in Campaigns, NEW p \in Proposals, NEW observed \in Observations,
           ProposeCampaign(c, p, observed)
    PROVE  DurableInv' /\ Advance
<1> DEFINE camp == campaign[c]
           addition == camp.handedOff /\ camp.authorized /\ p \in Authorized /\ OutcomeOf[p] \in Live
           camps == IF camp.handedOff THEN [campaign EXCEPT ![c].decision = Null] ELSE campaign
           added == [row[c] EXCEPT ![p] = NewRow(NextSequence(row[c]), addition, FALSE, Null)]
           rows == [row EXCEPT ![c] = added]
<1>1. Open(c) /\ row[c][p] = Null /\ RowsSound(row[c], task[c])
    BY DEF ProposeCampaign, DurableInv
<1>2. /\ campaign \in [Campaigns -> CampaignRecord \cup {Null}]
      /\ row \in [Campaigns -> [Proposals -> ProposalRecord \cup {Null}]]
    BY DEF DurableInv, DurableType
<1>3. addition \in BOOLEAN
    BY <1>1, <1>2 DEF Open, CampaignRecord
<1> HIDE DEF addition
<1>4. RowsSound(added, task[c])
    BY <1>1, <1>3, NewRowIsSound
<1>5. RowsKeep(row[c], task[c], added, task[c])
    BY <1>1, <1>3, NewRowIsSound
<1> HIDE DEF added
<1>6. added \in [Proposals -> ProposalRecord \cup {Null}]
    BY <1>4 DEF RowsSound, RowsType
<1>7. rows \in [Campaigns -> [Proposals -> ProposalRecord \cup {Null}]]
    BY <1>2, <1>6
<1>8. camps \in [Campaigns -> CampaignRecord \cup {Null}]
    BY <1>1, <1>2 DEF Open, CampaignRecord
<1>9. ASSUME NEW d \in Campaigns
      PROVE  /\ RowsSound(rows[d], task[d])
             /\ RowsKeep(row[d], task[d], rows[d], task[d])
             /\ StatusKept(campaign[d], camps[d])
             /\ campaign[d] # Null /\ ~Open(d) => ScopeKept(row[d], rows[d])
             /\ camps[d] # Null /\ camps[d].status = "accepted" =>
                   campaign[d] # Null /\ campaign[d].status = "accepted"
    <2>1. rows[d] = IF d = c THEN added ELSE row[d]
        BY <1>2
    <2>2. RowsSound(row[d], task[d]) /\ RowsKeep(row[d], task[d], row[d], task[d]) /\ ScopeKept(row[d], row[d])
        BY NothingChanged DEF DurableInv
    <2>3. (campaign[d] # Null => camps[d] # Null /\ camps[d].status = campaign[d].status)
          /\ (camps[d] # Null => campaign[d] # Null)
        BY <1>1, <1>2, <1>8, NullAssumption DEF Open, CampaignRecord
    <2> HIDE DEF camps, rows
    <2>4. StatusKept(campaign[d], camps[d])
        BY <2>3 DEF StatusKept
    <2> QED BY <1>1, <1>4, <1>5, <2>1, <2>2, <2>3, <2>4
<1>10. rows = [row EXCEPT ![c][p] = NewRow(NextSequence(row[c]), addition, FALSE, Null)]
    BY <1>2 DEF added
<1>11. ReconcileAll(camps, rows, observed) /\ UNCHANGED <<task, assessment, replacement, main>>
    BY <1>10 DEF ProposeCampaign, addition
<1> HIDE DEF camps, rows
<1> QED BY <1>7, <1>8, <1>9, <1>11, ReconcilingIsSound

\* A Campaign changes in what is neither its status nor its rows, and all are reconciled.
LEMMA ChangingIsSound ==
    ASSUME DurableInv, NEW observed \in Observations, NEW camps \in [Campaigns -> CampaignRecord \cup {Null}],
           \A c \in Campaigns : camps[c] = Null <=> campaign[c] = Null,
           \A c \in Campaigns : campaign[c] # Null => camps[c].status = campaign[c].status,
           ReconcileAll(camps, row, observed), UNCHANGED <<task, assessment, replacement, main>>
    PROVE  DurableInv' /\ Advance
<1>1. row \in [Campaigns -> [Proposals -> ProposalRecord \cup {Null}]]
    BY DEF DurableInv, DurableType
<1>2. ASSUME NEW c \in Campaigns
      PROVE  /\ RowsSound(row[c], task[c])
             /\ RowsKeep(row[c], task[c], row[c], task[c])
             /\ StatusKept(campaign[c], camps[c])
             /\ campaign[c] # Null /\ ~Open(c) => ScopeKept(row[c], row[c])
             /\ camps[c] # Null /\ camps[c].status = "accepted" =>
                   campaign[c] # Null /\ campaign[c].status = "accepted"
    <2>1. StatusKept(campaign[c], camps[c])
        BY DEF StatusKept
    <2> QED BY <2>1, NothingChanged DEF DurableInv
<1> QED BY <1>1, <1>2, ReconcilingIsSound

\* reconcileAll keeps the facts sound.
LEMMA ReconciliationIsSound ==
    ASSUME DurableInv, NEW observed \in Observations, Reconcile(observed)
    PROVE  DurableInv' /\ Advance
<1>1. campaign \in [Campaigns -> CampaignRecord \cup {Null}]
    BY DEF DurableInv, DurableType
<1>2. ReconcileAll(campaign, row, observed) /\ UNCHANGED <<task, assessment, replacement, main>>
    BY DEF Reconcile
<1> QED BY <1>1, <1>2, ChangingIsSound

\* handoffCampaign keeps the facts sound.
LEMMA HandingOffIsSound ==
    ASSUME DurableInv, NEW c \in Campaigns, NEW observed \in Observations, HandoffCampaign(c, observed)
    PROVE  DurableInv' /\ Advance
<1> DEFINE camps == IF IsTerminal(campaign[c].status) THEN campaign
                    ELSE [campaign EXCEPT ![c].handedOff = TRUE]
<1>1. campaign \in [Campaigns -> CampaignRecord \cup {Null}] /\ campaign[c] \in CampaignRecord
    BY DEF DurableInv, DurableType, HandoffCampaign
<1>2. camps \in [Campaigns -> CampaignRecord \cup {Null}]
    BY <1>1 DEF CampaignRecord
<1>3. \A d \in Campaigns : camps[d] = Null <=> campaign[d] = Null
    BY <1>1, <1>2, NullAssumption DEF CampaignRecord
<1>4. \A d \in Campaigns : campaign[d] # Null => camps[d].status = campaign[d].status
    BY <1>1 DEF CampaignRecord
<1>5. ReconcileAll(camps, row, observed) /\ UNCHANGED <<task, assessment, replacement, main>>
    BY DEF HandoffCampaign
<1> HIDE DEF camps
<1> QED BY <1>2, <1>3, <1>4, <1>5, ChangingIsSound

\* checkpointCampaign keeps the facts sound: it supersedes no row with a Task.
LEMMA CheckpointingIsSound ==
    ASSUME DurableInv, NEW c \in Campaigns, NEW observed \in Observations, CheckpointCampaign(c, observed)
    PROVE  DurableInv' /\ Advance
<1> DEFINE needed == \E o \in Live : ~CurrentAssessment(c, row[c], o)
           gaps == \E o \in Live : CurrentAssessment(c, row[c], o) /\ assessment[c][o].verdict = "gaps"
           camps == IF ~campaign[c].assess /\ (needed \/ gaps)
                    THEN [campaign EXCEPT ![c].assess = needed, ![c].checkpoint = TRUE]
                    ELSE campaign
<1>0. ReconcileAll(camps, row, observed) /\ UNCHANGED <<task, assessment, replacement, main>>
    BY DEF CheckpointCampaign
<1>n. needed \in BOOLEAN
    OBVIOUS
<1> HIDE DEF needed, gaps
<1>1. campaign \in [Campaigns -> CampaignRecord \cup {Null}] /\ campaign[c] \in CampaignRecord
    BY DEF DurableInv, DurableType, CheckpointCampaign
<1> DEFINE new == [campaign[c] EXCEPT !.assess = needed, !.checkpoint = TRUE]
<1>r. new \in CampaignRecord /\ new.status = campaign[c].status
    BY <1>1, <1>n DEF CampaignRecord
<1>s. camps = campaign \/ camps = [campaign EXCEPT ![c] = new]
    OBVIOUS
<1> HIDE DEF new, camps
<1>2. camps \in [Campaigns -> CampaignRecord \cup {Null}]
    BY <1>1, <1>r, <1>s
<1>3. \A d \in Campaigns : camps[d] = Null <=> campaign[d] = Null
    BY <1>1, <1>r, <1>s, NullAssumption
<1>4. \A d \in Campaigns : campaign[d] # Null => camps[d].status = campaign[d].status
    BY <1>1, <1>r, <1>s
<1> HIDE DEF camps
<1> QED BY <1>0, <1>2, <1>3, <1>4, ChangingIsSound

\* abandonCampaign keeps the facts sound and settles the Campaign.
LEMMA AbandoningIsSound ==
    ASSUME DurableInv, NEW c \in Campaigns, AbandonCampaign(c)
    PROVE  /\ DurableInv' /\ Advance
           /\ campaign[c] # Null /\ campaign'[c] # Null /\ campaign'[c].status \in Final
<1>1. campaign \in [Campaigns -> CampaignRecord \cup {Null}] /\ campaign[c] \in CampaignRecord
    BY DEF DurableInv, DurableType, AbandonCampaign
<1> DEFINE new == [campaign[c] EXCEPT !.status = "abandoned", !.decision = Null]
<1>r. new \in CampaignRecord /\ new.status = "abandoned"
    BY <1>1 DEF CampaignRecord
<1>s. campaign' = IF campaign[c].status \in Final THEN campaign ELSE [campaign EXCEPT ![c] = new]
    BY DEF AbandonCampaign, Final
<1> HIDE DEF new
<1>2. /\ campaign' \in [Campaigns -> CampaignRecord \cup {Null}]
      /\ \A d \in Campaigns \ {c} : campaign'[d] = campaign[d]
      /\ campaign'[c] # Null
      /\ IF campaign[c].status \in Final THEN campaign'[c] = campaign[c]
         ELSE campaign'[c].status = "abandoned"
    BY <1>1, <1>r, <1>s, NullAssumption
<1>3. DurableType' /\ UNCHANGED <<row, task, assessment>>
    BY <1>2 DEF DurableInv, DurableType, AbandonCampaign
<1>4. ASSUME NEW d \in Campaigns
      PROVE  /\ StatusKept(campaign[d], campaign'[d])
             /\ campaign'[d] # Null /\ campaign'[d].status = "accepted" =>
                   campaign[d] # Null /\ campaign[d].status = "accepted"
    BY <1>1, <1>2, NullAssumption DEF StatusKept, Final
<1>5. DurableInv' /\ Advance
    BY <1>3, <1>4, CampaignStepIsSound
<1> QED BY <1>1, <1>2, <1>5, NullAssumption DEF Final

(***************************************************************************)
(* The answers of models.                                                  *)
(***************************************************************************)
AssessmentTarget == [c : Campaigns, o : Live, evidence : Evidence]
PlanTarget ==
    [c : Campaigns, o : Live, evidence : Evidence, assessment : Nat, checkpoint : BOOLEAN]

\* persistCampaignAssessment keeps the facts sound, however late the assessor answers.
LEMMA AssessingIsSound ==
    ASSUME DurableInv, NEW t \in AssessmentTarget, campaign[t.c] # Null,
           NEW verdict \in Verdicts, NEW failed \in BOOLEAN, NEW cancelled,
           PersistAssessment(t, verdict, failed, cancelled)
    PROVE  DurableInv' /\ Advance
<1> DEFINE current == LiveForModelWork(t.c) /\ EvidenceOf(t.c, row[t.c], t.o) = t.evidence
           valid == IF verdict = "satisfied" /\ ~Supports(t.evidence) THEN "inconclusive" ELSE verdict
           answer == [id |-> AttemptsMade(t.c, t.o) + 1, evidence |-> t.evidence,
                      verdict |-> valid, failed |-> failed]
           camp == [campaign[t.c] EXCEPT !.assess = FALSE]
<1>1. UNCHANGED <<row, task, replacement, main>>
    BY DEF PersistAssessment
<1>2. CASE cancelled \/ ~current
    BY <1>1, <1>2, StutteringIsSound DEF PersistAssessment
<1>3. CASE ~cancelled /\ current
    <2>1. /\ assessment' = [assessment EXCEPT ![t.c][t.o] = answer]
          /\ campaign' = [campaign EXCEPT ![t.c] = camp]
        BY <1>3 DEF PersistAssessment
    <2>2. t.c \in Campaigns /\ t.o \in Outcomes /\ t.evidence \in Evidence
        BY PlanAssumption DEF AssessmentTarget
    <2>3. campaign[t.c] \in CampaignRecord /\ Open(t.c)
        BY <1>3, <2>2 DEF DurableInv, DurableType, LiveForModelWork, Open, IsTerminal
    <2>4. camp \in CampaignRecord /\ camp.status = campaign[t.c].status
        BY <2>3 DEF CampaignRecord
    <2>5. answer \in AssessmentRecord
        <3>1. AttemptsMade(t.c, t.o) \in Nat
            BY <2>2 DEF AttemptsMade, DurableInv, DurableType, AssessmentRecord
        <3>2. valid \in Verdicts
            BY DEF Verdicts
        <3> HIDE DEF valid
        <3> QED BY <2>2, <3>1, <3>2 DEF AssessmentRecord
    <2> HIDE DEF camp, answer
    <2>6. /\ campaign' \in [Campaigns -> CampaignRecord \cup {Null}]
          /\ assessment' \in [Campaigns -> [Outcomes -> AssessmentRecord \cup {Null}]]
        BY <2>1, <2>2, <2>4, <2>5 DEF DurableInv, DurableType
    <2>7. DurableType'
        BY <1>1, <2>6 DEF DurableInv, DurableType
    <2>8. ASSUME NEW c \in Campaigns
          PROVE  /\ StatusKept(campaign[c], campaign'[c])
                 /\ campaign'[c] # Null /\ campaign'[c].status = "accepted" =>
                       campaign[c] # Null /\ campaign[c].status = "accepted"
                 /\ campaign[c] # Null /\ ~Open(c) => assessment'[c] = assessment[c]
        <3>1. CASE c = t.c
            <4>1. campaign'[c] = camp
                BY <2>1, <3>1 DEF DurableInv, DurableType
            <4> QED BY <2>3, <2>4, <3>1, <4>1, NullAssumption DEF StatusKept
        <3>2. CASE c # t.c
            <4>1. campaign'[c] = campaign[c] /\ assessment'[c] = assessment[c]
                BY <2>1, <3>2 DEF DurableInv, DurableType
            <4> QED BY <4>1 DEF StatusKept
        <3> QED BY <3>1, <3>2
    <2> QED BY <1>1, <2>7, <2>8, CampaignStepIsSound
<1> QED BY <1>2, <1>3

\* reserveReplacementRun keeps the facts sound.
LEMMA ReservingIsSound ==
    ASSUME DurableInv, NEW t \in PlanTarget, ReserveReplacement(t)
    PROVE  DurableInv' /\ Advance
<1> DEFINE r == [assessment |-> t.assessment, status |-> "pending", failed |-> FALSE]
<1>1. r \in ReplacementRecord /\ t.c \in Campaigns /\ t.o \in Outcomes
    BY PlanAssumption DEF PlanTarget, ReplacementRecord
<1>2. replacement' \in [Campaigns -> [Outcomes -> ReplacementRecord \cup {Null}]]
    BY <1>1 DEF ReserveReplacement, DurableInv, DurableType
<1>3. DurableType' /\ UNCHANGED <<campaign, row, task, assessment>>
    BY <1>2 DEF DurableInv, DurableType, ReserveReplacement
<1>4. \A c \in Campaigns : StatusKept(campaign[c], campaign'[c])
    BY <1>3 DEF StatusKept
<1> QED BY <1>3, <1>4, CampaignStepIsSound

\* The draft that is admitted adds its row and supersedes one that nobody owns.
LEMMA ReplacementIsSound ==
    ASSUME DurableInv, NEW t \in PlanTarget, campaign[t.c] # Null, NEW p \in Proposals,
           NEW supersedes, ReplacementStatus(t, p, supersedes) = "admitted"
    PROVE  LET made == WithReplacement(row[t.c], p, supersedes)
           IN  RowsSound(made, task[t.c]) /\ RowsKeep(row[t.c], task[t.c], made, task[t.c])
<1> DEFINE rows == row[t.c]
           new == NewRow(NextSequence(rows), FALSE, TRUE, supersedes)
           added == [rows EXCEPT ![p] = new]
           made == WithReplacement(rows, p, supersedes)
<1>1. t.c \in Campaigns /\ t.o \in Outcomes /\ RowsSound(rows, task[t.c]) /\ rows[p] = Null
    BY PlanAssumption DEF PlanTarget, DurableInv, ReplacementStatus
<1>2. supersedes = Null \/ supersedes \in Supersedable(t.c, rows, t.o)
    BY DEF ReplacementStatus, Revisable
<1>3. supersedes \in Proposals \cup {Null}
    BY <1>2 DEF Supersedable, Present
<1>4. RowsSound(added, task[t.c])
    BY <1>1, <1>3, NewRowIsSound
<1>5. RowsKeep(rows, task[t.c], added, task[t.c])
    BY <1>1, <1>3, NewRowIsSound
<1>6. CASE supersedes = Null
    <2>1. made = added
        BY <1>6 DEF WithReplacement
    <2> QED BY <1>4, <1>5, <2>1
<1>7. CASE supersedes # Null
    <2> DEFINE s == supersedes
    <2>1. /\ s \in Present(rows) /\ s # p /\ rows[s].status \in {"planned", "blocked"}
          /\ rows[s].base = 0 /\ ~rows[s].taskId
        BY <1>1, <1>2, <1>7 DEF Supersedable, Present
    <2>2. rows \in [Proposals -> ProposalRecord \cup {Null}] /\ s \in Proposals
        BY <1>1, <2>1 DEF RowsSound, RowsType, Present
    <2>3. added[s] = rows[s] /\ added[p] = new
        BY <2>1, <2>2
    <2>4. new.supersedes = s /\ added[p] # Null
        <3>1. added[p] \in ProposalRecord \cup {Null}
            BY <1>4 DEF RowsSound, RowsType
        <3>2. p \in DOMAIN rows /\ new.status = "planned"
            BY <2>2 DEF NewRow
        <3>3. NextSequence(rows) \in Nat
            <4>1. Present(rows) \in SUBSET Proposals
                BY DEF Present
            <4> QED BY <4>1, PlanAssumption, FS_Subset, FS_CardinalityType DEF NextSequence
        <3>4. new \in ProposalRecord
            BY <2>2, <3>3 DEF NewRow, ProposalRecord
        <3> QED BY <2>3, <3>4, NullAssumption DEF NewRow
    <2>5. s \in Present(added) /\ p \in Present(added)
        BY <2>1, <2>2, <2>3, <2>4 DEF Present
    <2> DEFINE last == [added EXCEPT ![s].status = "superseded", ![s].blocker = Null,
                                     ![s].supersededBy = p]
    <2>6. made = last
        BY <1>7 DEF WithReplacement
    <2> HIDE DEF added, new, made
    <2>7. RowsSound(last, task[t.c])
        BY <1>4, <2>1, <2>3, <2>4, <2>5, SupersedingIsSound
    <2>8. RowsKeep(added, task[t.c], last, task[t.c])
        BY <1>4, <2>1, <2>3, <2>4, <2>5, SupersedingIsSound
    <2> HIDE DEF last
    <2>9. RowsKeep(rows, task[t.c], last, task[t.c])
        BY <1>1, <1>5, <2>8, KeepingComposes DEF RowsSound
    <2> QED BY <2>6, <2>7, <2>9 DEF made
<1> QED BY <1>6, <1>7

\* persistReplacementResult keeps the facts sound, however late the planner answers.
LEMMA PlanningIsSound ==
    ASSUME DurableInv, NEW t \in PlanTarget, campaign[t.c] # Null, NEW draft \in DraftAnswers,
           NEW failed \in BOOLEAN, NEW cancelled \in BOOLEAN,
           PersistReplacement(t, draft, failed, cancelled)
    PROVE  DurableInv' /\ Advance
<1> DEFINE c == t.c
           current == StillCurrent(t)
           status == IF cancelled THEN "failed"
                     ELSE IF draft = Null THEN "unavailable"
                     ELSE IF current THEN ReplacementStatus(t, draft.p, draft.supersedes)
                     ELSE "invalid"
           rows == IF status = "admitted"
                   THEN WithReplacement(row[c], draft.p, draft.supersedes) ELSE row[c]
           retain == /\ t.checkpoint
                     /\ IF status = "admitted"
                        THEN \E o \in Live : Supersedable(t.c, rows, o) # {}
                        ELSE failed \/ status \in {"invalid", "duplicate"}
           camp == [campaign[c] EXCEPT !.status = "planning", !.decision = Null, !.checkpoint = retain]
           r == [assessment |-> t.assessment, status |-> status, failed |-> failed \/ cancelled]
<1>1. /\ replacement' = [replacement EXCEPT ![c][t.o] = r]
      /\ row' = [row EXCEPT ![c] = rows]
      /\ UNCHANGED <<task, assessment, main>>
    BY DEF PersistReplacement
<1>2. campaign' = IF current /\ ~cancelled THEN [campaign EXCEPT ![c] = camp] ELSE campaign
    BY DEF PersistReplacement
<1>3. c \in Campaigns /\ t.o \in Outcomes /\ t.assessment \in Nat /\ t.checkpoint \in BOOLEAN
    BY PlanAssumption DEF PlanTarget
<1>4. RowsSound(row[c], task[c]) /\ campaign[c] \in CampaignRecord
    BY <1>3 DEF DurableInv, DurableType
<1>5. draft # Null => draft.p \in Proposals
    BY PlanAssumption DEF DraftAnswers
<1>6. status = "admitted" => current /\ draft # Null /\ ReplacementStatus(t, draft.p, draft.supersedes) = "admitted"
    OBVIOUS
<1>7. current => Open(c) /\ campaign[c].status = "planning"
    BY DEF StillCurrent, NeedsReplacement, LiveForModelWork, Open, IsTerminal
<1>8. status \in {"failed", "unavailable", "invalid", "duplicate", "admitted"}
    BY DEF ReplacementStatus
<1>9. retain \in BOOLEAN
    OBVIOUS
<1>10. r \in ReplacementRecord
    BY <1>3, <1>8 DEF ReplacementRecord
<1> HIDE DEF r, retain, current
<1>11. RowsSound(rows, task[c])
    <2>1. CASE status = "admitted"
        <3>1. RowsSound(WithReplacement(row[c], draft.p, draft.supersedes), task[c])
            BY <1>5, <1>6, <2>1, ReplacementIsSound
        <3> QED BY <2>1, <3>1
    <2>2. CASE status # "admitted"
        BY <1>4, <2>2
    <2> QED BY <2>1, <2>2
<1>12. RowsKeep(row[c], task[c], rows, task[c])
    <2>1. CASE status = "admitted"
        <3>1. RowsKeep(row[c], task[c], WithReplacement(row[c], draft.p, draft.supersedes), task[c])
            BY <1>5, <1>6, <2>1, ReplacementIsSound
        <3> QED BY <2>1, <3>1
    <2>2. CASE status # "admitted"
        BY <2>2, NothingChanged
    <2> QED BY <2>1, <2>2
<1>13. ~Open(c) => rows = row[c]
    BY <1>6, <1>7
<1> HIDE DEF rows, status
<1>14. camp \in CampaignRecord /\ camp.status = "planning"
    BY <1>4, <1>9 DEF CampaignRecord
<1> HIDE DEF camp
<1>15. DurableType'
    <2>1. rows \in [Proposals -> ProposalRecord \cup {Null}]
        BY <1>11 DEF RowsSound, RowsType
    <2>2. row' \in [Campaigns -> [Proposals -> ProposalRecord \cup {Null}]]
        BY <1>1, <2>1 DEF DurableInv, DurableType
    <2>3. replacement' \in [Campaigns -> [Outcomes -> ReplacementRecord \cup {Null}]]
        BY <1>1, <1>3, <1>10 DEF DurableInv, DurableType
    <2>4. campaign' \in [Campaigns -> CampaignRecord \cup {Null}]
        BY <1>2, <1>14 DEF DurableInv, DurableType
    <2> QED BY <1>1, <2>2, <2>3, <2>4 DEF DurableInv, DurableType
<1>16. ASSUME NEW d \in Campaigns
       PROVE  /\ RowsSound(row'[d], task'[d])
              /\ RowsKeep(row[d], task[d], row'[d], task'[d])
              /\ StatusKept(campaign[d], campaign'[d])
              /\ campaign'[d] # Null /\ campaign'[d].status = "accepted" =>
                    campaign[d] # Null /\ campaign[d].status = "accepted"
              /\ campaign[d] # Null /\ ~Open(d) =>
                    assessment'[d] = assessment[d] /\ ScopeKept(row[d], row'[d])
    <2>1. CASE d = c
        <3>1. row'[d] = rows /\ task'[d] = task[c] /\ assessment'[d] = assessment[d]
            BY <1>1, <2>1 DEF DurableInv, DurableType
        <3>2. campaign'[d] = campaign[d] \/ (campaign[d].status = "planning" /\ campaign'[d] = camp)
            BY <1>2, <1>7, <1>14, <2>1 DEF DurableInv, DurableType
        <3>3. StatusKept(campaign[d], campaign'[d])
            BY <1>14, <3>2, NullAssumption DEF StatusKept, Final
        <3>4. ~Open(d) => ScopeKept(row[d], row'[d])
            BY <1>13, <2>1, <3>1, NothingChanged
        <3> QED BY <1>11, <1>12, <1>14, <2>1, <3>1, <3>2, <3>3, <3>4
    <2>2. CASE d # c
        <3>1. /\ row'[d] = row[d] /\ task'[d] = task[d] /\ assessment'[d] = assessment[d]
              /\ campaign'[d] = campaign[d]
            BY <1>1, <1>2, <2>2 DEF DurableInv, DurableType
        <3>2. StatusKept(campaign[d], campaign'[d])
            BY <3>1 DEF StatusKept
        <3> QED BY <3>1, <3>2, NothingChanged DEF DurableInv
    <2> QED BY <2>1, <2>2
<1> QED BY <1>15, <1>16, StepIsSound

\* Startup: the reservations are recovered, and the Tasks of abandoned Campaigns blocked.
LEMMA RestartIsSound ==
    ASSUME DurableInv, Restart
    PROVE  DurableInv' /\ Advance
<1>1. UNCHANGED <<row, assessment, main>> /\ RecoverPending
    BY DEF Restart
<1>2. ASSUME NEW c \in Campaigns
      PROVE  /\ campaign'[c] \in CampaignRecord \cup {Null}
             /\ campaign'[c] = Null <=> campaign[c] = Null
             /\ campaign[c] # Null => campaign'[c].status = campaign[c].status
    <2>1. campaign'[c] = campaign[c] \/ (campaign[c] # Null /\ campaign'[c] = [campaign[c] EXCEPT !.decision = Null])
        BY <1>1 DEF RecoverPending
    <2>2. campaign[c] \in CampaignRecord \cup {Null}
        BY DEF DurableInv, DurableType
    <2>3. campaign[c] # Null => [campaign[c] EXCEPT !.decision = Null] \in CampaignRecord
                                /\ [campaign[c] EXCEPT !.decision = Null].status = campaign[c].status
        BY <2>2 DEF CampaignRecord
    <2> QED BY <2>1, <2>2, <2>3, NullAssumption
<1>3. ASSUME NEW c \in Campaigns, NEW p \in Proposals
      PROVE  \/ task'[c][p] = task[c][p]
             \/ /\ task[c][p] # Null /\ ~TerminalTask(task[c][p])
                /\ task'[c][p] = [task[c][p] EXCEPT !.state = "blocked"]
    BY DEF Restart, Launchable
<1>4. ASSUME NEW c \in Campaigns, NEW p \in Proposals
      PROVE  /\ task'[c][p] \in TaskRecord \cup {Null}
             /\ TaskKeeps(task[c][p], task'[c][p]) /\ (task[c][p] = Null => task'[c][p] = Null)
             /\ task'[c][p] # Null /\ task'[c][p].state = "delivered" => task'[c][p] = task[c][p]
    <2>1. task[c][p] \in TaskRecord \cup {Null}
        BY DEF DurableInv, DurableType
    <2>2. CASE task'[c][p] = task[c][p]
        BY <2>1, <2>2 DEF TaskKeeps
    <2>3. CASE /\ task[c][p] # Null /\ ~TerminalTask(task[c][p])
               /\ task'[c][p] = [task[c][p] EXCEPT !.state = "blocked"]
        <3>1. task'[c][p] \in TaskRecord /\ task'[c][p].base = task[c][p].base /\ task'[c][p].state = "blocked"
            BY <2>1, <2>3 DEF TaskRecord, TaskStates
        <3> QED BY <2>3, <3>1, NullAssumption DEF TaskKeeps
    <2> QED BY <1>3, <2>2, <2>3
<1>5. DurableType'
    <2>1. campaign' \in [Campaigns -> CampaignRecord \cup {Null}]
        BY <1>1, <1>2 DEF RecoverPending
    <2>2. task' \in [Campaigns -> [Proposals -> TaskRecord \cup {Null}]]
        BY <1>4 DEF Restart
    <2>3. replacement' \in [Campaigns -> [Outcomes -> ReplacementRecord \cup {Null}]]
        <3>1. ASSUME NEW c \in Campaigns, NEW o \in Outcomes
              PROVE  replacement'[c][o] \in ReplacementRecord \cup {Null}
            <4>1. replacement[c][o] \in ReplacementRecord \cup {Null}
                BY DEF DurableInv, DurableType
            <4>2. \/ replacement'[c][o] = replacement[c][o]
                  \/ /\ replacement[c][o] # Null
                     /\ replacement'[c][o] = [replacement[c][o] EXCEPT !.status = "failed", !.failed = TRUE]
                BY <1>1 DEF RecoverPending
            <4> QED BY <4>1, <4>2 DEF ReplacementRecord
        <3> QED BY <1>1, <3>1 DEF RecoverPending
    <2> QED BY <1>1, <2>1, <2>2, <2>3 DEF DurableInv, DurableType
<1>6. ASSUME NEW c \in Campaigns
      PROVE  /\ RowsSound(row'[c], task'[c])
             /\ RowsKeep(row[c], task[c], row'[c], task'[c])
             /\ StatusKept(campaign[c], campaign'[c])
             /\ campaign'[c] # Null /\ campaign'[c].status = "accepted" =>
                   campaign[c] # Null /\ campaign[c].status = "accepted"
             /\ ScopeKept(row[c], row'[c])
    <2>1. RowsSound(row[c], task[c]) /\ task'[c] \in [Proposals -> TaskRecord \cup {Null}]
        BY <1>5 DEF DurableInv, DurableType
    <2>2. \A p \in Merging : p \in Proposals
        BY PlanAssumption
    <2>3. RowsSound(row[c], task'[c])
        BY <1>4, <2>1, <2>2, TasksGoOn
    <2>4. RowsKeep(row[c], task[c], row[c], task'[c])
        BY <1>4, <2>1, <2>2, TasksGoOn
    <2>5. StatusKept(campaign[c], campaign'[c])
        BY <1>2 DEF StatusKept
    <2>6. campaign'[c] # Null => campaign[c] # Null /\ campaign'[c].status = campaign[c].status
        BY <1>2
    <2> QED BY <1>1, <2>3, <2>4, <2>5, <2>6, NothingChanged
<1> QED BY <1>1, <1>5, <1>6, StepIsSound

(***************************************************************************)
(* The inductive invariant of the server.                                  *)
(***************************************************************************)
CoordinationRecord ==
    [at : {"idle", "admit", "record", "launch"}, todo : SUBSET Campaigns, c : Campaigns \cup {0},
     rows : SUBSET Proposals, p : Proposals \cup {Null}, done : SUBSET Tasks]
WorkRecord ==
    [at : {"none", "assess", "reserved", "invoke", "replace", "plan", "planned", "allow", "draft",
           "admitted", "final"},
     targets : SUBSET AssessmentTarget, t : AssessmentTarget \cup PlanTarget \cup {Null},
     ran : BOOLEAN, missed : BOOLEAN, aborted : BOOLEAN, owned : SUBSET Campaigns]
ExecutionRecord ==
    [op : {"none", "launched", "running"}, abort : BOOLEAN,
     settling : {"no", "reading", "arming"}, timer : BOOLEAN]
HandlerRecord ==
    [at : {"none", "marked", "waiting", "blocking", "done", "failed"}, todo : SUBSET Proposals,
     seen : (Proposals \X TaskRecord) \cup {Null}]

\* The rows a coordination has read are released, and stay so.
CoordinationInv ==
    /\ coord \in CoordinationRecord
    /\ coord.rows # {} => coord.c \in Campaigns
    /\ \A p \in coord.rows : row[coord.c][p] # Null /\ row[coord.c][p].base # 0
    /\ coord.at = "record" =>
          coord.c \in Campaigns /\ coord.p \in Proposals /\ task[coord.c][coord.p] # Null
    /\ \A k \in coord.done : TheTask(k) # Null

\* What the model work asks about is published, and the Campaign it invokes a model for is the
\* one it owns, for cancelCampaign to find.
Asks(targets) ==
    work.t \in targets /\ campaign[work.t.c] # Null /\ work.owned = {work.t.c}
WorkInv ==
    /\ work \in WorkRecord
    /\ \A t \in work.targets : campaign[t.c] # Null
    /\ work.at \in {"reserved", "invoke"} => Asks(AssessmentTarget)
    /\ work.at \in {"plan", "planned", "allow", "draft"} => Asks(PlanTarget)

\* Whatever is launched, armed or about to be is the execution of a Task.
Engaged(e) == e.op # "none" \/ e.settling # "no" \/ e.timer
ExecutionsInv ==
    /\ exec \in [Campaigns -> [Proposals -> ExecutionRecord]]
    /\ \A c \in Campaigns, p \in Proposals : Engaged(exec[c][p]) => task[c][p] # Null

\* A handler that has marked its Campaign has it settled; it blocks Tasks that have not ended.
HandlersInv ==
    /\ abandoning \in [Campaigns -> HandlerRecord]
    /\ \A c \in Campaigns :
          /\ abandoning[c].at # "none" => campaign[c] # Null /\ campaign[c].status \in Final
          /\ \A p \in abandoning[c].todo : task[c][p] # Null
          /\ abandoning[c].seen # Null =>
                task[c][abandoning[c].seen[1]] # Null /\ ~TerminalTask(abandoning[c].seen[2])

\* What runs for an abandoned Campaign when its handler waits has been aborted; later nothing runs.
Invoking(c) == work.at \in {"invoke", "draft"} /\ work.t.c = c
QuietInv ==
    \A c \in Campaigns : campaign[c].status = "abandoned" =>
        /\ abandoning[c].at = "waiting" =>
              /\ \A p \in Proposals : exec[c][p].op = "running" => exec[c][p].abort
              /\ Invoking(c) => work.aborted
        /\ abandoning[c].at \in {"blocking", "done", "failed"} =>
              (\A p \in Proposals : exec[c][p].op # "running") /\ ~Invoking(c)

IInv == DurableInv /\ CoordinationInv /\ WorkInv /\ ExecutionsInv /\ HandlersInv /\ QuietInv

\* What other parts rely on of the durable facts stays.
LEMMA WhatStays ==
    ASSUME DurableInv, Advance, NEW c \in Campaigns
    PROVE  /\ \A p \in Proposals : task[c][p] # Null => task'[c][p] # Null
           /\ \A p \in Proposals : row[c][p] # Null /\ row[c][p].base # 0 =>
                 row'[c][p] # Null /\ row'[c][p].base = row[c][p].base
           /\ campaign[c] # Null => campaign'[c] # Null
           /\ campaign[c] # Null /\ campaign[c].status \in Final => campaign'[c].status = campaign[c].status
<1>1. RowsKeep(row[c], task[c], row'[c], task'[c]) /\ StatusKept(campaign[c], campaign'[c])
    BY DEF Advance
<1>2. \A p \in Proposals : task[c][p] # Null => task'[c][p] # Null
    BY <1>1 DEF RowsKeep, TaskKeeps
<1>3. \A p \in Proposals : row[c][p] # Null /\ row[c][p].base # 0 =>
          row'[c][p] # Null /\ row'[c][p].base = row[c][p].base
    BY <1>1 DEF RowsKeep, RowKeeps, Present
<1> QED BY <1>1, <1>2, <1>3 DEF StatusKept

\* What the coordination holds stays sound while the facts only advance.
LEMMA CoordinationIsKept ==
    ASSUME DurableInv, Advance, CoordinationInv, UNCHANGED coord
    PROVE  CoordinationInv'
<1>1. \A p \in coord.rows : row'[coord.c][p] # Null /\ row'[coord.c][p].base # 0
    BY WhatStays DEF CoordinationInv, CoordinationRecord
<1>2. coord.at = "record" => task'[coord.c][coord.p] # Null
    BY WhatStays DEF CoordinationInv
<1>3. \A k \in coord.done : task'[k[1]][k[2]] # Null
    <2> TAKE k \in coord.done
    <2>1. k[1] \in Campaigns /\ k[2] \in Proposals /\ task[k[1]][k[2]] # Null
        BY DEF CoordinationInv, CoordinationRecord, Tasks, TheTask
    <2> QED BY <2>1, WhatStays
<1> QED BY <1>1, <1>2, <1>3 DEF CoordinationInv, TheTask

\* What the model work holds stays sound while the facts only advance.
LEMMA WorkIsKept ==
    ASSUME DurableInv, Advance, WorkInv, UNCHANGED work
    PROVE  WorkInv'
<1>1. \A t \in AssessmentTarget \cup PlanTarget : t.c \in Campaigns
    BY DEF AssessmentTarget, PlanTarget
<1>2. \A t \in AssessmentTarget \cup PlanTarget : campaign[t.c] # Null => campaign'[t.c] # Null
    BY <1>1, WhatStays
<1>3. \A t \in work.targets : campaign'[t.c] # Null
    BY <1>2 DEF WorkInv, WorkRecord
<1> QED BY <1>2, <1>3 DEF WorkInv, Asks

\* What executions hold stays sound while the facts only advance.
LEMMA ExecutionsAreKept ==
    ASSUME DurableInv, Advance, ExecutionsInv, UNCHANGED exec
    PROVE  ExecutionsInv'
  BY WhatStays DEF ExecutionsInv

\* What the handlers of abandonments hold stays sound while the facts only advance.
LEMMA HandlersAreKept ==
    ASSUME DurableInv, Advance, HandlersInv, UNCHANGED abandoning
    PROVE  HandlersInv'
<1> SUFFICES ASSUME NEW c \in Campaigns
             PROVE  /\ abandoning[c].at # "none" => campaign'[c] # Null /\ campaign'[c].status \in Final
                    /\ \A p \in abandoning[c].todo : task'[c][p] # Null
                    /\ abandoning[c].seen # Null => task'[c][abandoning[c].seen[1]] # Null
    BY DEF HandlersInv
<1>1. abandoning[c] \in HandlerRecord
    BY DEF HandlersInv
<1>2. abandoning[c].at # "none" => campaign'[c] # Null /\ campaign'[c].status \in Final
    BY WhatStays DEF HandlersInv
<1>3. \A p \in abandoning[c].todo : task'[c][p] # Null
    BY <1>1, WhatStays DEF HandlersInv, HandlerRecord
<1>4. abandoning[c].seen # Null => task'[c][abandoning[c].seen[1]] # Null
    <2>1. abandoning[c].seen # Null => abandoning[c].seen[1] \in Proposals
        BY <1>1 DEF HandlerRecord
    <2> QED BY <2>1, WhatStays DEF HandlersInv
<1> QED BY <1>2, <1>3, <1>4

\* No step starts anything for an abandoned Campaign, nor takes an abort back.
LEMMA QuietIsKept ==
    ASSUME DurableInv, Advance, HandlersInv, QuietInv, UNCHANGED abandoning,
           \A c \in Campaigns, p \in Proposals : exec'[c][p].op = "running" =>
              \/ exec[c][p].op = "running" /\ (exec[c][p].abort => exec'[c][p].abort)
              \/ campaign'[c].status # "abandoned",
           work'.at \in {"invoke", "draft"} =>
              \/ work.at \in {"invoke", "draft"} /\ work'.t = work.t /\ (work.aborted => work'.aborted)
              \/ campaign'[work'.t.c].status # "abandoned"
    PROVE  QuietInv'
<1> SUFFICES ASSUME NEW c \in Campaigns, campaign'[c].status = "abandoned", abandoning[c].at # "none"
             PROVE  /\ abandoning[c].at = "waiting" =>
                          /\ \A p \in Proposals : exec'[c][p].op = "running" => exec'[c][p].abort
                          /\ Invoking(c)' => work'.aborted
                    /\ abandoning[c].at \in {"blocking", "done", "failed"} =>
                          (\A p \in Proposals : exec'[c][p].op # "running") /\ ~Invoking(c)'
    BY DEF QuietInv
<1>1. campaign[c] # Null /\ campaign[c].status \in Final
    BY DEF HandlersInv
<1>2. campaign[c].status = "abandoned"
    BY <1>1, WhatStays
<1>3. Invoking(c)' => Invoking(c) /\ (work.aborted => work'.aborted)
    BY DEF Invoking
<1> QED BY <1>2, <1>3 DEF QuietInv

(***************************************************************************)
(* The steps of the server.                                                *)
(***************************************************************************)

\* Steps of the durable facts and of one other part.
LEMMA DurableChanges ==
    ASSUME IInv, DurableInv', Advance, UNCHANGED <<coord, work, exec, abandoning>>
    PROVE  IInv'
<1>1. CoordinationInv' /\ WorkInv' /\ ExecutionsInv' /\ HandlersInv'
    BY CoordinationIsKept, WorkIsKept, ExecutionsAreKept, HandlersAreKept DEF IInv
<1>2. QuietInv'
    BY QuietIsKept DEF IInv
<1> QED BY <1>1, <1>2 DEF IInv

\* A step of the coordination alone keeps the invariant.
LEMMA CoordinationChanges ==
    ASSUME IInv, DurableInv', Advance, UNCHANGED <<work, exec, abandoning>>, CoordinationInv'
    PROVE  IInv'
<1>1. WorkInv' /\ ExecutionsInv' /\ HandlersInv'
    BY WorkIsKept, ExecutionsAreKept, HandlersAreKept DEF IInv
<1>2. QuietInv'
    BY QuietIsKept DEF IInv
<1> QED BY <1>1, <1>2 DEF IInv

\* A step of the model work alone keeps the invariant, if it asks no model for an abandoned
\* Campaign.
LEMMA WorkChanges ==
    ASSUME IInv, DurableInv', Advance, UNCHANGED <<coord, exec, abandoning>>, WorkInv',
           work'.at \in {"invoke", "draft"} =>
              \/ work.at \in {"invoke", "draft"} /\ work'.t = work.t /\ (work.aborted => work'.aborted)
              \/ campaign'[work'.t.c].status # "abandoned"
    PROVE  IInv'
<1>1. CoordinationInv' /\ ExecutionsInv' /\ HandlersInv'
    BY CoordinationIsKept, ExecutionsAreKept, HandlersAreKept DEF IInv
<1>2. QuietInv'
    BY QuietIsKept DEF IInv
<1> QED BY <1>1, <1>2 DEF IInv

\* A step of executions alone keeps the invariant, if it starts none for an abandoned Campaign.
LEMMA ExecutionsChange ==
    ASSUME IInv, DurableInv', Advance, UNCHANGED <<coord, work, abandoning>>, ExecutionsInv',
           \A c \in Campaigns, p \in Proposals : exec'[c][p].op = "running" =>
              \/ exec[c][p].op = "running" /\ (exec[c][p].abort => exec'[c][p].abort)
              \/ campaign'[c].status # "abandoned"
    PROVE  IInv'
<1>1. CoordinationInv' /\ WorkInv' /\ HandlersInv'
    BY CoordinationIsKept, WorkIsKept, HandlersAreKept DEF IInv
<1>2. QuietInv'
    BY QuietIsKept DEF IInv
<1> QED BY <1>1, <1>2 DEF IInv

\* The requests of the guardian.
LEMMA GuardianKeeps ==
    ASSUME IInv, Guardian
    PROVE  IInv' /\ Advance
<1>1. PICK c \in Campaigns, observed \in Observations :
          \/ Publish(c, observed) \/ Checkpoint(c, observed)
          \/ campaign[c] # Null /\ Handoff(c, observed)
          \/ \E i \in 1..Len(Plan[c]) : Propose(c, Plan[c][i], observed)
    BY DEF Guardian
<1>2. CASE Publish(c, observed)
    <2>1. DurableInv' /\ Advance
        BY <1>2, PublishingIsSound DEF IInv, Publish
    <2>2. UNCHANGED <<coord, work, exec, abandoning>>
        BY <1>2 DEF Publish, Request
    <2> QED BY <2>1, <2>2, DurableChanges
<1>3. CASE Checkpoint(c, observed)
    <2>1. DurableInv' /\ Advance
        BY <1>3, CheckpointingIsSound DEF IInv, Checkpoint
    <2>2. UNCHANGED <<coord, work, exec, abandoning>>
        BY <1>3 DEF Checkpoint, Request
    <2> QED BY <2>1, <2>2, DurableChanges
<1>4. CASE Handoff(c, observed)
    <2>1. DurableInv' /\ Advance
        BY <1>4, HandingOffIsSound DEF IInv, Handoff
    <2>2. UNCHANGED <<coord, work, exec, abandoning>>
        BY <1>4 DEF Handoff, Request
    <2> QED BY <2>1, <2>2, DurableChanges
<1>5. CASE \E i \in 1..Len(Plan[c]) : Propose(c, Plan[c][i], observed)
    <2>1. PICK i \in 1..Len(Plan[c]) : Propose(c, Plan[c][i], observed)
        BY <1>5
    <2>2. Plan[c][i] \in Proposals
        <3>1. Plan[c] \in Seq(Proposals)
            BY ServerAssumption
        <3> QED BY <3>1
    <2>3. DurableInv' /\ Advance
        BY <2>1, <2>2, ProposingIsSound DEF IInv, Propose
    <2>4. UNCHANGED <<coord, work, exec, abandoning>>
        BY <2>1 DEF Propose, Request
    <2> QED BY <2>3, <2>4, DurableChanges
<1> QED BY <1>1, <1>2, <1>3, <1>4, <1>5

\* The coordination: its rows are released, so their Tasks may be admitted and recorded.
LEMMA StartCoordinationKeeps ==
    ASSUME IInv, NEW observed \in Observations, StartCoordination(observed)
    PROVE  IInv' /\ Advance
<1>1. DurableInv' /\ Advance
    BY ReconciliationIsSound DEF IInv, StartCoordination
<1>2. UNCHANGED <<work, exec, abandoning>>
    BY DEF StartCoordination, CoordinationOnly
<1> DEFINE todo == {c \in Campaigns : campaign'[c] # Null /\ campaign'[c].handedOff
                                      /\ ~IsTerminal(campaign'[c].status)}
<1>3. coord \in CoordinationRecord
    BY DEF IInv, CoordinationInv
<1>4. coord' = [coord EXCEPT !.at = "admit", !.todo = todo]
    BY DEF StartCoordination
<1>5. todo \in SUBSET Campaigns
    OBVIOUS
<1> HIDE DEF todo
<1>6. /\ coord' \in CoordinationRecord
      /\ coord'.at = "admit" /\ coord'.c = coord.c /\ coord'.rows = coord.rows /\ coord'.done = coord.done
    BY <1>3, <1>4, <1>5 DEF CoordinationRecord
<1>7. \A p \in coord.rows : row'[coord.c][p] # Null /\ row'[coord.c][p].base # 0
    BY <1>1, <1>3, WhatStays DEF IInv, CoordinationInv, CoordinationRecord
<1>8. \A k \in coord.done : task'[k[1]][k[2]] # Null
    BY DEF IInv, CoordinationInv, StartCoordination, Reconcile, TheTask
<1>9. CoordinationInv'
    BY <1>6, <1>7, <1>8 DEF IInv, CoordinationInv, TheTask
<1> QED BY <1>1, <1>2, <1>9, CoordinationChanges

\* Reading the rows keeps the invariant.
LEMMA ReadRowsKeeps ==
    ASSUME IInv, ReadRows
    PROVE  IInv' /\ Advance
<1>1. UNCHANGED <<campaign, row, task, assessment, replacement, main, work, exec, abandoning>>
    BY DEF ReadRows, durable, CoordinationOnly
<1>2. DurableInv' /\ Advance
    BY <1>1, StutteringIsSound DEF IInv
<1> DEFINE c == Min(coord.todo)
           rows == {p \in Present(row[c]) :
                      row[c][p].status = "ready" /\ ~row[c][p].taskId /\ row[c][p].base # 0}
<1>3. coord \in CoordinationRecord /\ coord.todo # {}
    BY DEF IInv, CoordinationInv, ReadRows
<1>4. c \in coord.todo /\ c \in Campaigns
    <2>1. coord.todo \in SUBSET Nat
        BY <1>3, PlanAssumption DEF CoordinationRecord
    <2> QED BY <1>3, <2>1, MinIsElement DEF CoordinationRecord
<1>5. rows \in SUBSET Proposals /\ \A p \in rows : row[c][p] # Null /\ row[c][p].base # 0
    BY DEF Present
<1>6. coord' = [coord EXCEPT !.todo = @ \ {c}, !.c = c, !.rows = rows]
    BY DEF ReadRows
<1> HIDE DEF c, rows
<1>7. /\ coord' \in CoordinationRecord /\ coord'.at = coord.at /\ coord'.at = "admit" /\ coord'.c = c
      /\ coord'.rows = rows /\ coord'.done = coord.done
    <2>1. coord.at = "admit"
        BY DEF ReadRows, Coordinating
    <2> QED BY <1>3, <1>4, <1>5, <1>6, <2>1 DEF CoordinationRecord
<1>8. CoordinationInv'
    BY <1>1, <1>4, <1>5, <1>7 DEF IInv, CoordinationInv, TheTask
<1> QED BY <1>1, <1>2, <1>8, CoordinationChanges

\* The row a coordination takes next, while it has any.
LEMMA NextRowIsReleased ==
    ASSUME IInv, coord.rows # {}
    PROVE  LET p == First(row[coord.c], coord.rows)
           IN  /\ coord.c \in Campaigns /\ p \in Proposals /\ p \in coord.rows
               /\ row[coord.c][p] \in ProposalRecord /\ row[coord.c][p].base # 0
<1> DEFINE p == First(row[coord.c], coord.rows)
<1>1. coord.c \in Campaigns /\ coord.rows \in SUBSET Proposals
    BY DEF IInv, CoordinationInv, CoordinationRecord
<1>2. row[coord.c] \in [Proposals -> ProposalRecord \cup {Null}]
    BY <1>1 DEF IInv, DurableInv, DurableType
<1>3. coord.rows \in SUBSET Present(row[coord.c])
    BY <1>1 DEF IInv, CoordinationInv, Present
<1>4. p \in coord.rows
    BY <1>2, <1>3, FirstIsElement
<1> HIDE DEF p
<1> QED BY <1>1, <1>2, <1>4 DEF IInv, CoordinationInv, p

\* Admitting a Task for a released row without one keeps the facts sound.
LEMMA AdmittingIsSound ==
    ASSUME DurableInv, NEW c \in Campaigns, NEW p \in Proposals, row[c][p] # Null, row[c][p].base # 0,
           task[c][p] = Null, SetTask(c, p, NewTask(c, p)),
           UNCHANGED <<campaign, row, assessment, replacement, main>>
    PROVE  DurableInv' /\ Advance /\ task'[c][p] # Null
<1> DEFINE t == NewTask(c, p)
           then == [task[c] EXCEPT ![p] = t]
<1>1. RowsSound(row[c], task[c]) /\ p \in Present(row[c]) /\ row[c][p] \in ProposalRecord
    BY DEF DurableInv, DurableType, Present
<1>2. t \in TaskRecord /\ t.state = "admitted" /\ t.base = row[c][p].base
    BY <1>1 DEF NewTask, TaskRecord, TaskStates, ProposalRecord
<1>3. task' = [task EXCEPT ![c][p] = t] /\ task \in [Campaigns -> [Proposals -> TaskRecord \cup {Null}]]
    BY DEF SetTask, DurableInv, DurableType
<1> HIDE DEF t
<1>4. /\ task'[c] = then /\ task'[c][p] = t
      /\ \A d \in Campaigns \ {c} : task'[d] = task[d]
      /\ task' \in [Campaigns -> [Proposals -> TaskRecord \cup {Null}]]
    BY <1>2, <1>3
<1>5. RowsSound(row[c], then)
    BY <1>1, <1>2, AdmissionIsSound
<1>6. RowsKeep(row[c], task[c], row[c], then)
    BY <1>1, <1>2, AdmissionIsSound
<1>7. DurableType'
    BY <1>4 DEF DurableInv, DurableType
<1> HIDE DEF then
<1>8. ASSUME NEW d \in Campaigns
      PROVE  /\ RowsSound(row'[d], task'[d])
             /\ RowsKeep(row[d], task[d], row'[d], task'[d])
             /\ StatusKept(campaign[d], campaign'[d])
             /\ ScopeKept(row[d], row'[d])
    <2>1. StatusKept(campaign[d], campaign'[d])
        BY DEF StatusKept
    <2>2. CASE d = c
        BY <1>4, <1>5, <1>6, <2>1, <2>2, NothingChanged
    <2>3. CASE d # c
        BY <1>4, <2>1, <2>3, NothingChanged DEF DurableInv
    <2> QED BY <2>2, <2>3
<1>9. DurableInv' /\ Advance
    BY <1>7, <1>8, StepIsSound
<1> QED BY <1>2, <1>4, <1>9, NullAssumption

\* Admitting from rows read earlier keeps the invariant.
LEMMA AdmitTaskKeeps ==
    ASSUME IInv, AdmitTask
    PROVE  IInv' /\ Advance
<1> DEFINE c == coord.c
           p == First(row[c], coord.rows)
           exists == task[c][p] # Null
           full == Cardinality(Active) >= Capacity
           created == ~exists /\ ~full /\ ~WriterBusy(RepositoryOf[p])
<1>1. coord.rows # {} /\ coord.at = "admit" /\ UNCHANGED <<campaign, row, assessment, replacement, main>>
    BY DEF AdmitTask, Coordinating
<1>2. c \in Campaigns /\ p \in Proposals /\ p \in coord.rows
      /\ row[c][p] \in ProposalRecord /\ row[c][p].base # 0
    BY <1>1, NextRowIsReleased
<1>3. IF created THEN SetTask(c, p, NewTask(c, p)) ELSE UNCHANGED task
    BY DEF AdmitTask
<1>4. coord' = IF exists \/ created THEN [coord EXCEPT !.at = "record", !.p = p]
               ELSE IF full THEN [coord EXCEPT !.at = "launch"]
               ELSE [coord EXCEPT !.rows = @ \ {p}]
    BY DEF AdmitTask
<1>5. UNCHANGED <<work, exec, abandoning>>
    BY DEF AdmitTask, CoordinationOnly
<1> HIDE DEF p, full
<1>6. DurableInv' /\ Advance /\ (exists \/ created => task'[c][p] # Null)
    <2>1. CASE created
        <3>1. row[c][p] # Null
            BY <1>2, NullAssumption
        <3> QED BY <1>1, <1>2, <1>3, <2>1, <3>1, AdmittingIsSound DEF IInv
    <2>2. CASE ~created
        BY <1>1, <1>3, <2>2, StutteringIsSound DEF IInv
    <2> QED BY <2>1, <2>2
<1>7. coord \in CoordinationRecord
    BY DEF IInv, CoordinationInv
<1>8. CoordinationInv'
    <2>1. \A k \in coord.done : task'[k[1]][k[2]] # Null
        <3> TAKE k \in coord.done
        <3>1. k[1] \in Campaigns /\ k[2] \in Proposals /\ task[k[1]][k[2]] # Null
            BY DEF IInv, CoordinationInv, CoordinationRecord, Tasks, TheTask
        <3> QED BY <1>6, <3>1, WhatStays DEF IInv
    <2>2. coord' \in CoordinationRecord /\ coord'.c = c /\ coord'.rows \subseteq coord.rows /\ coord'.done = coord.done
        BY <1>2, <1>4, <1>7 DEF CoordinationRecord
    <2>3. coord'.at = "record" => coord'.p = p /\ (exists \/ created)
        BY <1>1, <1>4, <1>7 DEF CoordinationRecord
    <2> HIDE DEF exists, created
    <2> QED BY <1>1, <1>2, <1>6, <2>1, <2>2, <2>3 DEF IInv, CoordinationInv, TheTask
<1> QED BY <1>5, <1>6, <1>8, CoordinationChanges

\* Recording an admitted Task in its row keeps the invariant.
LEMMA RecordTaskKeeps ==
    ASSUME IInv, RecordTask
    PROVE  IInv' /\ Advance
<1> DEFINE c == coord.c
           p == coord.p
           made == [row[c] EXCEPT ![p].taskId = TRUE]
<1>1. coord.at = "record" /\ UNCHANGED <<campaign, task, assessment, replacement, main>>
    BY DEF RecordTask, Coordinating
<1>2. c \in Campaigns /\ p \in Proposals /\ task[c][p] # Null /\ coord \in CoordinationRecord
    BY <1>1 DEF IInv, CoordinationInv
<1>3. RowsSound(row[c], task[c]) /\ row \in [Campaigns -> [Proposals -> ProposalRecord \cup {Null}]]
    BY <1>2 DEF IInv, DurableInv, DurableType
<1>4. p \in Present(row[c]) /\ row[c][p].base # 0
    BY <1>2, <1>3 DEF RowsSound, TasksAreOwned, Present
<1>5. row' = [row EXCEPT ![c][p].taskId = TRUE]
    BY DEF RecordTask
<1>6. row'[c] = made /\ \A d \in Campaigns \ {c} : row'[d] = row[d]
    BY <1>2, <1>3, <1>5
<1>7. RowsSound(made, task[c])
    BY <1>2, <1>3, <1>4, RecordIsSound
<1>8. RowsKeep(row[c], task[c], made, task[c])
    BY <1>2, <1>3, <1>4, RecordIsSound
<1>9. ScopeKept(row[c], made)
    BY <1>2, <1>3, <1>4, RecordIsSound
<1> HIDE DEF made
<1>10. DurableType'
    <2>1. made \in [Proposals -> ProposalRecord \cup {Null}]
        BY <1>7 DEF RowsSound, RowsType
    <2>2. row' \in [Campaigns -> [Proposals -> ProposalRecord \cup {Null}]]
        BY <1>3, <1>5, <1>6, <2>1
    <2> QED BY <1>1, <2>2 DEF IInv, DurableInv, DurableType
<1>11. ASSUME NEW d \in Campaigns
       PROVE  /\ RowsSound(row'[d], task'[d])
              /\ RowsKeep(row[d], task[d], row'[d], task'[d])
              /\ StatusKept(campaign[d], campaign'[d])
              /\ ScopeKept(row[d], row'[d])
    <2>1. StatusKept(campaign[d], campaign'[d])
        BY <1>1 DEF StatusKept
    <2>2. CASE d = c
        BY <1>1, <1>6, <1>7, <1>8, <1>9, <2>1, <2>2
    <2>3. CASE d # c
        BY <1>1, <1>6, <2>1, <2>3, NothingChanged DEF IInv, DurableInv
    <2> QED BY <2>2, <2>3
<1>12. DurableInv' /\ Advance
    BY <1>1, <1>10, <1>11, StepIsSound DEF IInv
<1> DEFINE done == IF Launchable(task[c][p]) THEN coord.done \cup {<<c, p>>} ELSE coord.done
<1>13. coord' = [coord EXCEPT !.at = "admit", !.rows = @ \ {p}, !.p = Null, !.done = done]
    BY <1>2 DEF RecordTask, CoordinationRecord
<1>14. done \in SUBSET Tasks /\ \A k \in done : task[k[1]][k[2]] # Null
    BY <1>2 DEF IInv, CoordinationInv, CoordinationRecord, Tasks, TheTask
<1> HIDE DEF done
<1>15. /\ coord' \in CoordinationRecord /\ coord'.at = "admit" /\ coord'.c = c
       /\ coord'.rows = coord.rows \ {p} /\ coord'.done = done
    BY <1>2, <1>13, <1>14 DEF CoordinationRecord
<1>16. \A q \in coord.rows : row'[c][q] # Null /\ row'[c][q].base # 0
    BY <1>2, <1>12, WhatStays DEF IInv, CoordinationInv, CoordinationRecord
<1>17. CoordinationInv'
    BY <1>1, <1>2, <1>14, <1>15, <1>16 DEF CoordinationInv, TheTask
<1>18. UNCHANGED <<work, exec, abandoning>>
    BY DEF RecordTask, CoordinationOnly
<1> QED BY <1>12, <1>17, <1>18, CoordinationChanges

\* Launching what was admitted keeps the invariant: nothing is launched for an abandoned Campaign.
LEMMA FinishCoordinationKeeps ==
    ASSUME IInv, FinishCoordination
    PROVE  IInv' /\ Advance
<1>1. UNCHANGED <<campaign, row, task, assessment, replacement, main, abandoning>> /\ coord' = NoCoordination
    BY DEF FinishCoordination, durable
<1>2. DurableInv' /\ Advance
    BY <1>1, StutteringIsSound DEF IInv
<1>3. work \in WorkRecord
    BY DEF IInv, WorkInv
<1> DEFINE missed == work.at # "none"
<1>4. work' = [work EXCEPT !.missed = missed] /\ missed \in BOOLEAN
    BY DEF FinishCoordination, RequestModelWork
<1> HIDE DEF missed
<1>5. /\ work' \in WorkRecord /\ work'.at = work.at /\ work'.targets = work.targets /\ work'.t = work.t
      /\ work'.aborted = work.aborted /\ work'.owned = work.owned
    BY <1>3, <1>4 DEF WorkRecord
<1>6. WorkInv'
    BY <1>1, <1>5 DEF IInv, WorkInv, Asks
<1>7. CoordinationInv'
    BY <1>1 DEF CoordinationInv, NoCoordination, CoordinationRecord
<1>8. ASSUME NEW c \in Campaigns, NEW p \in Proposals
      PROVE  /\ exec'[c][p] \in ExecutionRecord
             /\ Engaged(exec'[c][p]) => task[c][p] # Null
             /\ exec'[c][p].op = "running" => exec[c][p].op = "running" /\ exec'[c][p].abort = exec[c][p].abort
    <2>1. exec[c][p] \in ExecutionRecord /\ (Engaged(exec[c][p]) => task[c][p] # Null)
        BY DEF IInv, ExecutionsInv
    <2>2. exec'[c][p] = IF <<c, p>> \in coord.done THEN Deduplicated(exec[c][p]) ELSE exec[c][p]
        BY DEF FinishCoordination
    <2>3. <<c, p>> \in coord.done => task[c][p] # Null
        BY DEF IInv, CoordinationInv, TheTask
    <2> QED BY <2>1, <2>2, <2>3 DEF Deduplicated, ExecutionRecord
<1>9. ExecutionsInv'
    BY <1>1, <1>8 DEF ExecutionsInv, FinishCoordination
<1>10. HandlersInv'
    BY <1>1, <1>2, HandlersAreKept DEF IInv
<1>11. QuietInv'
    BY <1>1, <1>2, <1>5, <1>8, QuietIsKept DEF IInv
<1> QED BY <1>2, <1>6, <1>7, <1>9, <1>10, <1>11 DEF IInv

\* The coordination keeps the invariant.
LEMMA CoordinationKeeps ==
    ASSUME IInv, Coordination
    PROVE  IInv' /\ Advance
  BY StartCoordinationKeeps, ReadRowsKeeps, AdmitTaskKeeps, RecordTaskKeeps, FinishCoordinationKeeps
     DEF Coordination

\* The model work: it asks about published Campaigns, and invokes a model after it has found the
\* Campaign live.
LEMMA WorkEndsSoundly ==
    ASSUME IInv, DurableInv', Advance, UNCHANGED <<coord, exec, abandoning>>, work' = NoWork
    PROVE  IInv'
<1>1. WorkInv'
    BY DEF WorkInv, NoWork, WorkRecord
<1>2. work'.at \notin {"invoke", "draft"}
    BY DEF NoWork
<1> QED BY <1>1, <1>2, WorkChanges

\* A step that leaves the durable facts alone advances them.
LEMMA DurableIsUnchanged ==
    ASSUME IInv, UNCHANGED <<campaign, row, task, assessment, replacement, main>>
    PROVE  DurableInv' /\ Advance
  BY StutteringIsSound DEF IInv

\* Starting the model work keeps the invariant.
LEMMA FireModelWorkKeeps ==
    ASSUME IInv, FireModelWork
    PROVE  IInv' /\ Advance
<1>1. UNCHANGED <<campaign, row, task, assessment, replacement, main, coord, exec, abandoning>>
    BY DEF FireModelWork, durable
<1>2. DurableInv' /\ Advance
    BY <1>1, DurableIsUnchanged
<1>3. CASE work.at = "none"
    <2> DEFINE targets == AssessmentTargets
               missed == queued = "again"
    <2>1. \A t \in targets : t \in AssessmentTarget /\ campaign[t.c] # Null
        <3> TAKE t \in targets
        <3>1. PICK k \in Campaigns \X Live :
                  /\ campaign[k[1]] # Null
                  /\ t = [c |-> k[1], o |-> k[2], evidence |-> EvidenceOf(k[1], row[k[1]], k[2])]
            BY DEF AssessmentTargets
        <3>2. k[1] \in Campaigns /\ k[2] \in Live
            OBVIOUS
        <3>3. DurableType /\ RowsType(row[k[1]], task[k[1]])
            BY <3>2 DEF IInv, DurableInv, RowsSound
        <3>4. EvidenceOf(k[1], row[k[1]], k[2]) = EvidenceIn(row[k[1]], task[k[1]], k[2])
            BY <3>2, <3>3, EvidenceIsOfTheTasks DEF DurableType
        <3>5. EvidenceOf(k[1], row[k[1]], k[2]) \in Evidence
            BY <3>3, <3>4, EvidenceIsTyped
        <3> QED BY <3>1, <3>2, <3>5 DEF AssessmentTarget
    <2>2. work' = [NoWork EXCEPT !.at = "assess", !.missed = missed, !.targets = targets]
        BY <1>3 DEF FireModelWork, WorkGoes
    <2>3. missed \in BOOLEAN
        OBVIOUS
    <2> HIDE DEF targets, missed
    <2>4. work' \in WorkRecord /\ work'.at = "assess" /\ work'.targets = targets
        BY <2>1, <2>2, <2>3 DEF NoWork, WorkRecord
    <2>5. WorkInv'
        BY <1>1, <2>1, <2>4 DEF WorkInv
    <2> QED BY <1>1, <1>2, <2>4, <2>5, WorkChanges
<1>4. CASE work.at # "none"
    <2>1. UNCHANGED work
        BY <1>4 DEF FireModelWork
    <2> QED BY <1>1, <1>2, <2>1, DurableChanges
<1> QED BY <1>3, <1>4

\* Reserving an assessor's run keeps the invariant.
LEMMA ReserveAssessmentKeeps ==
    ASSUME IInv, NEW t \in work.targets, ReserveAssessment(t)
    PROVE  IInv' /\ Advance
<1> DEFINE run == Run(t.c, t.o, "assessor", t.evidence)
           targets == work.targets \ {t}
<1>1. UNCHANGED <<campaign, row, task, assessment, replacement, main, coord, exec, abandoning>>
    BY DEF ReserveAssessment, WorkOnly
<1>2. DurableInv' /\ Advance
    BY <1>1, DurableIsUnchanged
<1>3. work \in WorkRecord /\ t \in AssessmentTarget /\ campaign[t.c] # Null /\ t.c \in Campaigns
    BY DEF IInv, WorkInv, WorkRecord, AssessmentTarget
<1>4. \/ work' = NoWork
      \/ work' = [[work EXCEPT !.targets = targets, !.owned = {t.c}] EXCEPT !.at = "reserved", !.t = t]
      \/ work' = [work EXCEPT !.targets = targets, !.owned = {t.c}] /\ work.at = "assess"
    BY <1>3 DEF ReserveAssessment, WorkEnds, WorkGoes, Working, WorkRecord
<1>5. targets \in SUBSET AssessmentTarget /\ \A u \in targets : campaign[u.c] # Null
    BY <1>3 DEF IInv, WorkInv, WorkRecord
<1> HIDE DEF targets
<1>6. CASE work' = NoWork
    BY <1>1, <1>2, <1>6, WorkEndsSoundly
<1>7. CASE work' = [[work EXCEPT !.targets = targets, !.owned = {t.c}] EXCEPT !.at = "reserved", !.t = t]
    <2>1. work' \in WorkRecord /\ work'.at = "reserved" /\ work'.targets = targets
          /\ work'.t = t /\ work'.owned = {t.c}
        BY <1>3, <1>5, <1>7 DEF WorkRecord
    <2>2. WorkInv'
        BY <1>1, <1>3, <1>5, <2>1 DEF WorkInv, Asks
    <2> QED BY <1>1, <1>2, <2>1, <2>2, WorkChanges
<1>8. CASE work' = [work EXCEPT !.targets = targets, !.owned = {t.c}] /\ work.at = "assess"
    <2>1. work' \in WorkRecord /\ work'.at = "assess" /\ work'.targets = targets
        BY <1>3, <1>5, <1>8 DEF WorkRecord
    <2>2. WorkInv'
        BY <1>1, <1>5, <2>1 DEF WorkInv
    <2> QED BY <1>1, <1>2, <2>1, <2>2, WorkChanges
<1> QED BY <1>4, <1>6, <1>7, <1>8

\* Work that goes on with the same targets and owner.
LEMMA WorkGoesOn ==
    ASSUME IInv, UNCHANGED campaign, NEW at \in {"invoke", "replace", "planned", "allow", "draft", "admitted", "final"},
           NEW ran \in BOOLEAN, work' = [work EXCEPT !.at = at, !.ran = ran],
           at = "invoke" => work.at = "reserved", at \in {"planned", "allow", "draft"} => work.at \in {"plan", "planned", "allow"}
    PROVE  WorkInv' /\ work'.at = at /\ work'.t = work.t
<1>1. work \in WorkRecord
    BY DEF IInv, WorkInv
<1>2. /\ work' \in WorkRecord /\ work'.at = at /\ work'.t = work.t
      /\ work'.targets = work.targets /\ work'.owned = work.owned
    BY <1>1 DEF WorkRecord
<1> QED BY <1>2 DEF IInv, WorkInv, Asks

\* A Campaign that is live for model work is not abandoned.
LEMMA LiveIsNotAbandoned ==
    ASSUME NEW c, LiveForModelWork(c), UNCHANGED campaign
    PROVE  campaign'[c].status # "abandoned"
  BY DEF LiveForModelWork

\* Asking the assessor, or not, keeps the invariant.
LEMMA AllowAssessmentKeeps ==
    ASSUME IInv, AllowAssessment
    PROVE  IInv' /\ Advance
<1>1. UNCHANGED <<campaign, row, task, assessment, replacement, main, coord, exec, abandoning>>
    BY DEF AllowAssessment, WorkOnly, durable
<1>2. DurableInv' /\ Advance
    BY <1>1, DurableIsUnchanged
<1>3. CASE LiveForModelWork(work.t.c)
    <2>1. work' = [work EXCEPT !.at = "invoke", !.ran = TRUE] /\ work.at = "reserved"
        BY <1>3 DEF AllowAssessment, WorkGoes, Working
    <2>2. WorkInv' /\ work'.t = work.t
        BY <1>1, <2>1, WorkGoesOn
    <2>3. campaign'[work'.t.c].status # "abandoned"
        BY <1>1, <1>3, <2>2, LiveIsNotAbandoned
    <2> QED BY <1>1, <1>2, <2>2, <2>3, WorkChanges
<1>4. CASE ~LiveForModelWork(work.t.c)
    BY <1>1, <1>2, <1>4, WorkEndsSoundly DEF AllowAssessment, WorkEnds
<1> QED BY <1>3, <1>4

\* The assessor's answer keeps the invariant.
LEMMA AssessorAnswersKeeps ==
    ASSUME IInv, NEW verdict \in Verdicts, NEW failed \in BOOLEAN, AssessorAnswers(verdict, failed)
    PROVE  IInv' /\ Advance
<1>1. work.at = "invoke" /\ UNCHANGED <<coord, exec, abandoning>>
    BY DEF AssessorAnswers, Working, WorkOnly
<1>2. work.t \in AssessmentTarget /\ campaign[work.t.c] # Null /\ work \in WorkRecord
    BY <1>1 DEF IInv, WorkInv, Asks
<1>3. DurableInv' /\ Advance
    BY <1>2, AssessingIsSound DEF AssessorAnswers, IInv
<1>4. CASE work.aborted
    BY <1>1, <1>3, <1>4, WorkEndsSoundly DEF AssessorAnswers, WorkEnds
<1>5. CASE ~work.aborted
    <2>1. work' = [work EXCEPT !.at = "assess", !.t = Null]
        BY <1>5 DEF AssessorAnswers, WorkGoes
    <2>2. work' \in WorkRecord /\ work'.at = "assess" /\ work'.targets = work.targets
        BY <1>2, <2>1 DEF WorkRecord
    <2>3. \A t \in work.targets : campaign'[t.c] # Null
        <3> TAKE t \in work.targets
        <3>1. t.c \in Campaigns /\ campaign[t.c] # Null
            BY <1>2 DEF IInv, WorkInv, WorkRecord, AssessmentTarget
        <3> QED BY <1>3, <3>1, WhatStays DEF IInv
    <2>4. WorkInv'
        BY <2>2, <2>3 DEF WorkInv
    <2> QED BY <1>1, <1>3, <2>2, <2>4, WorkChanges
<1> QED BY <1>4, <1>5

\* FirstTarget is one of the targets, the least in the order of Campaign and Outcome.
LEMMA FirstTargetIsATarget ==
    ASSUME ReplacementTargets # {}
    PROVE  FirstTarget \in ReplacementTargets
<1> DEFINE T == ReplacementTargets
           S == {k[1] : k \in T}
<1>1. T \subseteq Campaigns \X Live /\ Campaigns \subseteq Nat /\ Live \subseteq Nat
    BY PlanAssumption DEF ReplacementTargets
<1>2. \A k \in T : k[1] \in Nat /\ k[2] \in Nat
    BY <1>1
<1> HIDE DEF T
<1>3. PICK c \in S : \A d \in S : c <= d
    <2>1. PICK k \in T : TRUE
        BY DEF T
    <2>2. k[1] \in S
        OBVIOUS
    <2>3. S \in SUBSET Nat
        BY <1>2
    <2> HIDE DEF S
    <2> QED BY <2>2, <2>3, LeastNatural
<1> DEFINE R == {k[2] : k \in {l \in T : l[1] = c}}
<1>4. PICK o \in R : \A q \in R : o <= q
    <2>1. PICK k \in T : k[1] = c
        OBVIOUS
    <2>2. k[2] \in R
        BY <2>1
    <2>3. R \in SUBSET Nat
        BY <1>2
    <2> HIDE DEF R
    <2> QED BY <2>2, <2>3, LeastNatural
<1>5. PICK k \in T : k[1] = c /\ k[2] = o
    OBVIOUS
<1>6. ASSUME NEW l \in T
      PROVE  k[1] < l[1] \/ (k[1] = l[1] /\ k[2] <= l[2])
    <2>1. l[1] \in S /\ c <= l[1]
        BY <1>3
    <2>2. CASE l[1] = c
        <3>1. l[2] \in R
            BY <2>2
        <3> QED BY <1>4, <1>5, <2>2, <3>1
    <2>3. CASE l[1] # c
        BY <1>2, <1>5, <2>1, <2>3
    <2> QED BY <2>2, <2>3
<1> QED BY <1>6 DEF FirstTarget, T

\* Choosing what to plan next keeps the invariant.
LEMMA PlanNextKeeps ==
    ASSUME IInv, PlanNext
    PROVE  IInv' /\ Advance
<1>1. UNCHANGED <<campaign, row, task, assessment, replacement, main, coord, exec, abandoning>>
    BY DEF PlanNext, WorkOnly, durable
<1>2. DurableInv' /\ Advance
    BY <1>1, DurableIsUnchanged
<1>3. work \in WorkRecord /\ (work.at = "replace" \/ work.at = "assess")
    BY DEF IInv, WorkInv, PlanNext, Working
<1>4. CASE work.aborted
    BY <1>1, <1>2, <1>4, WorkEndsSoundly DEF PlanNext, WorkEnds
<1>5. CASE ~work.aborted /\ ReplacementTargets = {}
    <2> DEFINE ran == work.ran
    <2>1. work' = [work EXCEPT !.at = "final"] /\ ran \in BOOLEAN
        BY <1>3, <1>5 DEF PlanNext, WorkGoes, WorkRecord
    <2>2. work' = [work EXCEPT !.at = "final", !.ran = ran]
        BY <1>3, <2>1 DEF WorkRecord
    <2> HIDE DEF ran
    <2>3. WorkInv' /\ work'.at = "final"
        BY <1>1, <2>1, <2>2, WorkGoesOn
    <2> QED BY <1>1, <1>2, <2>3, WorkChanges
<1>6. CASE ~work.aborted /\ ReplacementTargets # {}
    <2> DEFINE c == FirstTarget[1]
               o == FirstTarget[2]
               t == ReplacementTarget(c, o)
    <2>1. FirstTarget \in ReplacementTargets
        BY <1>6, FirstTargetIsATarget
    <2>2. c \in Campaigns /\ o \in Live /\ o \in Outcomes /\ NeedsReplacement(c, o)
        BY <2>1, PlanAssumption DEF ReplacementTargets
    <2> HIDE DEF c, o
    <2>3. campaign[c] # Null /\ campaign[c] \in CampaignRecord /\ assessment[c][o] \in AssessmentRecord
        BY <2>2 DEF NeedsReplacement, CurrentAssessment, IInv, DurableInv, DurableType
    <2>4. t \in PlanTarget /\ t.c = c
        BY <2>2, <2>3 DEF ReplacementTarget, PlanTarget, CampaignRecord, AssessmentRecord
    <2>5. work' = [work EXCEPT !.at = "plan", !.t = t, !.owned = {t.c}]
        BY <1>6 DEF PlanNext, WorkGoes, c, o
    <2> HIDE DEF t
    <2>6. /\ work' \in WorkRecord /\ work'.at = "plan" /\ work'.t = t
          /\ work'.targets = work.targets /\ work'.owned = {t.c}
        BY <1>3, <2>2, <2>4, <2>5 DEF WorkRecord
    <2>7. WorkInv'
        BY <1>1, <2>3, <2>4, <2>6 DEF IInv, WorkInv, Asks
    <2> QED BY <1>1, <1>2, <2>6, <2>7, WorkChanges
<1> QED BY <1>4, <1>5, <1>6

\* A step of the work that goes elsewhere than to invoke a model.
LEMMA WorkMoves ==
    ASSUME IInv, DurableInv', Advance, UNCHANGED <<coord, exec, abandoning>>,
           NEW at \in {"replace", "planned", "allow", "admitted", "final"}, NEW ran \in BOOLEAN,
           work' = [work EXCEPT !.at = at, !.ran = ran],
           at \in {"planned", "allow"} => work.at \in {"plan", "planned", "allow"}
    PROVE  IInv'
<1>1. work \in WorkRecord
    BY DEF IInv, WorkInv
<1>2. /\ work' \in WorkRecord /\ work'.at = at /\ work'.t = work.t
      /\ work'.targets = work.targets /\ work'.owned = work.owned
    BY <1>1 DEF WorkRecord
<1>3. \A t \in work.targets : campaign'[t.c] # Null
    <2> TAKE t \in work.targets
    <2>1. t.c \in Campaigns /\ campaign[t.c] # Null
        BY <1>1 DEF IInv, WorkInv, WorkRecord, AssessmentTarget
    <2> QED BY <2>1, WhatStays DEF IInv
<1>4. at \in {"planned", "allow"} => work.t \in PlanTarget /\ campaign'[work.t.c] # Null /\ work.owned = {work.t.c}
    <2> SUFFICES ASSUME at \in {"planned", "allow"}
                 PROVE  work.t \in PlanTarget /\ campaign'[work.t.c] # Null /\ work.owned = {work.t.c}
        OBVIOUS
    <2>1. work.t \in PlanTarget /\ campaign[work.t.c] # Null /\ work.owned = {work.t.c}
        BY DEF IInv, WorkInv, Asks
    <2>2. work.t.c \in Campaigns
        BY <2>1 DEF PlanTarget
    <2> QED BY <2>1, <2>2, WhatStays DEF IInv
<1>5. WorkInv'
    BY <1>2, <1>3, <1>4 DEF WorkInv, Asks
<1> QED BY <1>2, <1>5, WorkChanges

\* Reserving a replacement keeps the invariant.
LEMMA ReserveReplacementRunKeeps ==
    ASSUME IInv, ReserveReplacementRun
    PROVE  IInv' /\ Advance
<1>1. work.at = "plan" /\ UNCHANGED <<coord, exec, abandoning>>
    BY DEF ReserveReplacementRun, WorkOnly, Working
<1>2. work.t \in PlanTarget /\ work \in WorkRecord
    BY <1>1 DEF IInv, WorkInv, Asks
<1>3. CASE work.aborted
    <2>1. work' = NoWork /\ DurableInv' /\ Advance
        BY <1>3, DurableIsUnchanged DEF ReserveReplacementRun, WorkEnds, durable
    <2> QED BY <1>1, <2>1, WorkEndsSoundly
<1>4. CASE ~work.aborted /\ LiveForModelWork(work.t.c)
    <2>1. work' = [work EXCEPT !.at = "planned", !.ran = TRUE] /\ ReserveReplacement(work.t)
        BY <1>4 DEF ReserveReplacementRun, WorkGoes
    <2>2. DurableInv' /\ Advance
        BY <1>2, <2>1, ReservingIsSound DEF IInv
    <2> QED BY <1>1, <2>1, <2>2, WorkMoves
<1>5. CASE ~work.aborted /\ ~LiveForModelWork(work.t.c)
    <2> DEFINE ran == work.ran
    <2>1. work' = [work EXCEPT !.at = "replace"] /\ ran \in BOOLEAN
        BY <1>2, <1>5 DEF ReserveReplacementRun, WorkGoes, WorkRecord
    <2>2. work' = [work EXCEPT !.at = "replace", !.ran = ran]
        BY <1>2, <2>1 DEF WorkRecord
    <2>3. DurableInv' /\ Advance
        BY <1>5, DurableIsUnchanged DEF ReserveReplacementRun, durable
    <2> HIDE DEF ran
    <2> QED BY <1>1, <2>1, <2>2, <2>3, WorkMoves
<1> QED BY <1>3, <1>4, <1>5

\* Reserving the planner's run keeps the invariant.
LEMMA ReserveReplacementModelRunKeeps ==
    ASSUME IInv, ReserveReplacementModelRun
    PROVE  IInv' /\ Advance
<1>1. work.at = "planned"
      /\ UNCHANGED <<campaign, row, task, assessment, replacement, main, coord, exec, abandoning>>
    BY DEF ReserveReplacementModelRun, WorkOnly, Working
<1>2. DurableInv' /\ Advance
    BY <1>1, DurableIsUnchanged
<1> DEFINE ran == work.ran
<1>3. ran \in BOOLEAN /\ work \in WorkRecord
    BY DEF IInv, WorkInv, WorkRecord
<1>4. \/ work' = NoWork
      \/ work' = [work EXCEPT !.at = "allow", !.ran = ran]
      \/ work' = [work EXCEPT !.at = "replace", !.ran = ran]
    <2>1. \/ work' = NoWork
          \/ work' = [work EXCEPT !.at = "allow"]
          \/ work' = [work EXCEPT !.at = "replace"]
        BY DEF ReserveReplacementModelRun, WorkEnds, WorkGoes
    <2> QED BY <1>3, <2>1 DEF WorkRecord
<1> HIDE DEF ran
<1> QED BY <1>1, <1>2, <1>3, <1>4, WorkMoves, WorkEndsSoundly

\* Asking the planner, or not, keeps the invariant.
LEMMA AllowDraftKeeps ==
    ASSUME IInv, AllowDraft
    PROVE  IInv' /\ Advance
<1>1. work.at = "allow"
      /\ UNCHANGED <<campaign, row, task, assessment, replacement, main, coord, exec, abandoning>>
    BY DEF AllowDraft, WorkOnly, Working, durable
<1>2. DurableInv' /\ Advance
    BY <1>1, DurableIsUnchanged
<1> DEFINE ran == work.ran
<1>3. ran \in BOOLEAN /\ work \in WorkRecord
    BY DEF IInv, WorkInv, WorkRecord
<1>4. work' = [work EXCEPT !.at = IF LiveForModelWork(work.t.c) THEN "draft" ELSE "final"]
    BY DEF AllowDraft, WorkGoes
<1>5. CASE LiveForModelWork(work.t.c)
    <2>1. work' = [work EXCEPT !.at = "draft", !.ran = ran]
        BY <1>3, <1>4, <1>5 DEF WorkRecord
    <2> HIDE DEF ran
    <2>2. WorkInv' /\ work'.t = work.t
        BY <1>1, <1>3, <2>1, WorkGoesOn
    <2>3. campaign'[work'.t.c].status # "abandoned"
        BY <1>1, <1>5, <2>2, LiveIsNotAbandoned
    <2> QED BY <1>1, <1>2, <2>2, <2>3, WorkChanges
<1>6. CASE ~LiveForModelWork(work.t.c)
    <2>1. work' = [work EXCEPT !.at = "final", !.ran = ran]
        BY <1>3, <1>4, <1>6 DEF WorkRecord
    <2> HIDE DEF ran
    <2> QED BY <1>1, <1>2, <1>3, <2>1, WorkMoves
<1> QED BY <1>5, <1>6

\* The planner's answer keeps the invariant.
LEMMA PlannerAnswersKeeps ==
    ASSUME IInv, NEW draft \in DraftAnswers, NEW failed \in BOOLEAN, PlannerAnswers(draft, failed)
    PROVE  IInv' /\ Advance
<1>1. work.at = "draft" /\ UNCHANGED <<coord, exec, abandoning>>
    BY DEF PlannerAnswers, Working, WorkOnly
<1>2. work.t \in PlanTarget /\ campaign[work.t.c] # Null /\ work \in WorkRecord /\ work.aborted \in BOOLEAN
    BY <1>1 DEF IInv, WorkInv, Asks, WorkRecord
<1>3. PersistReplacement(work.t, draft, failed, work.aborted)
    BY DEF PlannerAnswers
<1>4. DurableInv' /\ Advance
    BY <1>2, <1>3, PlanningIsSound DEF IInv
<1> DEFINE ran == work.ran
<1>5. ran \in BOOLEAN
    BY <1>2 DEF WorkRecord
<1>6. \/ work' = NoWork
      \/ work' = [work EXCEPT !.at = "admitted", !.ran = ran]
      \/ work' = [work EXCEPT !.at = "final", !.ran = ran]
    <2>1. \/ work' = NoWork
          \/ work' = [work EXCEPT !.at = "admitted"]
          \/ work' = [work EXCEPT !.at = "final"]
        BY DEF PlannerAnswers, WorkEnds, WorkGoes
    <2> QED BY <1>2, <2>1 DEF WorkRecord
<1> HIDE DEF ran
<1> QED BY <1>1, <1>4, <1>5, <1>6, WorkMoves, WorkEndsSoundly

\* Reconciling after a replacement keeps the invariant.
LEMMA ReconcileReplacementKeeps ==
    ASSUME IInv, NEW observed \in Observations, ReconcileReplacement(observed)
    PROVE  IInv' /\ Advance
<1>1. UNCHANGED <<coord, exec, abandoning>>
    BY DEF ReconcileReplacement, WorkOnly
<1>2. DurableInv' /\ Advance
    BY ReconciliationIsSound DEF IInv, ReconcileReplacement
<1>3. work \in WorkRecord
    BY DEF IInv, WorkInv
<1>4. work' = [work EXCEPT !.at = "replace", !.t = Null]
    BY DEF ReconcileReplacement, WorkGoes
<1>5. work' \in WorkRecord /\ work'.at = "replace" /\ work'.targets = work.targets
    BY <1>3, <1>4 DEF WorkRecord
<1>6. \A t \in work.targets : campaign'[t.c] # Null
    <2> TAKE t \in work.targets
    <2>1. t.c \in Campaigns /\ campaign[t.c] # Null
        BY <1>3 DEF IInv, WorkInv, WorkRecord, AssessmentTarget
    <2> QED BY <1>2, <2>1, WhatStays DEF IInv
<1>7. WorkInv'
    BY <1>5, <1>6 DEF WorkInv
<1> QED BY <1>1, <1>2, <1>5, <1>7, WorkChanges

\* The end of the model work keeps the invariant.
LEMMA FinishModelWorkKeeps ==
    ASSUME IInv, NEW observed \in Observations, FinishModelWork(observed)
    PROVE  IInv' /\ Advance
<1>1. UNCHANGED <<coord, exec, abandoning>> /\ work' = NoWork
    BY DEF FinishModelWork, WorkOnly, WorkEnds
<1>2. DurableInv' /\ Advance
    BY ReconciliationIsSound, DurableIsUnchanged DEF IInv, FinishModelWork, durable
<1> QED BY <1>1, <1>2, WorkEndsSoundly

\* The model work keeps the invariant.
LEMMA ModelWorkKeeps ==
    ASSUME IInv, ModelWork
    PROVE  IInv' /\ Advance
  BY FireModelWorkKeeps, AllowAssessmentKeeps, PlanNextKeeps, ReserveReplacementRunKeeps,
     ReserveReplacementModelRunKeeps, AllowDraftKeeps, ReserveAssessmentKeeps, AssessorAnswersKeeps,
     PlannerAnswersKeeps, ReconcileReplacementKeeps, FinishModelWorkKeeps
     DEF ModelWork

\* The executions: one starts for a Task of a Campaign that is not abandoned.
LEMMA OneExecutionChanges ==
    ASSUME IInv, DurableInv', Advance, UNCHANGED <<coord, work, abandoning>>, NEW k \in Tasks,
           NEW e \in ExecutionRecord, SetExecution(k, e), Engaged(e) => TheTask(k) # Null,
           e.op = "running" =>
              \/ Execution(k).op = "running" /\ (Execution(k).abort => e.abort)
              \/ campaign'[k[1]].status # "abandoned"
    PROVE  IInv'
<1>1. k[1] \in Campaigns /\ k[2] \in Proposals
    BY DEF Tasks
<1>2. exec \in [Campaigns -> [Proposals -> ExecutionRecord]] /\ exec' = [exec EXCEPT ![k[1]][k[2]] = e]
    BY DEF IInv, ExecutionsInv, SetExecution
<1>3. /\ exec' \in [Campaigns -> [Proposals -> ExecutionRecord]]
      /\ exec'[k[1]][k[2]] = e
      /\ \A c \in Campaigns, p \in Proposals : c # k[1] \/ p # k[2] => exec'[c][p] = exec[c][p]
    BY <1>1, <1>2
<1>4. ASSUME NEW c \in Campaigns, NEW p \in Proposals
      PROVE  /\ Engaged(exec'[c][p]) => task'[c][p] # Null
             /\ exec'[c][p].op = "running" =>
                  \/ exec[c][p].op = "running" /\ (exec[c][p].abort => exec'[c][p].abort)
                  \/ campaign'[c].status # "abandoned"
    <2>1. task[c][p] # Null => task'[c][p] # Null
        BY WhatStays DEF IInv
    <2>2. CASE c = k[1] /\ p = k[2]
        BY <1>3, <2>1, <2>2 DEF TheTask, Execution
    <2>3. CASE c # k[1] \/ p # k[2]
        BY <1>3, <2>1, <2>3 DEF IInv, ExecutionsInv
    <2> QED BY <2>2, <2>3
<1>5. ExecutionsInv'
    BY <1>3, <1>4 DEF ExecutionsInv
<1> QED BY <1>4, <1>5, ExecutionsChange

\* A Task's execution keeps the invariant.
LEMMA ExecutionStepKeeps ==
    ASSUME IInv, NEW k \in Tasks, ExecutionStep(k)
    PROVE  IInv' /\ Advance
<1> DEFINE e == Execution(k)
<1>1. e \in ExecutionRecord /\ (Engaged(e) => TheTask(k) # Null)
    BY DEF IInv, ExecutionsInv, Tasks, Execution, TheTask
<1>2. /\ UNCHANGED <<campaign, row, task, assessment, replacement, main, coord, work, abandoning>>
      /\ Engaged(e)
    BY DEF ExecutionStep, StartExecution, EndExecution, ReadBeforeArming, SchedulePipelineRecovery,
           TimerFires, TaskOnly, Running, Engaged
<1>3. DurableInv' /\ Advance
    BY <1>2, DurableIsUnchanged
<1>4. Ended(k) \in ExecutionRecord /\ Ended(k).op = "none"
    BY <1>1 DEF Ended, ExecutionRecord
<1>5. CASE StartExecution(k)
    <2> DEFINE f == IF campaign[k[1]].status = "abandoned" THEN Ended(k) ELSE [e EXCEPT !.op = "running"]
    <2>1. SetExecution(k, f)
        BY <1>5 DEF StartExecution
    <2>2. f \in ExecutionRecord /\ (f.op = "running" => campaign'[k[1]].status # "abandoned")
        BY <1>1, <1>2, <1>4 DEF ExecutionRecord
    <2> HIDE DEF f
    <2> QED BY <1>1, <1>2, <1>3, <2>1, <2>2, OneExecutionChanges
<1>6. CASE EndExecution(k)
    BY <1>1, <1>2, <1>3, <1>4, <1>6, OneExecutionChanges DEF EndExecution
<1>7. CASE ReadBeforeArming(k)
    <2> DEFINE f == [e EXCEPT !.settling = IF campaign[k[1]].status = "abandoned" THEN "no" ELSE "arming"]
    <2>1. SetExecution(k, f)
        BY <1>7 DEF ReadBeforeArming
    <2>2. f \in ExecutionRecord /\ f.op = e.op /\ f.abort = e.abort
        BY <1>1 DEF ExecutionRecord
    <2> HIDE DEF f
    <2> QED BY <1>1, <1>2, <1>3, <2>1, <2>2, OneExecutionChanges
<1>8. CASE SchedulePipelineRecovery(k)
    <2> DEFINE f == [e EXCEPT !.settling = "no", !.timer = TRUE]
    <2>1. SetExecution(k, f)
        BY <1>8 DEF SchedulePipelineRecovery
    <2>2. f \in ExecutionRecord /\ f.op = e.op /\ f.abort = e.abort
        BY <1>1 DEF ExecutionRecord
    <2> HIDE DEF f
    <2> QED BY <1>1, <1>2, <1>3, <2>1, <2>2, OneExecutionChanges
<1>9. CASE TimerFires(k)
    <2> DEFINE f == Deduplicated([e EXCEPT !.timer = FALSE])
    <2>1. SetExecution(k, f)
        BY <1>9 DEF TimerFires
    <2>2. f \in ExecutionRecord /\ (f.op = "running" => e.op = "running" /\ f.abort = e.abort)
        BY <1>1 DEF ExecutionRecord, Deduplicated
    <2> HIDE DEF f
    <2> QED BY <1>1, <1>2, <1>3, <2>1, <2>2, OneExecutionChanges
<1> QED BY <1>5, <1>6, <1>7, <1>8, <1>9 DEF ExecutionStep

\* A running execution moves its Task.
LEMMA TaskBecomesKeeps ==
    ASSUME IInv, NEW k \in Tasks, NEW t \in TaskRecord, TheTask(k) # Null, ~TerminalTask(TheTask(k)),
           t.base = TheTask(k).base, k[2] \in Merging /\ t.state = "delivered" => t.merged # 0,
           TaskBecomes(k, t), main' \in [Repositories -> Nat]
    PROVE  IInv' /\ Advance
<1>1. k[1] \in Campaigns /\ k[2] \in Proposals
    BY DEF Tasks
<1>2. /\ SetTask(k[1], k[2], t)
      /\ UNCHANGED <<campaign, row, assessment, replacement, coord, work, exec, abandoning>>
    BY DEF TaskBecomes, TaskOnly
<1>3. DurableInv' /\ Advance
    BY <1>1, <1>2, OneTaskIsSound DEF IInv, TheTask
<1> QED BY <1>2, <1>3, DurableChanges

\* Whatever becomes of a Task keeps the invariant.
LEMMA TaskStepKeeps ==
    ASSUME IInv, NEW k \in Tasks, TaskStep(k)
    PROVE  IInv' /\ Advance
<1> DEFINE t == TheTask(k)
           r == RepositoryOf[k[2]]
<1>1. k[1] \in Campaigns /\ k[2] \in Proposals
    BY DEF Tasks
<1>2. Running(k)
    BY DEF TaskStep, FreezeCandidate, AwaitPipeline, DeliverTask, HoldTask
<1>3. t # Null
    BY <1>1, <1>2 DEF IInv, ExecutionsInv, Running, Engaged, Execution, TheTask
<1>4. t \in TaskRecord
    BY <1>1, <1>3 DEF IInv, DurableInv, DurableType, TheTask
<1>5. r \in Repositories /\ main \in [Repositories -> Nat] /\ main[r] \in Nat
    BY <1>1, PlanAssumption DEF IInv, DurableInv, DurableType
<1> HIDE DEF r
<1>6. CASE FreezeCandidate(k)
    <2> DEFINE u == [t EXCEPT !.state = "candidate", !.candidate = TRUE]
    <2>1. u \in TaskRecord /\ u.base = t.base /\ u.state = "candidate" /\ ~TerminalTask(t)
        BY <1>4, <1>6 DEF FreezeCandidate, TaskRecord, TaskStates, TerminalTask
    <2>2. TaskBecomes(k, u) /\ main' \in [Repositories -> Nat]
        BY <1>5, <1>6 DEF FreezeCandidate
    <2> HIDE DEF u
    <2> QED BY <1>3, <2>1, <2>2, TaskBecomesKeeps
<1>7. CASE AwaitPipeline(k)
    <2> DEFINE u == [t EXCEPT !.state = "pipeline"]
    <2>1. u \in TaskRecord /\ u.base = t.base /\ u.state = "pipeline" /\ ~TerminalTask(t)
        BY <1>4, <1>7 DEF AwaitPipeline, TaskRecord, TaskStates, TerminalTask
    <2>2. TaskBecomes(k, u) /\ main' \in [Repositories -> Nat]
        BY <1>5, <1>7 DEF AwaitPipeline
    <2> HIDE DEF u
    <2> QED BY <1>3, <2>1, <2>2, TaskBecomesKeeps
<1>8. CASE DeliverTask(k)
    <2> DEFINE merged == IF k[2] \in Merging THEN main[r] + 1 ELSE 0
               u == [t EXCEPT !.state = "delivered", !.merged = merged]
    <2>1. merged \in Nat /\ (k[2] \in Merging => merged # 0)
        BY <1>5
    <2>2. TaskBecomes(k, u)
        BY <1>8 DEF DeliverTask, r
    <2>3. main' \in [Repositories -> Nat]
        BY <1>5, <1>8 DEF DeliverTask, r
    <2> HIDE DEF merged
    <2>4. u \in TaskRecord /\ u.base = t.base /\ u.state = "delivered" /\ u.merged = merged /\ ~TerminalTask(t)
        BY <1>4, <1>8, <2>1 DEF DeliverTask, TaskRecord, TaskStates, TerminalTask
    <2> HIDE DEF u
    <2> QED BY <1>3, <2>1, <2>2, <2>3, <2>4, TaskBecomesKeeps
<1>9. CASE HoldTask(k)
    <2>1. PICK state \in {"waiting", "blocked"} : TaskBecomes(k, [t EXCEPT !.state = state])
        BY <1>9 DEF HoldTask
    <2> DEFINE u == [t EXCEPT !.state = state]
    <2>2. u \in TaskRecord /\ u.base = t.base /\ u.state = state /\ state # "delivered" /\ ~TerminalTask(t)
        BY <1>4, <1>9 DEF HoldTask, TaskRecord, TaskStates
    <2>3. TaskBecomes(k, u) /\ main' \in [Repositories -> Nat]
        BY <1>5, <1>9, <2>1 DEF HoldTask
    <2> HIDE DEF u
    <2> QED BY <1>3, <2>2, <2>3, TaskBecomesKeeps
<1> QED BY <1>6, <1>7, <1>8, <1>9 DEF TaskStep

\* An operator's retry keeps the invariant.
LEMMA RetryKeeps ==
    ASSUME IInv, NEW k \in Tasks, CheckRetry(k) \/ CommitRetry(k)
    PROVE  IInv' /\ Advance
<1>1. UNCHANGED <<campaign, row, assessment, replacement, main, coord, work, abandoning>>
    BY DEF CheckRetry, CommitRetry, RetryOnly
<1>2. CASE UNCHANGED <<task, exec>>
    BY <1>1, <1>2, DurableIsUnchanged, DurableChanges
<1>3. CASE CommitRetry(k) /\ Retryable(k)
    <2> DEFINE t == TheTask(k)
               u == [t EXCEPT !.state = IF @ = "pipeline" THEN @
                                        ELSE IF t.candidate THEN "candidate" ELSE "admitted"]
               e == [Execution(k) EXCEPT !.op = "launched", !.abort = FALSE, !.timer = FALSE]
    <2>1. k[1] \in Campaigns /\ k[2] \in Proposals
        BY DEF Tasks
    <2>2. t # Null /\ t \in TaskRecord /\ t.state \in {"waiting", "pipeline"}
        BY <1>3, <2>1 DEF Retryable, IInv, DurableInv, DurableType, TheTask
    <2>3. SetTask(k[1], k[2], u) /\ SetExecution(k, e)
        BY <1>3 DEF CommitRetry
    <2>4. u \in TaskRecord /\ u.base = t.base /\ u.state # "delivered" /\ ~TerminalTask(t)
        BY <2>2 DEF TaskRecord, TaskStates, TerminalTask
    <2>5. Execution(k) \in ExecutionRecord
        BY <2>1 DEF IInv, ExecutionsInv, Execution
    <2>6. e \in ExecutionRecord /\ e.op = "launched"
        BY <2>5 DEF ExecutionRecord
    <2>7. main' \in [Repositories -> Nat]
        BY <1>1 DEF IInv, DurableInv, DurableType
    <2> HIDE DEF u, e
    <2>8. DurableInv' /\ Advance
        BY <1>1, <2>1, <2>2, <2>3, <2>4, <2>7, OneTaskIsSound DEF IInv, TheTask
    <2> QED BY <1>1, <2>2, <2>3, <2>6, <2>8, OneExecutionChanges
<1> QED BY <1>2, <1>3 DEF CheckRetry, CommitRetry

\* The handlers of abandonments.
LEMMA MarkAbandonedKeeps ==
    ASSUME IInv, NEW c \in Campaigns, MarkAbandoned(c)
    PROVE  IInv' /\ Advance
<1>1. /\ abandoning[c].at = "none" /\ AbandonCampaign(c) /\ UNCHANGED <<coord, work, exec>>
      /\ abandoning' = [abandoning EXCEPT ![c] = [NotAbandoning EXCEPT !.at = "marked"]]
    BY DEF MarkAbandoned, Handler, HandlerGoes, AbandonOnly
<1>2. /\ DurableInv' /\ Advance
      /\ campaign[c] # Null /\ campaign'[c] # Null /\ campaign'[c].status \in Final
    BY <1>1, AbandoningIsSound DEF IInv
<1>3. CoordinationInv' /\ WorkInv' /\ ExecutionsInv'
    BY <1>1, <1>2, CoordinationIsKept, WorkIsKept, ExecutionsAreKept DEF IInv
<1> DEFINE h == [NotAbandoning EXCEPT !.at = "marked"]
<1>4. h \in HandlerRecord /\ h.at = "marked" /\ h.todo = {} /\ h.seen = Null
    BY DEF NotAbandoning, HandlerRecord
<1> HIDE DEF h
<1>5. abandoning \in [Campaigns -> HandlerRecord] /\ abandoning' = [abandoning EXCEPT ![c] = h]
    BY <1>1 DEF IInv, HandlersInv, h
<1>6. UNCHANGED task
    BY <1>1 DEF AbandonCampaign
<1>7. HandlersInv'
    <2> SUFFICES ASSUME NEW d \in Campaigns
                 PROVE  /\ abandoning'[d].at # "none" => campaign'[d] # Null /\ campaign'[d].status \in Final
                        /\ \A p \in abandoning'[d].todo : task'[d][p] # Null
                        /\ abandoning'[d].seen # Null =>
                              task'[d][abandoning'[d].seen[1]] # Null /\ ~TerminalTask(abandoning'[d].seen[2])
        BY <1>4, <1>5 DEF HandlersInv
    <2>1. CASE d = c
        BY <1>2, <1>4, <1>5, <2>1
    <2>2. CASE d # c
        <3>1. abandoning'[d] = abandoning[d]
            BY <1>5, <2>2
        <3>2. abandoning[d].at # "none" => campaign'[d] # Null /\ campaign'[d].status \in Final
            BY <1>2, WhatStays DEF IInv, HandlersInv
        <3> QED BY <1>6, <3>1, <3>2 DEF IInv, HandlersInv
    <2> QED BY <2>1, <2>2
<1>8. QuietInv'
    <2> SUFFICES ASSUME NEW d \in Campaigns, campaign'[d].status = "abandoned", d # c,
                        abandoning[d].at # "none"
                 PROVE  /\ abandoning[d].at = "waiting" =>
                              /\ \A p \in Proposals : exec[d][p].op = "running" => exec[d][p].abort
                              /\ Invoking(d) => work.aborted
                        /\ abandoning[d].at \in {"blocking", "done", "failed"} =>
                              (\A p \in Proposals : exec[d][p].op # "running") /\ ~Invoking(d)
        BY <1>1, <1>4, <1>5 DEF QuietInv, Invoking
    <2>1. campaign[d].status = "abandoned"
        BY <1>2, WhatStays DEF IInv, HandlersInv
    <2> QED BY <2>1 DEF IInv, QuietInv
<1> QED BY <1>2, <1>3, <1>7, <1>8 DEF IInv

\* A handler that goes on, with its executions and the model work as it leaves them.
LEMMA HandlerChanges ==
    ASSUME IInv, DurableInv', Advance, UNCHANGED coord, WorkInv', ExecutionsInv', NEW c \in Campaigns,
           abandoning[c].at # "none", NEW h \in HandlerRecord, HandlerGoes(c, h), h.at # "none",
           \A p \in h.todo : task[c][p] # Null,
           h.seen # Null => task[c][h.seen[1]] # Null /\ ~TerminalTask(h.seen[2]),
           \A d \in Campaigns, p \in Proposals : exec'[d][p].op = "running" =>
              exec[d][p].op = "running" /\ (exec[d][p].abort => exec'[d][p].abort),
           work'.at = work.at /\ work'.t = work.t /\ (work.aborted => work'.aborted),
           campaign[c].status = "abandoned" /\ h.at = "waiting" =>
              /\ \A p \in Proposals : exec'[c][p].op = "running" => exec'[c][p].abort
              /\ Invoking(c) => work'.aborted,
           campaign[c].status = "abandoned" /\ h.at \in {"blocking", "done", "failed"} =>
              (\A p \in Proposals : exec[c][p].op # "running") /\ ~Invoking(c)
    PROVE  IInv'
<1>1. abandoning \in [Campaigns -> HandlerRecord] /\ abandoning' = [abandoning EXCEPT ![c] = h]
    BY DEF IInv, HandlersInv, HandlerGoes
<1>2. abandoning' \in [Campaigns -> HandlerRecord] /\ abandoning'[c] = h
      /\ \A d \in Campaigns \ {c} : abandoning'[d] = abandoning[d]
    BY <1>1
<1>3. ASSUME NEW d \in Campaigns, abandoning[d].at # "none"
      PROVE  /\ campaign'[d] # Null /\ campaign'[d].status \in Final
             /\ campaign'[d].status = campaign[d].status
    BY <1>3, WhatStays DEF IInv, HandlersInv
<1>4. HandlersInv'
    <2> SUFFICES ASSUME NEW d \in Campaigns
                 PROVE  /\ abandoning'[d].at # "none" => campaign'[d] # Null /\ campaign'[d].status \in Final
                        /\ \A p \in abandoning'[d].todo : task'[d][p] # Null
                        /\ abandoning'[d].seen # Null =>
                              task'[d][abandoning'[d].seen[1]] # Null /\ ~TerminalTask(abandoning'[d].seen[2])
        BY <1>2 DEF HandlersInv
    <2>1. abandoning'[d] \in HandlerRecord
        BY <1>2
    <2>2. abandoning'[d].todo \in SUBSET Proposals
          /\ (abandoning'[d].seen # Null => abandoning'[d].seen[1] \in Proposals)
        BY <2>1 DEF HandlerRecord
    <2>3. \A p \in Proposals : task[d][p] # Null => task'[d][p] # Null
        BY WhatStays DEF IInv
    <2>4. CASE d = c
        BY <1>2, <1>3, <2>2, <2>3, <2>4
    <2>5. CASE d # c
        BY <1>2, <1>3, <2>2, <2>3, <2>5 DEF IInv, HandlersInv
    <2> QED BY <2>4, <2>5
<1>5. QuietInv'
    <2> SUFFICES ASSUME NEW d \in Campaigns, campaign'[d].status = "abandoned"
                 PROVE  /\ abandoning'[d].at = "waiting" =>
                              /\ \A p \in Proposals : exec'[d][p].op = "running" => exec'[d][p].abort
                              /\ Invoking(d)' => work'.aborted
                        /\ abandoning'[d].at \in {"blocking", "done", "failed"} =>
                              (\A p \in Proposals : exec'[d][p].op # "running") /\ ~Invoking(d)'
        BY DEF QuietInv
    <2>1. Invoking(d)' <=> Invoking(d)
        BY DEF Invoking
    <2>2. CASE d = c
        <3>1. campaign[c].status = "abandoned"
            BY <1>3, <2>2
        <3> QED BY <1>2, <2>1, <2>2, <3>1
    <2>3. CASE d # c /\ abandoning[d].at # "none"
        <3>1. campaign[d].status = "abandoned"
            BY <1>3, <2>3
        <3> QED BY <1>2, <2>1, <2>3, <3>1 DEF IInv, QuietInv
    <2>4. CASE d # c /\ abandoning[d].at = "none"
        BY <1>2, <2>4
    <2> QED BY <2>2, <2>3, <2>4
<1>6. CoordinationInv'
    BY CoordinationIsKept DEF IInv
<1> QED BY <1>4, <1>5, <1>6 DEF IInv

\* Cancelling what runs for an abandoned Campaign keeps the invariant.
LEMMA CancelCampaignKeeps ==
    ASSUME IInv, NEW c \in Campaigns, CancelCampaign(c)
    PROVE  IInv' /\ Advance
<1> DEFINE h == [NotAbandoning EXCEPT !.at = "waiting"]
           aborted == work.aborted \/ c \in work.owned
<1>1. /\ abandoning[c].at = "marked" /\ HandlerGoes(c, h)
      /\ UNCHANGED <<campaign, row, task, assessment, replacement, main, coord>>
      /\ exec' = [exec EXCEPT ![c] = [p \in Proposals |-> Cancelled(exec[c][p])]]
    BY DEF CancelCampaign, Handler, AbandonOnly, durable
<1>2. work \in WorkRecord /\ exec \in [Campaigns -> [Proposals -> ExecutionRecord]]
    BY DEF IInv, WorkInv, ExecutionsInv
<1>3. work' = [work EXCEPT !.aborted = aborted] /\ aborted \in BOOLEAN
    BY <1>2 DEF CancelCampaign, WorkRecord
<1>4. DurableInv' /\ Advance
    BY <1>1, DurableIsUnchanged
<1>5. h \in HandlerRecord /\ h.at = "waiting" /\ h.todo = {} /\ h.seen = Null
    BY DEF NotAbandoning, HandlerRecord
<1>6. ASSUME NEW p \in Proposals
      PROVE  LET e == exec[c][p]
                 f == Cancelled(e)
             IN  /\ f \in ExecutionRecord /\ f.op = e.op /\ (Engaged(f) => Engaged(e))
                 /\ f.op = "running" => f.abort
    <2> DEFINE e == exec[c][p]
               abort == e.op # "none"
    <2>1. e \in ExecutionRecord /\ abort \in BOOLEAN
        BY <1>2
    <2>2. Cancelled(e) = [e EXCEPT !.timer = FALSE, !.abort = abort]
        BY DEF Cancelled
    <2>3. e.op = "running" => abort
        OBVIOUS
    <2> HIDE DEF abort, e
    <2> QED BY <2>1, <2>2, <2>3 DEF ExecutionRecord, Engaged, e
<1>7. ASSUME NEW d \in Campaigns, NEW p \in Proposals
      PROVE  exec'[d][p] = IF d = c THEN Cancelled(exec[d][p]) ELSE exec[d][p]
    BY <1>1, <1>2
<1>8. ExecutionsInv'
    <2>1. \A d \in Campaigns, p \in Proposals : Engaged(exec'[d][p]) => task[d][p] # Null
        BY <1>6, <1>7 DEF IInv, ExecutionsInv
    <2>2. exec' \in [Campaigns -> [Proposals -> ExecutionRecord]]
        <3>1. [p \in Proposals |-> Cancelled(exec[c][p])] \in [Proposals -> ExecutionRecord]
            BY <1>6
        <3> QED BY <1>1, <1>2, <3>1
    <2> QED BY <1>1, <2>1, <2>2 DEF ExecutionsInv
<1> HIDE DEF aborted, h
<1>9. /\ work' \in WorkRecord /\ work'.at = work.at /\ work'.t = work.t /\ work'.targets = work.targets
      /\ work'.owned = work.owned /\ work'.aborted = aborted
    BY <1>2, <1>3 DEF WorkRecord
<1>10. WorkInv'
    BY <1>1, <1>9 DEF IInv, WorkInv, Asks
<1>11. Invoking(c) => work'.aborted
    <2> SUFFICES ASSUME Invoking(c) PROVE c \in work.owned
        BY <1>9 DEF aborted
    <2> QED BY DEF Invoking, IInv, WorkInv, Asks
<1>12. \A d \in Campaigns, p \in Proposals : exec'[d][p].op = "running" =>
           /\ exec[d][p].op = "running" /\ (exec[d][p].abort => exec'[d][p].abort)
           /\ d = c => exec'[d][p].abort
    BY <1>6, <1>7
<1>13. work.aborted => work'.aborted
    BY <1>9 DEF aborted
<1>14. IInv'
    BY <1>1, <1>4, <1>5, <1>8, <1>9, <1>10, <1>11, <1>12, <1>13, HandlerChanges
<1> QED BY <1>4, <1>14

\* ... and nothing else changes but, at most, the Task it blocks.
LEMMA HandlerAlone ==
    ASSUME IInv, DurableInv', Advance, UNCHANGED <<coord, work, exec>>, NEW c \in Campaigns,
           abandoning[c].at \in {"waiting", "blocking"}, NEW h \in HandlerRecord, HandlerGoes(c, h),
           h.at \in {"blocking", "done", "failed"},
           \A p \in h.todo : task[c][p] # Null,
           h.seen # Null => task[c][h.seen[1]] # Null /\ ~TerminalTask(h.seen[2]),
           campaign[c].status = "abandoned" =>
              (\A p \in Proposals : exec[c][p].op # "running") /\ ~Invoking(c)
    PROVE  IInv'
<1>1. WorkInv' /\ ExecutionsInv'
    BY WorkIsKept, ExecutionsAreKept DEF IInv
<1> QED BY <1>1, HandlerChanges

\* Reading the Tasks to block, after what was cancelled has ended, keeps the invariant.
LEMMA ReadTasksToBlockKeeps ==
    ASSUME IInv, NEW c \in Campaigns, ReadTasksToBlock(c)
    PROVE  IInv' /\ Advance
<1> DEFINE todo == {p \in Present(row[c]) : row[c][p].taskId}
           h == [NotAbandoning EXCEPT !.at = "blocking", !.todo = todo]
<1>1. /\ abandoning[c].at = "waiting" /\ HandlerGoes(c, h)
      /\ UNCHANGED <<campaign, row, task, assessment, replacement, main, coord, work, exec>>
    BY DEF ReadTasksToBlock, Handler, AbandonOnly, durable
<1>2. (\A p \in Proposals : ~exec[c][p].abort) /\ ~(work.aborted /\ c \in work.owned)
    BY DEF ReadTasksToBlock
<1>3. DurableInv' /\ Advance
    BY <1>1, DurableIsUnchanged
<1>4. todo \in SUBSET Proposals /\ \A p \in todo : task[c][p] # Null
    BY DEF Present, IInv, DurableInv, RowsSound, TasksAreOwned
<1> HIDE DEF todo
<1>5. h \in HandlerRecord /\ h.at = "blocking" /\ h.todo = todo /\ h.seen = Null
    BY <1>4 DEF NotAbandoning, HandlerRecord
<1> HIDE DEF h
<1>6. campaign[c].status = "abandoned" =>
          (\A p \in Proposals : exec[c][p].op # "running") /\ ~Invoking(c)
    <2>1. Invoking(c) => c \in work.owned
        BY DEF Invoking, IInv, WorkInv, Asks
    <2> QED BY <1>1, <1>2, <2>1 DEF IInv, QuietInv
<1>7. IInv'
    BY <1>1, <1>3, <1>4, <1>5, <1>6, HandlerAlone
<1> QED BY <1>3, <1>7

\* Looking up a Task to block keeps the invariant.
LEMMA LookupTaskKeeps ==
    ASSUME IInv, NEW c \in Campaigns, NEW p \in abandoning[c].todo, LookupTask(c, p)
    PROVE  IInv' /\ Advance
<1> DEFINE g == abandoning[c]
           h == IF TerminalTask(task[c][p]) THEN [g EXCEPT !.todo = @ \ {p}]
                ELSE [g EXCEPT !.seen = <<p, task[c][p]>>]
<1>1. /\ g.at = "blocking" /\ HandlerGoes(c, h) /\ g.seen = Null
      /\ UNCHANGED <<campaign, row, task, assessment, replacement, main, coord, work, exec>>
    BY DEF LookupTask, Handler, AbandonOnly, durable
<1>2. DurableInv' /\ Advance
    BY <1>1, DurableIsUnchanged
<1>3. g \in HandlerRecord /\ (\A q \in g.todo : task[c][q] # Null) /\ p \in g.todo
    BY DEF IInv, HandlersInv
<1>4. p \in Proposals /\ task[c][p] # Null /\ task[c][p] \in TaskRecord
    BY <1>3 DEF HandlerRecord, IInv, DurableInv, DurableType
<1> HIDE DEF g
<1>5. /\ h \in HandlerRecord /\ h.at = "blocking" /\ h.todo \subseteq g.todo
      /\ h.seen # Null => h.seen = <<p, task[c][p]>> /\ ~TerminalTask(task[c][p])
    BY <1>1, <1>3, <1>4 DEF HandlerRecord
<1>6. campaign[c].status = "abandoned" =>
          (\A q \in Proposals : exec[c][q].op # "running") /\ ~Invoking(c)
    BY <1>1 DEF IInv, QuietInv, g
<1> HIDE DEF h
<1>7. (\A q \in h.todo : task[c][q] # Null)
      /\ (h.seen # Null => task[c][h.seen[1]] # Null /\ ~TerminalTask(h.seen[2]))
    BY <1>3, <1>4, <1>5
<1>8. IInv'
    BY <1>1, <1>2, <1>5, <1>6, <1>7, HandlerAlone DEF g
<1> QED BY <1>2, <1>8

\* Blocking a Task keeps the invariant.
LEMMA BlockTaskKeeps ==
    ASSUME IInv, NEW c \in Campaigns, BlockTask(c)
    PROVE  IInv' /\ Advance
<1> DEFINE g == abandoning[c]
           p == g.seen[1]
           current == task[c][p] = g.seen[2]
           t == [task[c][p] EXCEPT !.state = "blocked"]
           h == IF current THEN [g EXCEPT !.seen = Null, !.todo = @ \ {p}]
                ELSE [NotAbandoning EXCEPT !.at = "failed"]
<1>1. /\ g.at = "blocking" /\ g.seen # Null /\ HandlerGoes(c, h)
      /\ UNCHANGED <<campaign, row, assessment, replacement, main, coord, work, exec>>
      /\ IF current THEN SetTask(c, p, t) ELSE UNCHANGED task
    BY DEF BlockTask, Handler, AbandonOnly
<1>2. /\ g \in HandlerRecord /\ (\A q \in g.todo : task[c][q] # Null)
      /\ task[c][p] # Null /\ ~TerminalTask(g.seen[2])
    BY <1>1 DEF IInv, HandlersInv
<1>3. p \in Proposals
    BY <1>1, <1>2 DEF HandlerRecord
<1>4. task[c][p] \in TaskRecord /\ main \in [Repositories -> Nat]
    BY <1>2, <1>3 DEF IInv, DurableInv, DurableType
<1>5. DurableInv' /\ Advance
    <2>1. CASE current
        <3>1. t \in TaskRecord /\ t.base = task[c][p].base /\ t.state = "blocked"
            BY <1>4 DEF TaskRecord, TaskStates
        <3>2. SetTask(c, p, t) /\ ~TerminalTask(task[c][p])
            BY <1>1, <1>2, <2>1
        <3> HIDE DEF t, p
        <3> QED BY <1>1, <1>2, <1>3, <1>4, <3>1, <3>2, OneTaskIsSound DEF IInv
    <2>2. CASE ~current
        BY <1>1, <2>2, DurableIsUnchanged
    <2> QED BY <2>1, <2>2
<1>6. campaign[c].status = "abandoned" =>
          (\A q \in Proposals : exec[c][q].op # "running") /\ ~Invoking(c)
    BY <1>1 DEF IInv, QuietInv
<1> HIDE DEF g, p, current, t
<1>7. /\ h \in HandlerRecord /\ h.at \in {"blocking", "failed"} /\ h.todo \subseteq g.todo /\ h.seen = Null
    BY <1>1, <1>2 DEF HandlerRecord, NotAbandoning
<1> HIDE DEF h
<1>8. IInv'
    BY <1>1, <1>2, <1>5, <1>6, <1>7, HandlerAlone DEF g
<1> QED BY <1>5, <1>8

\* The end of an abandonment's handler keeps the invariant.
LEMMA FinishAbandonmentKeeps ==
    ASSUME IInv, NEW c \in Campaigns, FinishAbandonment(c)
    PROVE  IInv' /\ Advance
<1> DEFINE h == [NotAbandoning EXCEPT !.at = "done"]
<1>1. /\ abandoning[c].at = "blocking" /\ HandlerGoes(c, h)
      /\ UNCHANGED <<campaign, row, task, assessment, replacement, main, coord, work, exec>>
    BY DEF FinishAbandonment, Handler, AbandonOnly, durable
<1>2. DurableInv' /\ Advance
    BY <1>1, DurableIsUnchanged
<1>3. h \in HandlerRecord /\ h.at = "done" /\ h.todo = {} /\ h.seen = Null
    BY DEF NotAbandoning, HandlerRecord
<1>4. campaign[c].status = "abandoned" =>
          (\A q \in Proposals : exec[c][q].op # "running") /\ ~Invoking(c)
    BY <1>1 DEF IInv, QuietInv
<1> HIDE DEF h
<1>5. IInv'
    BY <1>1, <1>2, <1>3, <1>4, HandlerAlone
<1> QED BY <1>2, <1>5

\* A crash ends what runs, and the handlers.
LEMMA CrashKeeps ==
    ASSUME IInv, Crash
    PROVE  IInv' /\ Advance
<1>1. /\ UNCHANGED <<campaign, row, task, assessment, replacement, main>>
      /\ coord' = NoCoordination /\ work' = NoWork
      /\ exec' = [c \in Campaigns |-> [p \in Proposals |-> NoExecution]]
    BY DEF Crash, durable
<1>2. DurableInv' /\ Advance
    BY <1>1, DurableIsUnchanged
<1>3. CoordinationInv'
    BY <1>1 DEF CoordinationInv, NoCoordination, CoordinationRecord
<1>4. WorkInv' /\ work'.at = "none"
    BY <1>1 DEF WorkInv, NoWork, WorkRecord
<1>5. NoExecution \in ExecutionRecord /\ ~Engaged(NoExecution) /\ NoExecution.op = "none"
    BY DEF NoExecution, ExecutionRecord, Engaged
<1>6. ExecutionsInv' /\ \A c \in Campaigns, p \in Proposals : exec'[c][p].op = "none"
    BY <1>1, <1>5 DEF ExecutionsInv
<1>7. ASSUME NEW c \in Campaigns
      PROVE  /\ abandoning[c] \in HandlerRecord
             /\ \/ abandoning'[c] = abandoning[c] /\ abandoning[c].at \in {"none", "done"}
                \/ abandoning'[c] = [NotAbandoning EXCEPT !.at = "failed"] /\ abandoning[c].at # "none"
    BY DEF Crash, IInv, HandlersInv
<1>8. [NotAbandoning EXCEPT !.at = "failed"] \in HandlerRecord
      /\ [NotAbandoning EXCEPT !.at = "failed"].todo = {}
      /\ [NotAbandoning EXCEPT !.at = "failed"].seen = Null
      /\ [NotAbandoning EXCEPT !.at = "failed"].at = "failed"
    BY DEF NotAbandoning, HandlerRecord
<1>9. HandlersInv'
    <2>1. abandoning' \in [Campaigns -> HandlerRecord]
        BY <1>7, <1>8 DEF Crash
    <2> QED BY <1>1, <1>7, <1>8, <2>1 DEF IInv, HandlersInv
<1>10. QuietInv'
    <2>1. \A c \in Campaigns : abandoning'[c].at # "waiting"
        BY <1>7, <1>8
    <2> QED BY <1>4, <1>6, <2>1 DEF QuietInv, Invoking
<1> QED BY <1>2, <1>3, <1>4, <1>6, <1>9, <1>10 DEF IInv

\* A restart keeps the invariant.
LEMMA RestartKeeps ==
    ASSUME IInv, Restart
    PROVE  IInv' /\ Advance
<1>1. DurableInv' /\ Advance /\ UNCHANGED <<coord, work, abandoning>>
    BY RestartIsSound DEF IInv, Restart
<1>2. ASSUME NEW c \in Campaigns, NEW p \in Proposals
      PROVE  /\ exec'[c][p] \in ExecutionRecord
             /\ Engaged(exec'[c][p]) => task'[c][p] # Null
             /\ exec'[c][p].op = "running" => exec[c][p].op = "running" /\ exec'[c][p].abort = exec[c][p].abort
    <2>1. exec[c][p] \in ExecutionRecord /\ (Engaged(exec[c][p]) => task[c][p] # Null)
        BY DEF IInv, ExecutionsInv
    <2>2. \/ exec'[c][p] = exec[c][p]
          \/ exec'[c][p] = Deduplicated(exec[c][p]) /\ task[c][p] # Null
        BY DEF Restart
    <2>3. task[c][p] # Null => task'[c][p] # Null
        BY <1>1, WhatStays DEF IInv
    <2> QED BY <2>1, <2>2, <2>3 DEF Deduplicated, ExecutionRecord
<1>3. ExecutionsInv'
    BY <1>2 DEF ExecutionsInv, Restart
<1> QED BY <1>1, <1>2, <1>3, ExecutionsChange

(***************************************************************************)
(* The invariant.                                                          *)
(***************************************************************************)

\* The rows of a plan that is proposed for the first time.
LEMMA ProposedRowsAreSound ==
    ASSUME NEW plan \in Seq(Proposals), NEW tasks, tasks = [p \in Proposals |-> Null]
    PROVE  RowsSound([p \in Proposals |->
               IF \E i \in 1..Len(plan) : plan[i] = p
               THEN NewRow(CHOOSE i \in 1..Len(plan) : plan[i] = p, FALSE, FALSE, Null)
               ELSE Null], tasks)
<1> DEFINE seq(p) == CHOOSE i \in 1..Len(plan) : plan[i] = p
           planned(p) == \E i \in 1..Len(plan) : plan[i] = p
           rows == [p \in Proposals |-> IF planned(p) THEN NewRow(seq(p), FALSE, FALSE, Null) ELSE Null]
<1>1. Len(plan) \in Nat
    OBVIOUS
<1>2. ASSUME NEW p \in Proposals, planned(p)
      PROVE  seq(p) \in 1..Len(plan)
    BY <1>2
<1>3. \A p \in Proposals : rows[p] = IF planned(p) THEN NewRow(seq(p), FALSE, FALSE, Null) ELSE Null
    OBVIOUS
<1>4. rows \in [Proposals -> ProposalRecord \cup {Null}]
    <2>1. ASSUME NEW p \in Proposals, planned(p)
          PROVE  NewRow(seq(p), FALSE, FALSE, Null) \in ProposalRecord
        <3>1. seq(p) \in Nat
            BY <1>1, <1>2, <2>1
        <3> HIDE DEF seq
        <3> QED BY <3>1 DEF NewRow, ProposalRecord
    <2> HIDE DEF seq, planned
    <2> QED BY <2>1
<1> HIDE DEF seq, planned, rows
<1>5. ASSUME NEW p \in Present(rows)
      PROVE  /\ rows[p].seq <= Len(plan) /\ rows[p].base = 0 /\ ~rows[p].taskId
             /\ rows[p].status = "planned"
    <2>1. p \in Proposals /\ planned(p) /\ rows[p] = NewRow(seq(p), FALSE, FALSE, Null)
        BY <1>3 DEF Present
    <2> QED BY <1>1, <1>2, <2>1 DEF NewRow
<1>6. SeqBounded(rows)
    BY <1>1, <1>5 DEF SeqBounded
<1>7. RowsSound(rows, tasks)
    BY <1>4, <1>5, <1>6, PlanAssumption
       DEF RowsSound, RowsType, TasksAreOwned, SupersededIsUnowned, MergesAreCommits
<1> QED BY <1>7 DEF rows, planned, seq

\* The invariant holds initially.
LEMMA InitIsSound ==
    Init => IInv
<1> SUFFICES ASSUME Init PROVE IInv
    OBVIOUS
<1> DEFINE camps == [c \in Campaigns |-> IF c \in Published THEN NewCampaign(c) ELSE Null]
           heads == [r \in Repositories |-> 1]
           proposed(c) == [p \in Proposals |->
               IF \E i \in 1..Len(Plan[c]) : Plan[c][i] = p
               THEN NewRow(CHOOSE i \in 1..Len(Plan[c]) : Plan[c][i] = p, FALSE, FALSE, Null)
               ELSE Null]
<1>1. /\ campaign = camps
      /\ row = [c \in Campaigns |-> IF c \in Published THEN ReconciledRows(camps, proposed(c), c, heads)
                                    ELSE [p \in Proposals |-> Null]]
      /\ task = [c \in Campaigns |-> [p \in Proposals |-> Null]]
      /\ assessment = [c \in Campaigns |-> [o \in Outcomes |-> Null]]
      /\ replacement = [c \in Campaigns |-> [o \in Outcomes |-> Null]]
      /\ main = heads
    BY DEF Init, CampaignsInit
<1>2. ASSUME NEW c \in Campaigns
      PROVE  /\ campaign[c] \in CampaignRecord \cup {Null}
             /\ campaign[c] # Null => campaign[c].status = "planning"
    BY <1>1 DEF NewCampaign, CampaignRecord
<1>3. ASSUME NEW c \in Campaigns
      PROVE  RowsSound(row[c], task[c])
    <2>1. task[c] = [p \in Proposals |-> Null]
        BY <1>1
    <2>2. CASE c \in Published
        <3>1. Plan[c] \in Seq(Proposals)
            BY ServerAssumption
        <3>2. RowsSound(proposed(c), task[c])
            BY <2>1, <3>1, ProposedRowsAreSound
        <3>3. ObservedHeads(heads)
            BY DEF ObservedHeads
        <3>4. row[c] = ReconciledRows(camps, proposed(c), c, heads)
            BY <1>1, <2>2
        <3> HIDE DEF camps, heads, proposed
        <3> DEFINE new == ReconciledRows(camps, proposed(c), c, heads)
        <3>5. RowsSound(new, task[c])
            BY <3>2, <3>3, ReconciledRowsAreSound
        <3> QED BY <3>4, <3>5
    <2>3. CASE c \notin Published
        <3>1. row[c] = [p \in Proposals |-> Null]
            BY <1>1, <2>3
        <3> QED BY <2>1, <3>1, PlanAssumption
               DEF RowsSound, RowsType, SeqBounded, TasksAreOwned, SupersededIsUnowned,
                   MergesAreCommits, Present
    <2> QED BY <2>2, <2>3
<1>4. DurableType
    <2>1. row \in [Campaigns -> [Proposals -> ProposalRecord \cup {Null}]]
        <3>1. \A c \in Campaigns : row[c] \in [Proposals -> ProposalRecord \cup {Null}]
            BY <1>3 DEF RowsSound, RowsType
        <3> QED BY <1>1, <3>1
    <2> HIDE DEF camps
    <2>2. campaign \in [Campaigns -> CampaignRecord \cup {Null}]
        BY <1>1, <1>2 DEF camps
    <2> QED BY <1>1, <2>1, <2>2 DEF DurableType
<1>5. DurableInv
    BY <1>2, <1>3, <1>4 DEF DurableInv
<1>6. CoordinationInv
    BY DEF Init, CoordinationInv, NoCoordination, CoordinationRecord
<1>7. WorkInv
    BY DEF Init, WorkInv, NoWork, WorkRecord
<1>8. ExecutionsInv
    BY DEF Init, ExecutionsInv, NoExecution, ExecutionRecord, Engaged
<1>9. HandlersInv /\ QuietInv
    BY DEF Init, HandlersInv, NotAbandoning, HandlerRecord, QuietInv
<1> QED BY <1>5, <1>6, <1>7, <1>8, <1>9 DEF IInv

\* Every step keeps the invariant and advances the facts.
LEMMA StepKeeps ==
    IInv /\ [Next]_vars => IInv' /\ Advance
<1> SUFFICES ASSUME IInv, [Next]_vars PROVE IInv' /\ Advance
    OBVIOUS
<1>1. CASE UNCHANGED vars
    <2>1. UNCHANGED <<campaign, row, task, assessment, replacement, main, coord, work, exec, abandoning>>
        BY <1>1 DEF vars, durable, volatile
    <2> QED BY <2>1, DurableIsUnchanged, DurableChanges
<1>2. CASE Guardian
    BY <1>2, GuardianKeeps
<1>3. CASE Coordination
    BY <1>3, CoordinationKeeps
<1>4. CASE ModelWork
    BY <1>4, ModelWorkKeeps
<1>5. CASE \E k \in Tasks : ExecutionStep(k) \/ TaskStep(k) \/ CheckRetry(k) \/ CommitRetry(k)
    BY <1>5, ExecutionStepKeeps, TaskStepKeeps, RetryKeeps
<1>6. CASE \E c \in Campaigns : (c \in Abandonable /\ MarkAbandoned(c)) \/ AbandonmentStep(c)
    BY <1>6, MarkAbandonedKeeps, CancelCampaignKeeps, ReadTasksToBlockKeeps, LookupTaskKeeps,
       BlockTaskKeeps, FinishAbandonmentKeeps DEF AbandonmentStep
<1>7. CASE Crash
    BY <1>7, CrashKeeps
<1>8. CASE Restart
    BY <1>8, RestartKeeps
<1> QED BY <1>1, <1>2, <1>3, <1>4, <1>5, <1>6, <1>7, <1>8 DEF Next

\* The facts of Campaigns, the coordination, the model work, the executions and the handlers are
\* consistent whatever is interleaved, and no step takes back what Advance keeps.
THEOREM CampaignInvariance ==
    Spec => []IInv /\ [][Advance]_vars
<1>1. Init => IInv
    BY InitIsSound
<1>2. IInv /\ [Next]_vars => IInv'
    BY StepKeeps
<1>3. IInv /\ [Next]_vars => [Advance]_vars
    BY StepKeeps
<1> QED BY <1>1, <1>2, <1>3, PTL DEF Spec

(***************************************************************************)
(* The properties.                                                         *)
(***************************************************************************)

\* An accepted Campaign is proven, then and ever after, whatever the guardian, the models, the
\* Tasks and restarts do meanwhile: each live Outcome has a satisfied assessment of exactly the
\* present evidence, and its standing work is delivered.
THEOREM AcceptanceIsProven ==
    Spec => []AcceptedIsProven
<1>1. IInv => AcceptedIsProven
    <2> SUFFICES ASSUME IInv, NEW c \in Campaigns, campaign[c] # Null, campaign[c].status = "accepted"
                 PROVE  /\ Live # {}
                        /\ \A o \in Live :
                              /\ CurrentAssessment(c, row[c], o) /\ assessment[c][o].verdict = "satisfied"
                              /\ Standing(row[c]) \cap Of(o) # {}
                              /\ \A p \in Standing(row[c]) \cap Of(o) : Delivered(task[c][p])
        BY DEF AcceptedIsProven
    <2>1. Proven(row[c], task[c], assessment[c]) /\ DurableType
        BY DEF IInv, DurableInv
    <2>2. \A o : EvidenceOf(c, row[c], o) = EvidenceIn(row[c], task[c], o)
        BY <2>1, EvidenceIsOfTheTasks DEF DurableType
    <2> QED BY <2>1, <2>2 DEF Proven, CurrentAssessment, Done, Delivered
<1> QED BY <1>1, CampaignInvariance, PTL

\* A checkpoint supersedes only work nobody owns, and the successor it names supersedes it.
THEOREM SupersededWorkStaysUnowned ==
    Spec => []SupersededWorkIsUnowned
<1>1. IInv => SupersededWorkIsUnowned
    <2> SUFFICES ASSUME IInv, NEW c \in Campaigns, NEW p \in Proposals, row[c][p] # Null,
                        row[c][p].status = "superseded"
                 PROVE  /\ task[c][p] = Null /\ ~row[c][p].taskId /\ row[c][p].base = 0
                        /\ row[c][row[c][p].supersededBy] # Null
                        /\ row[c][row[c][p].supersededBy].supersedes = p
        BY DEF SupersededWorkIsUnowned
    <2>1. SupersededIsUnowned(row[c]) /\ TasksAreOwned(row[c], task[c])
        BY DEF IInv, DurableInv, RowsSound
    <2> QED BY <2>1 DEF SupersededIsUnowned, TasksAreOwned, Present
<1> QED BY <1>1, CampaignInvariance, PTL

\* A dependent Task exists only when what it depends on is delivered, and it starts from the merge
\* of the one it depends on in its Repository.
THEOREM DependentsWait ==
    Spec => []DependentsWaitForDelivery
<1>1. IInv => DependentsWaitForDelivery
    <2> SUFFICES ASSUME IInv, NEW c \in Campaigns, NEW p \in Proposals, task[c][p] # Null
                 PROVE  /\ \A d \in DependsOn[p] : Delivered(task[c][d])
                        /\ LET same == {d \in Dependencies(row[c], p) : SameRepository(p, d)}
                           IN  Cardinality(same) = 1 /\ same \subseteq DependsOn[p] =>
                                   \A d \in same : task[c][p].base = task[c][d].merged
        BY DEF DependentsWaitForDelivery
    <2> DEFINE same == {d \in Dependencies(row[c], p) : SameRepository(p, d)}
    <2>1. RowsSound(row[c], task[c])
        BY DEF IInv, DurableInv
    <2>2. p \in Present(row[c]) /\ row[c][p].base # 0 /\ task[c][p].base = row[c][p].base
        BY <2>1 DEF RowsSound, TasksAreOwned, Present
    <2>3. Released(row[c], task[c], p)
        BY <2>1, <2>2 DEF RowsSound
    <2>4. \A d \in DependsOn[p] : Delivered(task[c][d])
        BY <2>3 DEF Released, Done, Delivered
    <2>5. ASSUME Cardinality(same) = 1, same \subseteq DependsOn[p], NEW d \in same
          PROVE  task[c][p].base = task[c][d].merged
        <3>1. d \in DependsOn[p] /\ SameRepository(p, d)
            BY <2>5
        <3>2. PICK e \in Dependencies(row[c], p) :
                  SameRepository(p, e) /\ row[c][p].base = task[c][e].merged
            BY <2>3, <3>1 DEF Released
        <3>3. e \in same
            BY <3>2
        <3>4. IsFiniteSet(same)
            <4>1. same \in SUBSET Proposals
                BY PlanAssumption DEF Dependencies, Standing, Present
            <4> HIDE DEF same
            <4> QED BY <4>1, PlanAssumption, FS_Subset
        <3> HIDE DEF same
        <3>5. PICK x : same = {x}
            BY <2>5, <3>4, FS_Singleton
        <3>6. e = d
            BY <2>5, <3>3, <3>5
        <3> QED BY <2>2, <3>2, <3>6
    <2> QED BY <2>4, <2>5
<1> QED BY <1>1, CampaignInvariance, PTL

\* Once the handler of an abandonment has waited, no Task of the Campaign executes and no model is
\* invoked for it, whatever is launched, armed or retried later, and after a crash.
THEOREM AbandonmentIsQuiet ==
    Spec => []NothingRunsAfterAbandonment
<1>1. IInv => NothingRunsAfterAbandonment
    BY DEF IInv, QuietInv, NothingRunsAfterAbandonment, Invoking
<1> QED BY <1>1, CampaignInvariance, PTL

\* The base of a released proposal does not move, and its Task runs on it.
THEOREM BasesStay ==
    Spec => BasesNeverMove
<1>1. IInv /\ IInv' /\ Advance =>
          \A c \in Campaigns, p \in Proposals : row[c][p] # Null /\ row[c][p].base # 0 =>
              /\ row'[c][p].base = row[c][p].base
              /\ task'[c][p] # Null => task'[c][p].base = row[c][p].base
    <2> SUFFICES ASSUME IInv, IInv', Advance, NEW c \in Campaigns, NEW p \in Proposals,
                        row[c][p] # Null, row[c][p].base # 0
                 PROVE  /\ row'[c][p].base = row[c][p].base
                        /\ task'[c][p] # Null => task'[c][p].base = row[c][p].base
        OBVIOUS
    <2>1. row'[c][p].base = row[c][p].base
        BY WhatStays DEF IInv
    <2>2. RowsSound(row[c], task[c])'
        BY DEF IInv, DurableInv
    <2> QED BY <2>1, <2>2 DEF RowsSound, TasksAreOwned
<1>2. IInv /\ IInv' /\ [Advance]_vars =>
          [\A c \in Campaigns, p \in Proposals : row[c][p] # Null /\ row[c][p].base # 0 =>
              /\ row'[c][p].base = row[c][p].base
              /\ task'[c][p] # Null => task'[c][p].base = row[c][p].base]_vars
    BY <1>1
<1> QED BY <1>2, CampaignInvariance, PTL DEF BasesNeverMove

\* The assessments and the rows of a Campaign that is settled or superseded do not change: an
\* answer of a model that was asked before changes nothing.
THEOREM LateAnswersAreFenced ==
    Spec => LateAnswersChangeNothing
<1>1. Advance =>
          \A c \in Campaigns : campaign[c] # Null /\ ~Open(c) =>
              /\ assessment'[c] = assessment[c]
              /\ Present(row'[c]) = Present(row[c])
              /\ Standing(row'[c]) = Standing(row[c])
    BY DEF Advance, ScopeKept
<1>2. [Advance]_vars =>
          [\A c \in Campaigns : campaign[c] # Null /\ ~Open(c) =>
              /\ assessment'[c] = assessment[c]
              /\ Present(row'[c]) = Present(row[c])
              /\ Standing(row'[c]) = Standing(row[c])]_vars
    BY <1>1
<1> QED BY <1>2, CampaignInvariance, PTL DEF LateAnswersChangeNothing

====
