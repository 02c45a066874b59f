---- MODULE ForgeDelivery_proofs ----
(***************************************************************************)
(* Whatever fails, crashes, arrives late or is done by other people, what  *)
(* Forge Delivery records is real, and it implements DeliveryEffects: the  *)
(* App merges at most once.  The reason: GitHub keeps one open pull        *)
(* request per branch, which is the newest; a pull request that is chosen  *)
(* for a merge is never newer than one the App has merged.                 *)
(***************************************************************************)
EXTENDS ForgeDelivery, FiniteSetTheorems, TLAPS

(***************************************************************************)
(* The inductive invariant                                                 *)
(***************************************************************************)
\* GitHub's pull requests: numbered without gaps, the open one the newest.
Numbered ==
    /\ \A m, n \in Numbers : Exists(n) /\ m < n => Exists(m)
    /\ \A m, n \in Numbers : Open(n) /\ Exists(m) => m <= n
    /\ \A n \in Numbers : Open(n) => prs[n].merger = Null
    /\ \A n \in Merged : prs[n].head = Approved

\* The pull requests a merge is or may be asked for.
Chosen == {n \in Numbers : call.pr = n \/ <<"merge", n>> \in late}

SoundChoice == \A n \in Chosen : Exists(n) /\ \A m \in Merged : n <= m

SoundLate == \A n \in Numbers : <<"merge", n>> \in late => own[n] > 0 /\ policy.merge

AttestedStages == {"live", "reviews", "checks", "merging", "materializing"}
Attesting == {"attesting", "commenting"}
Fulfilled == call.outcome \in {"delivered", "merged"}

\* What deliver() has established by the stage it is in.
SoundCall ==
    /\ ~At("idle") => task = "reviewed"
    /\ call.stage \in AttestedStages \cup Attesting \cup {"probing"} => call.pr # Null
    /\ call.stage \in AttestedStages => own[call.pr] > 0
    /\ call.stage \in AttestedStages \cup {"probing"} => policy.merge
    /\ call.stage \in Attesting /\ call.then # "deliver" => policy.merge
    /\ call.stage \in Attesting /\ call.then = "recover" => call.pr \in Landed
    /\ At("materializing") => call.pr \in Landed
    /\ At("returned") /\ Fulfilled =>
          /\ call.pr # Null /\ own[call.pr] > 0
          /\ policy.merge = (call.outcome = "merged")
    /\ At("returned") /\ call.outcome = "merged" => call.pr \in Landed \cap local

\* Before a pull request is created the App has merged none, nor will it.
SoundCreation ==
    At("creating") \/ (At("pushing") /\ call.pr = Null) =>
        call.pr = Null /\ Merged = {} /\ \A n \in Numbers : <<"merge", n>> \notin late

SoundRecord == ReportedEffectIsReal /\ (report # Null <=> task = "delivered")

IInv ==
    /\ TypeOK /\ Numbered /\ SoundChoice /\ SoundLate
    /\ SoundCall /\ SoundCreation /\ SoundRecord

(***************************************************************************)
(* GitHub's pull requests                                                  *)
(***************************************************************************)
CloseAll ==
    [n \in Numbers |-> IF Open(n) THEN [prs[n] EXCEPT !.state = "closed"] ELSE prs[n]]

\* Everything that can become of them in one step, but for the App's merge.
PullRequestsMove ==
    \/ UNCHANGED prs
    \/ /\ branch \in {Approved, Other} /\ ~\E n \in Numbers : Open(n)
       /\ \E n \in Fresh : prs' = Opened(n)
    \/ \E sha \in {Approved, Other} : prs' = Follow(sha)
    \/ \E n \in Numbers, merger \in {Null, "other"} : Open(n) /\ prs' = Closed(n, merger)
    \/ prs' = CloseAll

AppMerges(n) ==
    /\ n \in Chosen /\ own[n] > 0 /\ policy.merge
    /\ Open(n) /\ prs[n].head = Approved /\ prs' = Closed(n, "app")

\* A pull request whose head moves, that closes, or that is closed by someone, keeps
\* its other fields.
LEMMA HeadMoves ==
    ASSUME NEW pr \in PullRequest, NEW head \in {Approved, Other}
    PROVE  /\ [pr EXCEPT !.head = head] \in PullRequest
           /\ [pr EXCEPT !.head = head].state = pr.state
           /\ [pr EXCEPT !.head = head].merger = pr.merger
  BY DEF PullRequest

\* It closes.
LEMMA ItCloses ==
    ASSUME NEW pr \in PullRequest
    PROVE  /\ [pr EXCEPT !.state = "closed"] \in PullRequest
           /\ [pr EXCEPT !.state = "closed"].state = "closed"
           /\ [pr EXCEPT !.state = "closed"].head = pr.head
           /\ [pr EXCEPT !.state = "closed"].merger = pr.merger
  BY DEF PullRequest

\* Someone closes or merges it.
LEMMA SomeoneCloses ==
    ASSUME NEW pr \in PullRequest, NEW merger \in {Null, "app", "other"}
    PROVE  /\ [pr EXCEPT !.state = "closed", !.merger = merger] \in PullRequest
           /\ [pr EXCEPT !.state = "closed", !.merger = merger].state = "closed"
           /\ [pr EXCEPT !.state = "closed", !.merger = merger].head = pr.head
           /\ [pr EXCEPT !.state = "closed", !.merger = merger].merger = merger
  BY DEF PullRequest

\* What Opened, Follow, Closed and CloseAll make of one pull request.
LEMMA MovedPullRequest ==
    ASSUME TypeOK, NEW n \in Numbers
    PROVE  /\ \A m \in Numbers : branch \in {Approved, Other} =>
                Opened(m)[n] = IF n = m THEN [state |-> "open", head |-> branch, merger |-> Null]
                               ELSE prs[n]
           /\ \A m \in Numbers, merger \in {Null, "app", "other"} :
                Closed(m, merger)[n] =
                    IF n = m THEN [prs[n] EXCEPT !.state = "closed", !.merger = merger]
                    ELSE prs[n]
           /\ \A sha : Follow(sha)[n] = IF Open(n) THEN [prs[n] EXCEPT !.head = sha] ELSE prs[n]
           /\ CloseAll[n] = IF Open(n) THEN [prs[n] EXCEPT !.state = "closed"] ELSE prs[n]
  BY DEF TypeOK, Opened, Closed, Follow, CloseAll

\* One pull request, before and after: it stays, or is new, or is the open one that
\* follows its branch or is closed.
Becomes(old, new) ==
    \/ new = old
    \/ old = Null /\ new.state = "open" /\ new.merger = Null
    \/ /\ old # Null /\ old.state = "open"
       /\ \/ new.state = "open" /\ new.merger = old.merger
          \/ new.state = "closed" /\ new.head = old.head /\ new.merger \in {Null, "other"}

\* The pull requests stay well typed, and each of them becomes what it may.
LEMMA MoveOfEach ==
    ASSUME TypeOK, Numbered, PullRequestsMove
    PROVE  /\ prs' \in [Numbers -> PullRequest \cup {Null}]
           /\ \A n \in Numbers : Becomes(prs[n], prs'[n]) /\ (Exists(n) => prs'[n] # Null)
<1>1. /\ prs \in [Numbers -> PullRequest \cup {Null}] /\ Null \notin PullRequest
      /\ \A n \in Numbers : Exists(n) => prs[n] \in PullRequest
  BY NullAssumption DEF TypeOK, Exists
<1>2. CASE UNCHANGED prs
  BY <1>1, <1>2 DEF Becomes, Exists
<1>3. CASE branch \in {Approved, Other} /\ \E n \in Fresh : prs' = Opened(n)
  <2>1. PICK k \in Fresh : prs' = Opened(k)
    BY <1>3
  <2>2. [state |-> "open", head |-> branch, merger |-> Null] \in PullRequest
    BY <1>3 DEF PullRequest
  <2>3. k \in Numbers /\ prs[k] = Null
    BY DEF Fresh, Exists
  <2>4. prs' \in [Numbers -> PullRequest \cup {Null}]
    BY <1>1, <2>1, <2>2 DEF Opened
  <2>5. ASSUME NEW n \in Numbers
        PROVE  Becomes(prs[n], prs'[n]) /\ (Exists(n) => prs'[n] # Null)
    <3> DEFINE new == [state |-> "open", head |-> branch, merger |-> Null]
    <3>1. prs'[n] = IF n = k THEN new ELSE prs[n]
      BY <1>3, <2>1, <2>3, MovedPullRequest
    <3>2. new # Null /\ new.state = "open" /\ new.merger = Null
      BY <1>1, <2>2
    <3> HIDE DEF new
    <3> QED BY <2>3, <3>1, <3>2 DEF Becomes, Exists
  <2> QED BY <2>4, <2>5
<1>4. CASE \E sha \in {Approved, Other} : prs' = Follow(sha)
  <2>1. PICK sha \in {Approved, Other} : prs' = Follow(sha)
    BY <1>4
  <2>2. ASSUME NEW n \in Numbers, Open(n)
        PROVE  /\ [prs[n] EXCEPT !.head = sha] \in PullRequest
               /\ [prs[n] EXCEPT !.head = sha].state = prs[n].state
               /\ [prs[n] EXCEPT !.head = sha].merger = prs[n].merger
    <3>1. prs[n] \in PullRequest
      BY <1>1, <2>2 DEF Open
    <3> QED BY <3>1, HeadMoves
  <2>3. prs' \in [Numbers -> PullRequest \cup {Null}]
    BY <1>1, <2>1, <2>2 DEF Follow
  <2>4. ASSUME NEW n \in Numbers
        PROVE  Becomes(prs[n], prs'[n]) /\ (Exists(n) => prs'[n] # Null)
    <3>1. CASE Open(n)
      <4> DEFINE new == [prs[n] EXCEPT !.head = sha]
      <4>1. prs'[n] = new
        BY <2>1, <3>1, MovedPullRequest
      <4>2. new \in PullRequest /\ new.state = prs[n].state /\ new.merger = prs[n].merger
        BY <2>2, <3>1
      <4> HIDE DEF new
      <4> QED BY <1>1, <3>1, <4>1, <4>2 DEF Becomes, Exists, Open
    <3>2. CASE ~Open(n)
      BY <2>1, <3>2, MovedPullRequest DEF Becomes, Exists
    <3> QED BY <3>1, <3>2
  <2> QED BY <2>3, <2>4
<1>5. CASE \E n \in Numbers, merger \in {Null, "other"} : Open(n) /\ prs' = Closed(n, merger)
  <2>1. PICK k \in Numbers, merger \in {Null, "other"} : Open(k) /\ prs' = Closed(k, merger)
    BY <1>5
  <2> DEFINE new == [prs[k] EXCEPT !.state = "closed", !.merger = merger]
  <2>2. prs[k] \in PullRequest /\ merger \in {Null, "app", "other"}
    BY <1>1, <2>1 DEF Open
  <2>3. /\ new \in PullRequest
        /\ new.state = "closed" /\ new.head = prs[k].head /\ new.merger = merger
    BY <2>2, SomeoneCloses, Zenon
  <2> HIDE DEF new
  <2>4. prs' = [prs EXCEPT ![k] = new]
    BY <2>1 DEF Closed, new
  <2>5. prs' \in [Numbers -> PullRequest \cup {Null}]
    BY <1>1, <2>3, <2>4
  <2>6. ASSUME NEW n \in Numbers
        PROVE  Becomes(prs[n], prs'[n]) /\ (Exists(n) => prs'[n] # Null)
    BY <1>1, <2>1, <2>3, <2>4 DEF Becomes, Exists, Open
  <2> QED BY <2>5, <2>6
<1>6. CASE prs' = CloseAll
  <2>1. ASSUME NEW n \in Numbers, Open(n)
        PROVE  /\ [prs[n] EXCEPT !.state = "closed"] \in PullRequest
               /\ [prs[n] EXCEPT !.state = "closed"].state = "closed"
               /\ [prs[n] EXCEPT !.state = "closed"].head = prs[n].head
               /\ [prs[n] EXCEPT !.state = "closed"].merger = prs[n].merger
    <3>1. prs[n] \in PullRequest
      BY <1>1, <2>1 DEF Open
    <3> QED BY <3>1, ItCloses
  <2>2. prs' \in [Numbers -> PullRequest \cup {Null}]
    BY <1>1, <1>6, <2>1 DEF CloseAll
  <2>3. ASSUME NEW n \in Numbers
        PROVE  Becomes(prs[n], prs'[n]) /\ (Exists(n) => prs'[n] # Null)
    <3>1. CASE Open(n)
      <4> DEFINE new == [prs[n] EXCEPT !.state = "closed"]
      <4>1. prs'[n] = new
        BY <1>6, <3>1, MovedPullRequest
      <4>2. /\ new \in PullRequest /\ new.state = "closed"
            /\ new.head = prs[n].head /\ new.merger = prs[n].merger
        BY <2>1, <3>1
      <4> HIDE DEF new
      <4> QED BY <1>1, <3>1, <4>1, <4>2 DEF Becomes, Exists, Open, Numbered
    <3>2. CASE ~Open(n)
      BY <1>6, <3>2, MovedPullRequest DEF Becomes, Exists
    <3> QED BY <3>1, <3>2
  <2> QED BY <2>2, <2>3
<1> QED BY <1>2, <1>3, <1>4, <1>5, <1>6 DEF PullRequestsMove

\* A new pull request takes the next number, while none is open.
LEMMA NewPullRequest ==
    ASSUME TypeOK, Numbered, PullRequestsMove, NEW n \in Numbers, ~Exists(n), prs'[n] # Null
    PROVE  n \in Fresh /\ \A m \in Numbers : ~Open(m) /\ (m # n => prs'[m] = prs[m])
<1>1. ~Open(n)
  BY DEF Open
<1>2. CASE UNCHANGED prs
  BY <1>2 DEF Exists
<1>3. CASE /\ branch \in {Approved, Other} /\ ~\E m \in Numbers : Open(m)
           /\ \E k \in Fresh : prs' = Opened(k)
  <2>1. PICK k \in Fresh : prs' = Opened(k)
    BY <1>3
  <2>2. k \in Numbers
    BY DEF Fresh
  <2>3. \A m \in Numbers : m # k => prs'[m] = prs[m]
    BY <1>3, <2>1, <2>2, MovedPullRequest
  <2>4. n = k
    BY <2>3 DEF Exists
  <2> QED BY <1>3, <2>3, <2>4
<1>4. CASE \E sha \in {Approved, Other} : prs' = Follow(sha)
  <2>1. PICK sha \in {Approved, Other} : prs' = Follow(sha)
    BY <1>4
  <2>2. Follow(sha)[n] = IF Open(n) THEN [prs[n] EXCEPT !.head = sha] ELSE prs[n]
    BY MovedPullRequest
  <2>3. prs'[n] = prs[n]
    BY <1>1, <2>1, <2>2
  <2> QED BY <2>3 DEF Exists
<1>5. CASE \E k \in Numbers, merger \in {Null, "other"} : Open(k) /\ prs' = Closed(k, merger)
  <2>1. PICK k \in Numbers, merger \in {Null, "other"} : Open(k) /\ prs' = Closed(k, merger)
    BY <1>5
  <2>2. n # k
    BY <1>1, <2>1
  <2> DEFINE new == [prs[k] EXCEPT !.state = "closed", !.merger = merger]
  <2>3. prs' = [prs EXCEPT ![k] = new]
    BY <2>1 DEF Closed
  <2> HIDE DEF new
  <2>4. prs'[n] = prs[n]
    BY <2>2, <2>3 DEF TypeOK
  <2> QED BY <2>4 DEF Exists
<1>6. CASE prs' = CloseAll
  <2>1. prs'[n] = prs[n]
    BY <1>1, <1>6, MovedPullRequest
  <2> QED BY <2>1 DEF Exists
<1> QED BY <1>2, <1>3, <1>4, <1>5, <1>6 DEF PullRequestsMove

\* The pull requests that exist, that landed and that the App merged only grow, and
\* the last of them not without the App.
LEMMA MoveKeeps ==
    ASSUME TypeOK, Numbered, PullRequestsMove
    PROVE  /\ \A n \in Numbers : Exists(n) => Exists(n)'
           /\ Landed \subseteq Landed'
           /\ Merged' = Merged
<1>1. \A n \in Numbers : Becomes(prs[n], prs'[n]) /\ (Exists(n) => prs'[n] # Null)
  BY MoveOfEach
<1>2. \A n \in Numbers : Open(n) <=> prs[n] # Null /\ prs[n].state = "open"
  BY DEF Open, Exists
<1>3. \A n \in Numbers : Open(n) => prs[n].merger = Null
  BY DEF Numbered
<1>4. ASSUME NEW n \in Landed
      PROVE  n \in Landed'
  <2>1. n \in Numbers /\ prs[n] # Null /\ prs[n].head = Approved /\ prs[n].merger # Null
    BY DEF Landed, Matching, Exists
  <2>2. prs'[n] = prs[n]
    BY <1>1, <1>2, <1>3, <2>1 DEF Becomes
  <2> QED BY <2>1, <2>2 DEF Landed, Matching, Exists
<1>5. ASSUME NEW n \in Numbers
      PROVE  n \in Merged <=> n \in Merged'
  <2>1. Null # "app" /\ "other" # "app"
    BY NullAssumption
  <2>2. Becomes(prs[n], prs'[n]) /\ (prs[n] # Null => prs'[n] # Null)
    BY <1>1 DEF Exists
  <2> QED BY <1>2, <1>3, <2>1, <2>2 DEF Merged, Exists, Becomes
<1>6. Merged \subseteq Numbers /\ Merged' \subseteq Numbers
  BY DEF Merged
<1> QED BY <1>1, <1>4, <1>5, <1>6 DEF Exists

\* GitHub's pull requests stay numbered.
LEMMA MoveStaysNumbered ==
    ASSUME TypeOK, Numbered, PullRequestsMove
    PROVE  Numbered'
<1>1. \A n \in Numbers : Becomes(prs[n], prs'[n]) /\ (prs[n] # Null => prs'[n] # Null)
  BY MoveOfEach DEF Exists
<1>2. \A n \in Numbers : Open(n) <=> prs[n] # Null /\ prs[n].state = "open"
  BY DEF Open, Exists
<1>3. \A n \in Numbers : Open(n)' <=> prs'[n] # Null /\ prs'[n].state = "open"
  BY DEF Open, Exists
<1>4. ASSUME NEW n \in Numbers, Open(n)', Exists(n)
      PROVE  Open(n) /\ \A m \in Numbers : Exists(m)' => Exists(m)
  <2>1. Open(n)
    BY <1>1, <1>2, <1>3, <1>4 DEF Becomes, Exists
  <2>2. ASSUME NEW m \in Numbers, Exists(m)'
        PROVE  Exists(m)
    BY <2>1, <2>2, NewPullRequest DEF Exists
  <2> QED BY <2>1, <2>2
<1>5. ASSUME NEW n \in Numbers, Exists(n)', ~Exists(n)
      PROVE  /\ \A m \in Numbers : m < n => Exists(m)
             /\ \A m \in Numbers : Exists(m) => m < n
             /\ \A m \in Numbers : Exists(m)' => Exists(m) \/ m = n
  <2>1. n \in Fresh /\ \A m \in Numbers : m # n => prs'[m] = prs[m]
    BY <1>5, NewPullRequest DEF Exists
  <2>2. \A m \in Numbers : m < n => Exists(m)
    BY <2>1 DEF Fresh
  <2>3. ASSUME NEW m \in Numbers, Exists(m)
        PROVE  m < n
    <3>1. m # n /\ ~(n < m)
      BY <1>5, <2>3 DEF Numbered
    <3> QED BY <3>1, NumbersAssumption
  <2> QED BY <2>1, <2>2, <2>3 DEF Exists
<1>6. ASSUME NEW m \in Numbers, NEW n \in Numbers, Exists(n)', m < n
      PROVE  Exists(m)'
  <2>1. Exists(m)
    BY <1>5, <1>6 DEF Numbered
  <2> QED BY <1>1, <2>1 DEF Exists
<1>7. ASSUME NEW m \in Numbers, NEW n \in Numbers, Open(n)', Exists(m)'
      PROVE  m <= n
  <2>1. CASE Exists(n)
    BY <1>4, <1>7, <2>1 DEF Numbered
  <2>2. CASE ~Exists(n)
    <3>1. Exists(n)'
      BY <1>7 DEF Open, Exists
    <3>2. m < n \/ m = n
      BY <1>5, <1>7, <2>2, <3>1
    <3> QED BY <3>2, NumbersAssumption
  <2> QED BY <2>1, <2>2
<1>8. ASSUME NEW n \in Numbers, Open(n)'
      PROVE  prs'[n].merger = Null
  BY <1>1, <1>2, <1>3, <1>8 DEF Becomes, Numbered
<1>9. ASSUME NEW n \in Merged'
      PROVE  prs'[n].head = Approved
  <2>1. n \in Merged
    BY <1>9, MoveKeeps
  <2>2. n \in Numbers /\ prs[n] # Null /\ prs[n].merger = "app" /\ "app" # Null
    BY <2>1, NullAssumption DEF Merged, Exists
  <2>3. prs'[n] = prs[n]
    BY <1>1, <1>2, <2>2 DEF Becomes, Numbered
  <2> QED BY <2>1, <2>3 DEF Numbered
<1> QED BY <1>6, <1>7, <1>8, <1>9 DEF Numbered

\* The App's own merge is of the newest pull request, and its first.
LEMMA AppMergeOfEach ==
    ASSUME TypeOK, Numbered, SoundChoice, NEW k, AppMerges(k)
    PROVE  /\ prs' \in [Numbers -> PullRequest \cup {Null}] /\ Numbered'
           /\ \A n \in Numbers : Exists(n) => Exists(n)' /\ n <= k
           /\ Merged = {} /\ Merged' = {k} /\ Landed' = Landed \cup {k}
<1>1. /\ prs \in [Numbers -> PullRequest \cup {Null}] /\ Null \notin PullRequest
      /\ k \in Numbers /\ prs[k] \in PullRequest /\ Open(k) /\ prs[k].head = Approved
      /\ "app" # Null
  BY NullAssumption DEF TypeOK, AppMerges, Chosen, Exists, Open
<1> DEFINE new == [prs[k] EXCEPT !.state = "closed", !.merger = "app"]
<1>2. /\ new \in PullRequest
      /\ new.state = "closed" /\ new.head = Approved /\ new.merger = "app"
  <2>1. new \in PullRequest
    BY <1>1, SomeoneCloses
  <2>2. new.state = "closed" /\ new.head = Approved /\ new.merger = "app"
    BY <1>1 DEF PullRequest
  <2> QED BY <2>1, <2>2
<1>3. prs' = [prs EXCEPT ![k] = new]
  BY DEF AppMerges, Closed
<1> HIDE DEF new
<1>4. /\ prs' \in [Numbers -> PullRequest \cup {Null}]
      /\ prs'[k] = new /\ new # Null
      /\ \A n \in Numbers : n # k => prs'[n] = prs[n]
  BY <1>1, <1>2, <1>3
<1>5. ASSUME NEW n \in Numbers
      PROVE  (Exists(n)' <=> Exists(n)) /\ (Open(n)' <=> Open(n) /\ n # k)
  BY <1>1, <1>2, <1>4 DEF Exists, Open
<1>6. \A n \in Numbers : Exists(n) => n <= k
  BY <1>1 DEF Numbered
<1>7. ASSUME NEW m \in Merged
      PROVE  FALSE
  <2>1. m \in Numbers /\ Exists(m) /\ prs[m].merger = "app"
    BY DEF Merged
  <2>2. k <= m /\ m <= k
    BY <1>6, <2>1 DEF SoundChoice, AppMerges
  <2>3. m = k
    BY <1>1, <2>1, <2>2, NumbersAssumption
  <2> QED BY <1>1, <2>1, <2>3 DEF Numbered
<1>8. Merged' = {k}
  <2>1. k \in Merged'
    BY <1>1, <1>2, <1>4 DEF Merged, Exists
  <2>2. ASSUME NEW n \in Merged', n # k
        PROVE  FALSE
    <3>1. n \in Merged
      BY <1>4, <2>2 DEF Merged, Exists
    <3> QED BY <1>7, <3>1
  <2> QED BY <2>1, <2>2
<1>9. Landed' = Landed \cup {k}
  <2>1. k \in Landed'
    BY <1>1, <1>2, <1>4 DEF Landed, Matching, Exists
  <2>2. \A n : n # k => (n \in Landed' <=> n \in Landed)
    BY <1>4 DEF Landed, Matching, Exists
  <2> QED BY <2>1, <2>2
<1>10. Numbered'
  <2>1. \A m, n \in Numbers : Exists(n)' /\ m < n => Exists(m)'
    BY <1>5 DEF Numbered
  <2>2. \A m, n \in Numbers : Open(n)' /\ Exists(m)' => m <= n
    BY <1>5 DEF Numbered
  <2>3. ASSUME NEW n \in Numbers, Open(n)'
        PROVE  prs'[n].merger = Null
    BY <1>4, <1>5, <2>3 DEF Numbered
  <2>4. ASSUME NEW n \in Merged'
        PROVE  prs'[n].head = Approved
    BY <1>2, <1>4, <1>8
  <2> QED BY <2>1, <2>2, <2>3, <2>4 DEF Numbered
<1> QED BY <1>4, <1>5, <1>6, <1>7, <1>8, <1>9, <1>10

(***************************************************************************)
(* What a step does on GitHub                                              *)
(***************************************************************************)
Comments(n) == own' = [own EXCEPT ![n] = @ + 1] /\ UNCHANGED prs

\* Pull requests move, or the App comments or merges; and the only merge left to
\* arrive later is the one deliver() asks for.
HubStep ==
    /\ branch' \in {Null, Approved, Other}
    /\ foreign' \subseteq Numbers /\ greens' \subseteq Gates /\ late' \subseteq Requests
    /\ \/ PullRequestsMove /\ UNCHANGED own
       \/ \E n \in Numbers : Comments(n)
       \/ \E n \in Numbers : AppMerges(n) /\ UNCHANGED own
    /\ \A n \in Numbers : <<"merge", n>> \in late' =>
            <<"merge", n>> \in late \/ (At("merging") /\ call.pr = n)

\* No step takes anything back.
LEMMA HubKeeps ==
    ASSUME IInv, HubStep
    PROVE  /\ prs' \in [Numbers -> PullRequest \cup {Null}] /\ Numbered'
           /\ own' \in [Numbers -> Nat] /\ \A n \in Numbers : own[n] > 0 => own'[n] > 0
           /\ Landed \subseteq Landed'
           /\ \A n \in Chosen : Exists(n)' /\ \A m \in Merged' : n <= m
           /\ (\A n \in Numbers : ~AppMerges(n)) => Merged' = Merged
<1>1. own \in [Numbers -> Nat] /\ TypeOK /\ Numbered /\ SoundChoice
  BY DEF IInv, TypeOK
<1>2. CASE PullRequestsMove /\ UNCHANGED own
  <2>1. prs' \in [Numbers -> PullRequest \cup {Null}] /\ Numbered'
    BY <1>1, <1>2, MoveOfEach, MoveStaysNumbered
  <2>2. /\ \A n \in Numbers : Exists(n) => Exists(n)'
        /\ Landed \subseteq Landed' /\ Merged' = Merged
    BY <1>1, <1>2, MoveKeeps
  <2>3. \A n \in Chosen : Exists(n)' /\ \A m \in Merged' : n <= m
    BY <1>1, <2>2 DEF SoundChoice, Chosen
  <2> QED BY <1>1, <1>2, <2>1, <2>2, <2>3
<1>3. CASE \E n \in Numbers : Comments(n)
  <2>1. prs' = prs /\ Merged' = Merged /\ Landed' = Landed /\ Numbered'
    <3>1. prs' = prs
      BY <1>3 DEF Comments
    <3> QED BY <1>1, <3>1 DEF Merged, Landed, Matching, Exists, Numbered, Open
  <2>2. own' \in [Numbers -> Nat] /\ \A n \in Numbers : own[n] > 0 => own'[n] > 0
    BY <1>1, <1>3 DEF Comments
  <2>3. \A n \in Chosen : Exists(n)' /\ \A m \in Merged' : n <= m
    BY <1>1, <2>1 DEF SoundChoice, Exists
  <2> QED BY <1>1, <2>1, <2>2, <2>3 DEF TypeOK
<1>4. CASE \E n \in Numbers : AppMerges(n) /\ UNCHANGED own
  <2>1. PICK k \in Numbers : AppMerges(k) /\ UNCHANGED own
    BY <1>4
  <2>2. /\ prs' \in [Numbers -> PullRequest \cup {Null}] /\ Numbered'
        /\ \A n \in Numbers : Exists(n) => Exists(n)' /\ n <= k
        /\ Merged' = {k} /\ Landed' = Landed \cup {k}
    BY <1>1, <2>1, AppMergeOfEach
  <2>3. \A n \in Chosen : Exists(n)' /\ \A m \in Merged' : n <= m
    BY <1>1, <2>2 DEF SoundChoice, Chosen
  <2> QED BY <1>1, <2>1, <2>2, <2>3
<1> QED BY <1>2, <1>3, <1>4 DEF HubStep

\* The rest of a step is sound if its own choice and its own stage are.
LEMMA StepIsSound ==
    ASSUME IInv, HubStep, UNCHANGED policy,
           local' \subseteq Numbers, expired' \in BOOLEAN, call' \in Call,
           task' \in {"reviewed", "waiting", "blocked", "delivered"},
           report' \in Report \cup {Null},
           faults' \in 0..MaxFaults, changes' \in 0..MaxChanges,
           call'.pr \in {call.pr, Null} \/
               (call'.pr \in Numbers /\ Exists(call.pr)' /\ \A m \in Merged' : call'.pr <= m),
           SoundCall', SoundCreation', SoundRecord'
    PROVE  IInv'
<1>1. /\ prs' \in [Numbers -> PullRequest \cup {Null}] /\ Numbered'
      /\ own' \in [Numbers -> Nat] /\ \A n \in Numbers : own[n] > 0 => own'[n] > 0
      /\ \A n \in Chosen : Exists(n)' /\ \A m \in Merged' : n <= m
  BY HubKeeps
<1>2. TypeOK'
  BY <1>1 DEF IInv, TypeOK, HubStep
<1>3. SoundChoice'
  <2>1. ASSUME NEW n \in Chosen'
        PROVE  Exists(n)' /\ \A m \in Merged' : n <= m
    <3>1. n \in Numbers /\ (call'.pr = n \/ <<"merge", n>> \in late') /\ n # Null
      BY ShasAssumption DEF Chosen
    <3>2. CASE n \in Chosen
      BY <1>1, <3>2
    <3>3. CASE n \notin Chosen
      <4>1. call.pr # n /\ <<"merge", n>> \notin late
        BY <3>1, <3>3 DEF Chosen
      <4>2. <<"merge", n>> \notin late'
        BY <3>1, <4>1 DEF HubStep
      <4> QED BY <3>1, <4>1, <4>2
    <3> QED BY <3>2, <3>3
  <2> QED BY <2>1 DEF SoundChoice
<1>4. SoundLate'
  <2>1. ASSUME NEW n \in Numbers, <<"merge", n>> \in late'
        PROVE  own'[n] > 0 /\ policy'.merge
    <3>1. CASE <<"merge", n>> \in late
      BY <1>1, <3>1 DEF IInv, SoundLate
    <3>2. CASE At("merging") /\ call.pr = n
      BY <1>1, <3>2 DEF IInv, SoundCall, AttestedStages, At
    <3> QED BY <2>1, <3>1, <3>2 DEF HubStep
  <2> QED BY <2>1 DEF SoundLate
<1> QED BY <1>1, <1>2, <1>3, <1>4 DEF IInv

\* Nothing happens on GitHub.
LEMMA QuietHub ==
    ASSUME IInv, UNCHANGED hub
    PROVE  HubStep /\ Merged' = Merged /\ Landed' = Landed
<1>1. UNCHANGED prs
  BY DEF hub
<1>2. Merged' = Merged /\ Landed' = Landed
  BY <1>1 DEF Merged, Landed, Matching, Exists
<1>3. HubStep
  BY DEF IInv, TypeOK, hub, HubStep, PullRequestsMove
<1> QED BY <1>2, <1>3

\* The requests are of four kinds.
LEMMA RequestForms ==
    ASSUME NEW r \in Requests
    PROVE  \/ r = <<"push", 0>> \/ r = <<"create", 0>>
           \/ \E n \in Numbers : r = <<"comment", n>> \/ r = <<"merge", n>>
  BY DEF Requests

\* A merge that GitHub is asked for is one that deliver() has chosen, attested and
\* has the authority to.
Meant(r) ==
    \A n \in Numbers : r = <<"merge", n>> => n \in Chosen /\ own[n] > 0 /\ policy.merge

\* GitHub acts upon a request.
LEMMA EffectIsHubStep ==
    ASSUME IInv, NEW r \in Requests, Accepts(r), Effect(r), Meant(r), late' \subseteq late
    PROVE  HubStep
<1>1. /\ foreign' \subseteq Numbers /\ greens' \subseteq Gates /\ late' \subseteq Requests
      /\ branch \in {Null, Approved, Other}
  BY DEF IInv, TypeOK, Effect
<1>2. \A n \in Numbers : <<"merge", n>> \in late' => <<"merge", n>> \in late
  OBVIOUS
<1>3. CASE r = <<"push", 0>>
  <2>1. branch' = Approved /\ UNCHANGED <<prs, own>>
    BY <1>3 DEF Effect
  <2> QED BY <1>1, <1>2, <2>1 DEF HubStep, PullRequestsMove
<1>4. CASE r = <<"create", 0>>
  <2>1. (\E n \in Fresh : prs' = Opened(n)) /\ UNCHANGED <<branch, own>>
    BY <1>4 DEF Effect
  <2>2. branch # Null /\ ~\E n \in Numbers : Open(n)
    BY <1>4 DEF Accepts
  <2> QED BY <1>1, <1>2, <2>1, <2>2 DEF HubStep, PullRequestsMove
<1>5. CASE \E n \in Numbers : r = <<"comment", n>>
  <2>1. PICK n \in Numbers : r = <<"comment", n>>
    BY <1>5
  <2>2. own' = [own EXCEPT ![n] = @ + 1] /\ UNCHANGED <<branch, prs>>
    BY <2>1 DEF Effect
  <2>3. Comments(n)
    BY <2>2 DEF Comments
  <2> QED BY <1>1, <1>2, <2>2, <2>3 DEF HubStep
<1>6. CASE \E n \in Numbers : r = <<"merge", n>>
  <2>1. PICK n \in Numbers : r = <<"merge", n>>
    BY <1>6
  <2>2. prs' = Closed(n, "app") /\ UNCHANGED <<branch, own>>
    BY <2>1 DEF Effect
  <2>3. Open(n) /\ prs[n].head = Approved
    BY <2>1 DEF Accepts
  <2>4. AppMerges(n)
    BY <2>1, <2>2, <2>3 DEF AppMerges, Meant
  <2> QED BY <1>1, <1>2, <2>2, <2>4 DEF HubStep
<1> QED BY <1>3, <1>4, <1>5, <1>6, RequestForms

\* Without a merge request the App merges nothing.
LEMMA OnlyMergeMerges ==
    ASSUME IInv, NEW r \in Requests, Accepts(r), Effect(r), \A n \in Numbers : r # <<"merge", n>>
    PROVE  Merged' = Merged
<1>1. TypeOK /\ Numbered
  BY DEF IInv
<1>2. PullRequestsMove
  <2>1. branch \in {Null, Approved, Other}
    BY DEF IInv, TypeOK
  <2>2. CASE r = <<"create", 0>>
    <3>1. \E n \in Fresh : prs' = Opened(n)
      BY <2>2 DEF Effect
    <3>2. branch # Null /\ ~\E n \in Numbers : Open(n)
      BY <2>2 DEF Accepts
    <3> QED BY <2>1, <3>1, <3>2 DEF PullRequestsMove
  <2>3. CASE r # <<"create", 0>>
    <3>1. UNCHANGED prs
      BY <2>3, RequestForms DEF Effect
    <3> QED BY <3>1 DEF PullRequestsMove
  <2> QED BY <2>2, <2>3
<1> QED BY <1>1, <1>2, MoveKeeps

\* The request of the stage deliver() is in.
LEMMA RequestOfStage ==
    ASSUME IInv, call.stage \in Writing
    PROVE  /\ At("pushing") => Request = <<"push", 0>>
           /\ At("creating") => Request = <<"create", 0>>
           /\ At("commenting") => Request = <<"comment", call.pr>> /\ call.pr \in Numbers
           /\ At("merging") => Request = <<"merge", call.pr>> /\ call.pr \in Numbers
           /\ Request \in Requests /\ Meant(Request)
           /\ \A n \in Numbers : Request = <<"merge", n>> => At("merging") /\ call.pr = n
<1>1. call.stage \in {"pushing", "creating", "commenting", "merging"}
  BY DEF Writing
<1>2. At("commenting") \/ At("merging") => call.pr \in Numbers
  BY DEF IInv, TypeOK, Call, SoundCall, AttestedStages, Attesting, At
<1>3. /\ At("pushing") => Request = <<"push", 0>>
      /\ At("creating") => Request = <<"create", 0>>
      /\ At("commenting") => Request = <<"comment", call.pr>>
      /\ At("merging") => Request = <<"merge", call.pr>>
  BY DEF Request, At
<1>4. Request \in Requests
  BY <1>1, <1>2, <1>3 DEF Requests, At
<1>5. \A n \in Numbers : Request = <<"merge", n>> => At("merging") /\ call.pr = n
  BY <1>1, <1>3 DEF At
<1>6. At("merging") => own[call.pr] > 0 /\ policy.merge
  BY DEF IInv, SoundCall, AttestedStages, At
<1>7. Meant(Request)
  BY <1>5, <1>6 DEF Meant, Chosen
<1> QED BY <1>2, <1>3, <1>4, <1>5, <1>7

\* A request whose answer is lost.
LEMMA LostIsHubStep ==
    ASSUME IInv, call.stage \in Writing, Lost(Request)
    PROVE  HubStep /\ (~At("merging") => Merged' = Merged)
<1>1. CASE UNCHANGED hub
  BY <1>1, QuietHub
<1>2. CASE Accepts(Request) /\ Effect(Request) /\ UNCHANGED late
  BY <1>2, RequestOfStage, EffectIsHubStep, OnlyMergeMerges
<1>3. CASE /\ late' = late \cup {Request}
           /\ UNCHANGED <<branch, prs, own, foreign, greens>>
  <2>1. late' \subseteq Requests
    BY <1>3, RequestOfStage DEF IInv, TypeOK
  <2>2. \A n \in Numbers : <<"merge", n>> \in late' =>
            <<"merge", n>> \in late \/ (At("merging") /\ call.pr = n)
    BY <1>3, RequestOfStage
  <2>3. HubStep
    BY <1>3, <2>1, <2>2 DEF IInv, TypeOK, HubStep, PullRequestsMove
  <2>4. Merged' = Merged
    BY <1>3 DEF Merged, Exists
  <2> QED BY <2>3, <2>4
<1> QED BY <1>1, <1>2, <1>3 DEF Lost

(***************************************************************************)
(* What a step does to deliver() and to the Task                           *)
(***************************************************************************)
\* The running call, but for its stage.
SameButStage ==
    /\ call'.head = call.head /\ call'.pr = call.pr /\ call'.then = call.then
    /\ call'.miss = call.miss /\ call'.outcome = call.outcome

\* The fields of the call after it has moved.
LEMMA CallFields ==
    ASSUME call \in Call
    PROVE  /\ \A stage \in Stages :
                Goto(stage) => call' \in Call /\ call'.stage = stage /\ SameButStage
           /\ \A outcome \in Outcomes :
                Return(outcome) =>
                    /\ call' \in Call /\ call'.stage = "returned"
                    /\ call'.outcome = outcome /\ call'.pr = call.pr
           /\ \A n \in Numbers, miss \in {"quarantined", "transient", "definite"} :
                Probe(n, miss) =>
                    call' \in Call /\ call'.stage = "probing" /\ call'.pr = n
           /\ \A n \in Numbers, then \in {"deliver", "merge", "recover"} :
                Attest(n, then) =>
                    /\ call' \in Call /\ call'.stage = "attesting"
                    /\ call'.pr = n /\ call'.then = then
<1>1. ASSUME NEW stage \in Stages, Goto(stage)
      PROVE  call' \in Call /\ call'.stage = stage /\ SameButStage
  BY <1>1 DEF Goto, Call, SameButStage
<1>2. ASSUME NEW outcome \in Outcomes, Return(outcome)
      PROVE  /\ call' \in Call /\ call'.stage = "returned"
             /\ call'.outcome = outcome /\ call'.pr = call.pr
  BY <1>2 DEF Return, Call, Stages
<1>3. ASSUME NEW n \in Numbers, NEW miss \in {"quarantined", "transient", "definite"},
             Probe(n, miss)
      PROVE  call' \in Call /\ call'.stage = "probing" /\ call'.pr = n
  BY <1>3 DEF Probe, Call, Stages
<1>4. ASSUME NEW n \in Numbers, NEW then \in {"deliver", "merge", "recover"}, Attest(n, then)
      PROVE  /\ call' \in Call /\ call'.stage = "attesting"
             /\ call'.pr = n /\ call'.then = then
  BY <1>4 DEF Attest, Call, Stages
<1> QED BY <1>1, <1>2, <1>3, <1>4

\* The frame of a step that leaves the Task alone.
Frame ==
    /\ UNCHANGED <<policy, task, report>>
    /\ local \subseteq local' /\ local' \subseteq Numbers /\ expired' \in BOOLEAN
    /\ faults' \in 0..MaxFaults /\ changes' \in 0..MaxChanges

\* What is recorded stays real.
LEMMA RecordKeeps ==
    ASSUME IInv, HubStep, UNCHANGED <<policy, report>>, local \subseteq local'
    PROVE  ReportedEffectIsReal'
<1>1. CASE report = Null
  BY <1>1 DEF ReportedEffectIsReal
<1>2. CASE report # Null
  <2>1. report \in Report
    BY <1>2 DEF IInv, TypeOK
  <2>2. report.pr \in Numbers /\ report' = report /\ policy' = policy
    BY <2>1 DEF Report
  <2>3. /\ \A n \in Numbers : own[n] > 0 => own'[n] > 0
        /\ Landed \subseteq Landed'
    BY HubKeeps
  <2>4. /\ own[report.pr] > 0 /\ report.merged = policy.merge
        /\ report.merged => report.pr \in Landed \cap local
    BY <1>2 DEF IInv, SoundRecord, ReportedEffectIsReal
  <2>5. /\ own'[report'.pr] > 0 /\ report'.merged = policy'.merge
        /\ report'.merged => report'.pr \in Landed' \cap local'
    BY <2>2, <2>3, <2>4
  <2> QED BY <2>5 DEF ReportedEffectIsReal
<1> QED BY <1>1, <1>2

\* A step of deliver() that keeps its own promises keeps all.
LEMMA CallStep ==
    ASSUME IInv, HubStep, Frame, call' \in Call,
           call'.pr \in {call.pr, Null} \/
               (call'.pr \in Numbers /\ Exists(call.pr)' /\ \A m \in Merged' : call'.pr <= m),
           SoundCall', SoundCreation'
    PROVE  IInv'
<1>1. SoundRecord'
  <2>1. ReportedEffectIsReal'
    BY RecordKeeps DEF Frame
  <2>2. report # Null <=> task = "delivered"
    BY DEF IInv, SoundRecord
  <2> QED BY <2>1, <2>2 DEF SoundRecord, Frame
<1>2. task' \in {"reviewed", "waiting", "blocked", "delivered"} /\ report' \in Report \cup {Null}
  BY DEF IInv, TypeOK, Frame
<1> QED BY <1>1, <1>2, StepIsSound DEF Frame

\* deliver() starts over, waits, or ends without an effect.
LEMMA Harmless ==
    ASSUME IInv, HubStep, Frame, call' \in Call, call'.pr \in {call.pr, Null},
           call'.stage \in {"idle", "authenticating", "reading", "listing", "sleeping", "returned"},
           call'.stage = "returned" => call'.outcome \notin {"delivered", "merged"},
           call'.stage # "idle" => task = "reviewed"
    PROVE  IInv'
<1>1. SoundCall'
  BY DEF SoundCall, Frame, At, AttestedStages, Attesting, Fulfilled
<1>2. SoundCreation'
  BY DEF SoundCreation, At
<1> QED BY <1>1, <1>2, CallStep

\* While a pull request is about to be created, the App merges none.
LEMMA CreationKeeps ==
    ASSUME IInv, HubStep, At("creating") \/ (At("pushing") /\ call.pr = Null)
    PROVE  /\ call.pr = Null /\ Merged' = {}
           /\ \A n \in Numbers : <<"merge", n>> \notin late'
<1>1. /\ call.pr = Null /\ Merged = {} /\ ~At("merging")
      /\ \A n \in Numbers : <<"merge", n>> \notin late
  BY DEF IInv, SoundCreation, At
<1>2. \A n \in Numbers : ~AppMerges(n)
  BY <1>1, ShasAssumption DEF AppMerges, Chosen
<1> QED BY <1>1, <1>2, HubKeeps DEF HubStep

\* Whatever happens on GitHub, a call that stays where it is stays sound.
LEMMA CallWaits ==
    ASSUME IInv, HubStep, Frame, UNCHANGED call
    PROVE  IInv'
<1>1. /\ \A n \in Numbers : own[n] > 0 => own'[n] > 0
      /\ Landed \subseteq Landed' /\ Merged' \subseteq Numbers
  BY HubKeeps DEF Merged
<1>2. call \in Call /\ call.pr \in Numbers \cup {Null}
  BY DEF IInv, TypeOK, Call
<1>3. SoundCall'
  <2>1. SoundCall
    BY DEF IInv
  <2>2. UNCHANGED <<call, policy, task>> /\ local \subseteq local'
    BY DEF Frame
  <2> QED BY <1>1, <1>2, <2>1, <2>2
        DEF SoundCall, At, AttestedStages, Attesting, Fulfilled
<1>4. SoundCreation'
  BY CreationKeeps DEF SoundCreation, At
<1> QED BY <1>2, <1>3, <1>4, CallStep

(***************************************************************************)
(* The steps of deliver()                                                  *)
(***************************************************************************)
\* A step that only reads.
LEMMA ReadsAreQuiet ==
    ASSUME IInv, Reads
    PROVE  HubStep /\ Frame /\ Merged' = Merged /\ Landed' = Landed /\ UNCHANGED <<prs, own>>
<1>1. UNCHANGED hub
  BY DEF Reads
<1> QED BY <1>1, QuietHub DEF IInv, TypeOK, Reads, Frame, durable, hub

\* A running call is for a reviewed Task.
LEMMA RunningIsReviewed ==
    ASSUME IInv
    PROVE  call \in Call /\ (~At("idle") => task = "reviewed")
  BY DEF IInv, TypeOK, SoundCall

\* deliver() ends without an effect.
LEMMA GivesUp ==
    ASSUME IInv, HubStep, Frame, ~At("idle"),
           Quarantine \/ Return("failed") \/ Return("pending")
    PROVE  IInv'
<1>1. call \in Call /\ task = "reviewed"
  BY RunningIsReviewed
<1>2. PICK outcome \in {"quarantined", "failed", "pending"} : Return(outcome)
  BY DEF Quarantine
<1>3. /\ call' \in Call /\ call'.stage = "returned"
      /\ call'.outcome = outcome /\ call'.pr = call.pr
  BY <1>1, <1>2, CallFields DEF Outcomes
<1> QED BY <1>1, <1>3, Harmless

\* An error is thrown into deliver()'s retry.
LEMMA ThrowIsSound ==
    ASSUME IInv, HubStep, Frame, ~At("idle"), NEW fault, Throw(fault)
    PROVE  IInv'
<1>1. CASE Return("failed")
  BY <1>1, GivesUp
<1>2. CASE Goto("sleeping")
  <2>1. call' \in Call /\ call'.stage = "sleeping" /\ call'.pr = call.pr
    BY <1>2, RunningIsReviewed, CallFields DEF Stages, SameButStage
  <2> QED BY <2>1, RunningIsReviewed, Harmless
<1> QED BY <1>1, <1>2 DEF Throw

\* Start, the client, the branch, and the wait between two attempts.
LEMMA PreludeIsSound ==
    ASSUME IInv, Start \/ Authenticate \/ GetRef \/ Sleep
    PROVE  IInv'
<1>1. Reads
  BY DEF Start, Authenticate, GetRef, Sleep
<1>2. call \in Call /\ branch \in {Null, Approved, Other} /\ (~At("idle") => task = "reviewed")
  BY DEF IInv, TypeOK, SoundCall
<1>3. CASE Start
  <2>1. call' = [IdleCall EXCEPT !.stage = "authenticating"] /\ task = "reviewed"
    BY <1>3 DEF Start
  <2>2. call' \in Call /\ call'.stage = "authenticating" /\ call'.pr = Null
    BY <2>1 DEF IdleCall, Call, Stages
  <2> QED BY <1>1, <2>1, <2>2, ReadsAreQuiet, Harmless
<1>4. CASE Authenticate
  <2>1. Goto("reading") /\ task = "reviewed"
    BY <1>2, <1>4 DEF Authenticate, At
  <2>2. call' \in Call /\ call'.stage = "reading" /\ call'.pr = call.pr
    BY <1>2, <2>1, CallFields DEF Stages, SameButStage
  <2> QED BY <1>1, <2>1, <2>2, ReadsAreQuiet, Harmless
<1>5. CASE GetRef
  <2>1. call' = [call EXCEPT !.stage = "listing", !.head = branch] /\ task = "reviewed"
    BY <1>2, <1>5 DEF GetRef, At
  <2>2. call' \in Call /\ call'.stage = "listing" /\ call'.pr = call.pr
    BY <1>2, <2>1 DEF Call, Stages
  <2> QED BY <1>1, <2>1, <2>2, ReadsAreQuiet, Harmless
<1>6. CASE Sleep
  <2>1. Goto("authenticating") /\ task = "reviewed"
    BY <1>2, <1>6 DEF Sleep, At
  <2>2. call' \in Call /\ call'.stage = "authenticating" /\ call'.pr = call.pr
    BY <1>2, <2>1, CallFields DEF Stages, SameButStage
  <2> QED BY <1>1, <2>1, <2>2, ReadsAreQuiet, Harmless
<1> QED BY <1>3, <1>4, <1>5, <1>6

\* At most one pull request with the approved head: the one that is chosen.
LEMMA Unambiguous ==
    ASSUME ~Ambiguous
    PROVE  /\ Existing # Null => Existing \in Matching
           /\ \A n \in Matching : n = Existing
<1>1. IsFiniteSet(Matching)
  <2>1. Matching \subseteq Numbers
    BY DEF Matching
  <2> QED BY <2>1, NumbersAssumption, FS_Subset
<1>2. ASSUME NEW m \in Matching, NEW n \in Matching, m # n
      PROVE  FALSE
  <2>1. /\ IsFiniteSet({m}) /\ Cardinality({m}) = 1
    BY FS_Singleton
  <2>2. Cardinality({m} \cup {n}) = 2
    BY <1>2, <2>1, FS_AddElement
  <2>3. Cardinality({m} \cup {n}) <= Cardinality(Matching)
    BY <1>1, <1>2, FS_Subset
  <2>4. Cardinality(Matching) \in Nat
    BY <1>1, FS_CardinalityType
  <2> QED BY <2>2, <2>3, <2>4 DEF Ambiguous
<1>3. ASSUME NEW n \in Matching
      PROVE  n = Existing
  <2>1. n \in Nat
    BY NumbersAssumption DEF Matching
  <2>2. \A m \in Matching : m <= n
    BY <1>2, <1>3, <2>1
  <2>3. Existing = CHOOSE k \in Matching : \A m \in Matching : m <= k
    BY DEF Existing
  <2>4. Existing \in Matching
    BY <2>2, <2>3
  <2> QED BY <1>2, <2>4
<1>4. Matching = {} => Existing = Null
  BY DEF Existing
<1> QED BY <1>3, <1>4

\* The pull request the list leads to is none but the one the App may have merged.
LEMMA ListPullsIsSound ==
    ASSUME IInv, ListPulls
    PROVE  IInv'
<1>1. /\ HubStep /\ Frame /\ Merged' = Merged /\ Landed' = Landed /\ UNCHANGED <<prs, own>>
      /\ call \in Call /\ task = "reviewed" /\ ~At("idle") /\ UNCHANGED hub
  BY ReadsAreQuiet, RunningIsReviewed DEF ListPulls, At, Reads
<1>2. CASE Quarantine
  BY <1>1, <1>2, GivesUp
<1>3. ASSUME ~Ambiguous, Existing # Null
      PROVE  /\ Existing \in Numbers /\ Existing \in Matching /\ Exists(Existing)
             /\ \A m \in Merged : Existing <= m
  <2>1. /\ Existing \in Matching /\ \A n \in Matching : n = Existing
    BY <1>3, Unambiguous
  <2>2. Existing \in Numbers /\ Exists(Existing) /\ Existing \in Nat
    BY <2>1, NumbersAssumption DEF Matching
  <2>3. \A m \in Merged : m \in Matching
    BY DEF IInv, Numbered, Merged, Matching
  <2>4. Existing <= Existing
    BY <2>2
  <2> QED BY <2>1, <2>2, <2>3, <2>4
<1>4. CASE ~Ambiguous /\ Existing # Null /\ policy.merge /\ Probe(Existing, "quarantined")
  <2>1. call' \in Call /\ call'.stage = "probing" /\ call'.pr = Existing
    BY <1>1, <1>3, <1>4, CallFields
  <2>2. call'.pr \in Numbers /\ call'.pr # Null
    BY <1>3, <1>4, <2>1
  <2>3. Exists(call.pr)' /\ \A m \in Merged' : call'.pr <= m
    BY <1>1, <1>3, <1>4, <2>1 DEF Exists
  <2>4. SoundCall'
    BY <1>1, <1>4, <2>1, <2>2 DEF Frame, SoundCall, At, AttestedStages, Attesting, Fulfilled
  <2>5. SoundCreation'
    BY <2>1 DEF SoundCreation, At
  <2> QED BY <1>1, <2>1, <2>2, <2>3, <2>4, <2>5, CallStep
<1>5. CASE /\ ~Ambiguous /\ Usable
           /\ call' = [call EXCEPT !.pr = Existing, !.then = "deliver",
                         !.stage = IF call.head = Null THEN "pushing"
                                   ELSE IF Existing = Null THEN "creating" ELSE "attesting"]
  <2>1. Existing \in Numbers \cup {Null}
    BY <1>3, <1>5
  <2>2. /\ call' \in Call /\ call'.pr = Existing /\ call'.then = "deliver"
        /\ call'.stage \in {"pushing", "creating", "attesting"}
        /\ call'.stage = "creating" => Existing = Null
        /\ call'.stage = "attesting" => Existing # Null
    BY <1>1, <1>5, <2>1 DEF Call, Stages
  <2>3. call'.pr = Null \/
            (call'.pr \in Numbers /\ Exists(call.pr)' /\ \A m \in Merged' : call'.pr <= m)
    BY <1>1, <1>3, <1>5, <2>2 DEF Exists
  <2>4. SoundCall'
    BY <1>1, <2>2 DEF Frame, SoundCall, At, AttestedStages, Attesting, Fulfilled
  <2>5. SoundCreation'
    <3>1. CASE Existing = Null
      <4>1. \A n \in Numbers : ~Exists(n)
        BY <1>5, <3>1 DEF Usable
      <4>2. Merged' = {}
        BY <1>1, <4>1 DEF Merged
      <4>3. \A n \in Numbers : <<"merge", n>> \notin late'
        BY <1>1, <4>1 DEF IInv, SoundChoice, Chosen, hub
      <4> QED BY <2>2, <3>1, <4>2, <4>3 DEF SoundCreation
    <3>2. CASE Existing # Null
      BY <2>2, <3>2 DEF SoundCreation, At
    <3> QED BY <3>1, <3>2
  <2> QED BY <1>1, <2>2, <2>3, <2>4, <2>5, CallStep
<1> QED BY <1>2, <1>4, <1>5 DEF ListPulls

\* deliver() goes on with the pull request it has.
LEMMA GoesOn ==
    ASSUME IInv, HubStep, Frame, call' \in Call, call'.pr = call.pr,
           call'.stage \notin {"creating", "pushing"}, SoundCall'
    PROVE  IInv'
<1>1. SoundCreation'
  BY DEF SoundCreation, At
<1> QED BY <1>1, CallStep

\* What follows the attestation that was asked for.
LEMMA AfterAttestationIsSound ==
    ASSUME IInv, HubStep, Frame, call.stage \in Attesting, own'[call.pr] > 0, AfterAttestation
    PROVE  IInv'
<1>1. call \in Call /\ task = "reviewed" /\ ~At("idle") /\ call.pr # Null
  BY RunningIsReviewed DEF IInv, SoundCall, Attesting, At
<1>2. Landed \subseteq Landed' /\ policy' = policy /\ task' = task
  BY HubKeeps DEF Frame
<1>3. /\ call.then # "deliver" => policy.merge
      /\ call.then = "recover" => call.pr \in Landed
  BY DEF IInv, SoundCall
<1>4. CASE call.then = "deliver" /\ policy.merge /\ Goto("live")
  <2>1. call' \in Call /\ call'.stage = "live" /\ call'.pr = call.pr
    BY <1>1, <1>4, CallFields DEF Stages, SameButStage
  <2>2. SoundCall'
    BY <1>1, <1>2, <1>4, <2>1 DEF SoundCall, At, AttestedStages, Attesting, Fulfilled
  <2> QED BY <2>1, <2>2, GoesOn
<1>5. CASE call.then = "deliver" /\ ~policy.merge /\ Return("delivered")
  <2>1. /\ call' \in Call /\ call'.stage = "returned" /\ call'.outcome = "delivered"
        /\ call'.pr = call.pr
    BY <1>1, <1>5, CallFields DEF Outcomes
  <2>2. policy.merge = FALSE
    BY <1>5, PoliciesAssumption DEF IInv, TypeOK, Policy
  <2>3. SoundCall'
    BY <1>1, <1>2, <2>1, <2>2 DEF SoundCall, At, AttestedStages, Attesting, Fulfilled
  <2> QED BY <2>1, <2>3, GoesOn
<1>6. CASE call.then = "merge" /\ Goto("reviews")
  <2>1. call' \in Call /\ call'.stage = "reviews" /\ call'.pr = call.pr
    BY <1>1, <1>6, CallFields DEF Stages, SameButStage
  <2>2. SoundCall'
    BY <1>1, <1>2, <1>3, <1>6, <2>1 DEF SoundCall, At, AttestedStages, Attesting, Fulfilled
  <2> QED BY <2>1, <2>2, GoesOn
<1>7. CASE call.then = "recover" /\ Goto("materializing")
  <2>1. call' \in Call /\ call'.stage = "materializing" /\ call'.pr = call.pr
    BY <1>1, <1>7, CallFields DEF Stages, SameButStage
  <2>2. SoundCall'
    BY <1>1, <1>2, <1>3, <1>7, <2>1 DEF SoundCall, At, AttestedStages, Attesting, Fulfilled
  <2> QED BY <2>1, <2>2, GoesOn
<1> QED BY <1>4, <1>5, <1>6, <1>7 DEF AfterAttestation

\* The one marked comment is the App's own.
LEMMA ListCommentsIsSound ==
    ASSUME IInv, ListComments
    PROVE  IInv'
<1>1. /\ HubStep /\ Frame /\ Landed' = Landed /\ UNCHANGED <<prs, own>>
      /\ At("attesting") /\ ~At("idle") /\ call.stage \in Attesting
      /\ call \in Call /\ task = "reviewed" /\ call.pr \in Numbers
  BY ReadsAreQuiet, RunningIsReviewed
  DEF ListComments, At, Attesting, IInv, SoundCall, Call
<1>2. CASE Quarantine
  BY <1>1, <1>2, GivesUp
<1>3. CASE Marked(call.pr) = 1 /\ call.pr \notin foreign /\ AfterAttestation
  <2>1. own[call.pr] \in Nat
    BY <1>1 DEF IInv, TypeOK
  <2>2. own[call.pr] = 1
    BY <1>3, <2>1 DEF Marked
  <2>3. own'[call.pr] > 0
    BY <1>1, <2>2
  <2> QED BY <1>1, <1>3, <2>3, AfterAttestationIsSound
<1>4. CASE Goto("commenting")
  <2>1. call' \in Call /\ call'.stage = "commenting" /\ SameButStage
    BY <1>1, <1>4, CallFields DEF Stages
  <2>2. SoundCall'
    BY <1>1, <2>1
    DEF IInv, Frame, SameButStage, SoundCall, At, AttestedStages, Attesting, Fulfilled
  <2> QED BY <1>1, <2>1, <2>2, GoesOn DEF SameButStage
<1> QED BY <1>2, <1>3, <1>4 DEF ListComments

\* With authority, a chosen pull request is probed.
LEMMA ProbeIsSound ==
    ASSUME IInv, HubStep, Frame, ~At("idle"), policy.merge, call.pr \in Numbers,
           NEW miss \in {"quarantined", "transient", "definite"}, Probe(call.pr, miss)
    PROVE  IInv'
<1>1. call' \in Call /\ call'.stage = "probing" /\ call'.pr = call.pr /\ task = "reviewed"
  BY RunningIsReviewed, CallFields
<1>2. SoundCall'
  BY <1>1, ShasAssumption
  DEF Frame, SoundCall, At, AttestedStages, Attesting, Fulfilled
<1> QED BY <1>1, <1>2, GoesOn

\* With authority, a chosen pull request is attested; to recover one, it has landed.
LEMMA AttestIsSound ==
    ASSUME IInv, HubStep, Frame, ~At("idle"), call.pr \in Numbers,
           NEW then \in {"deliver", "merge", "recover"}, Attest(call.pr, then),
           then # "deliver" => policy.merge,
           then = "recover" => call.pr \in Landed
    PROVE  IInv'
<1>1. /\ call' \in Call /\ call'.stage = "attesting" /\ call'.pr = call.pr
      /\ call'.then = then /\ task = "reviewed"
  BY RunningIsReviewed, CallFields
<1>2. Landed \subseteq Landed'
  BY HubKeeps
<1>3. SoundCall'
  BY <1>1, <1>2, ShasAssumption
  DEF Frame, SoundCall, At, AttestedStages, Attesting, Fulfilled
<1> QED BY <1>1, <1>3, GoesOn

\* What is known in a stage that only authority leads to.
LEMMA AuthorizedStage ==
    ASSUME IInv, call.stage \in AttestedStages \cup {"probing"}
    PROVE  /\ policy.merge /\ call.pr \in Numbers /\ call \in Call
           /\ task = "reviewed" /\ ~At("idle")
           /\ ~At("probing") => own[call.pr] > 0
  BY DEF IInv, TypeOK, SoundCall, AttestedStages, At, Call

\* The live pull request is attested again before it is merged.
LEMMA GetLivePullIsSound ==
    ASSUME IInv, GetLivePull
    PROVE  IInv'
<1>1. /\ HubStep /\ Frame /\ policy.merge /\ call.pr \in Numbers /\ ~At("idle")
  BY ReadsAreQuiet, AuthorizedStage DEF GetLivePull, At, AttestedStages
<1>2. CASE Probe(call.pr, "quarantined")
  BY <1>1, <1>2, ProbeIsSound
<1>3. CASE Attest(call.pr, "merge")
  BY <1>1, <1>3, AttestIsSound
<1>4. CASE Quarantine
  BY <1>1, <1>4, GivesUp
<1> QED BY <1>2, <1>3, <1>4 DEF GetLivePull

\* The gates.
LEMMA GatesAreSound ==
    ASSUME IInv, ReviewGate \/ PipelineGate
    PROVE  IInv'
<1>1. Reads /\ call.stage \in {"reviews", "checks"}
  BY DEF ReviewGate, PipelineGate, At
<1>2. /\ HubStep /\ Frame /\ policy.merge /\ call.pr \in Numbers /\ ~At("idle")
      /\ call \in Call /\ task = "reviewed" /\ own[call.pr] > 0 /\ UNCHANGED own
  BY <1>1, ReadsAreQuiet, AuthorizedStage DEF At, AttestedStages
<1>3. CASE Return("pending")
  BY <1>2, <1>3, GivesUp
<1>4. ASSUME NEW stage \in {"checks", "merging"}, Goto(stage)
      PROVE  IInv'
  <2>1. call' \in Call /\ call'.stage = stage /\ call'.pr = call.pr
    BY <1>2, <1>4, CallFields DEF Stages, SameButStage
  <2>2. SoundCall'
    BY <1>2, <2>1, ShasAssumption
    DEF Frame, SoundCall, At, AttestedStages, Attesting, Fulfilled
  <2> QED BY <1>2, <2>1, <2>2, GoesOn
<1> QED BY <1>3, <1>4 DEF ReviewGate, PipelineGate

\* A merge that is found has landed with the approved head.
LEMMA ProbeMergedIsSound ==
    ASSUME IInv, ProbeMerged
    PROVE  IInv'
<1>1. /\ HubStep /\ Frame /\ policy.merge /\ call.pr \in Numbers /\ ~At("idle")
  BY ReadsAreQuiet, AuthorizedStage DEF ProbeMerged, At
<1>2. CASE MergedEffect(call.pr) /\ Attest(call.pr, "recover")
  <2>1. call.pr \in Landed
    BY <1>1, <1>2 DEF MergedEffect, Landed, Matching
  <2> QED BY <1>1, <1>2, <2>1, AttestIsSound
<1>3. CASE Quarantine
  BY <1>1, <1>3, GivesUp
<1>4. CASE Throw(call.miss)
  BY <1>1, <1>4, ThrowIsSound
<1> QED BY <1>2, <1>3, <1>4 DEF ProbeMerged

\* The merge commit is fetched before the merge is returned.
LEMMA MaterializeIsSound ==
    ASSUME IInv, Materialize
    PROVE  IInv'
<1>1. /\ policy.merge /\ call.pr \in Numbers /\ call \in Call
      /\ task = "reviewed" /\ own[call.pr] > 0
      /\ call.pr \in Landed
  BY AuthorizedStage DEF Materialize, At, AttestedStages, IInv, SoundCall
<1>2. HubStep /\ Landed' = Landed /\ UNCHANGED own
  BY QuietHub DEF Materialize, hub
<1>3. local' = local \cup {call.pr} /\ Frame
  BY <1>1 DEF Materialize, Frame, durable, IInv, TypeOK
<1>4. /\ call' \in Call /\ call'.stage = "returned" /\ call'.outcome = "merged"
      /\ call'.pr = call.pr
  BY <1>1, CallFields DEF Materialize, Outcomes
<1>5. policy.merge = TRUE
  BY <1>1, PoliciesAssumption DEF IInv, TypeOK, Policy
<1>6. SoundCall'
  BY <1>1, <1>2, <1>3, <1>4, <1>5, ShasAssumption
  DEF Frame, SoundCall, At, AttestedStages, Attesting, Fulfilled
<1> QED BY <1>2, <1>3, <1>4, <1>6, GoesOn

(***************************************************************************)
(* Writes and failures                                                     *)
(***************************************************************************)
\* A write leaves the Task alone.
LEMMA WriteFrame ==
    ASSUME IInv, UNCHANGED <<policy, local, expired, durable, changes>>,
           faults' \in 0..MaxFaults
    PROVE  Frame
  BY DEF IInv, TypeOK, Frame, durable

\* GitHub does what it is asked for.
LEMMA AcceptedIsSound ==
    ASSUME IInv, call.stage \in Writing, Accepts(Request), Effect(Request), UNCHANGED late,
           Accepted, Frame
    PROVE  IInv'
<1>1. /\ HubStep /\ ~At("idle") /\ call \in Call /\ task = "reviewed"
      /\ call.pr \in Numbers \cup {Null}
  BY RequestOfStage, EffectIsHubStep, RunningIsReviewed DEF Writing, At, Call
<1>2. CASE At("pushing") /\ call.pr = Null /\ Goto("creating")
  <2>1. call' \in Call /\ call'.stage = "creating" /\ call'.pr = Null
    BY <1>1, <1>2, CallFields DEF Stages, SameButStage
  <2>2. SoundCreation'
    BY <1>1, <1>2, <2>1, CreationKeeps DEF SoundCreation
  <2>3. SoundCall'
    BY <1>1, <2>1 DEF Frame, SoundCall, At, AttestedStages, Attesting, Fulfilled
  <2> QED BY <1>1, <2>1, <2>2, <2>3, CallStep
<1>3. CASE At("pushing") /\ call.pr # Null /\ Attest(call.pr, "deliver")
  BY <1>1, <1>3, AttestIsSound
<1>4. CASE At("creating") /\ \E n \in Fresh : Attest(n, "deliver")
  <2>1. PICK n \in Fresh : Attest(n, "deliver")
    BY <1>4
  <2>2. n \in Numbers /\ n # Null
    BY ShasAssumption DEF Fresh
  <2>3. /\ call' \in Call /\ call'.stage = "attesting" /\ call'.pr = n
        /\ call'.then = "deliver"
    BY <1>1, <2>1, <2>2, CallFields
  <2>4. PICK k \in Fresh : prs' = Opened(k)
    BY <1>4, RequestOfStage DEF Effect
  <2>5. k = n
    <3>1. k \in Numbers /\ ~(k < n) /\ ~(n < k)
      BY <2>2 DEF Fresh
    <3> QED BY <2>2, <3>1, NumbersAssumption
  <2>6. Exists(call.pr)'
    <3>1. [state |-> "open", head |-> branch, merger |-> Null] # Null
      <4>1. branch \in {Approved, Other}
        BY <1>4, RequestOfStage DEF Accepts, IInv, TypeOK
      <4>2. [state |-> "open", head |-> branch, merger |-> Null] \in PullRequest
        BY <4>1 DEF PullRequest
      <4> QED BY <4>2, NullAssumption
    <3>2. prs'[n] = [state |-> "open", head |-> branch, merger |-> Null]
      BY <2>2, <2>4, <2>5 DEF Opened, IInv, TypeOK
    <3> QED BY <2>3, <3>1, <3>2 DEF Exists
  <2>7. Merged' = {}
    BY <1>1, <1>4, CreationKeeps
  <2>8. SoundCall'
    BY <1>1, <2>2, <2>3 DEF Frame, SoundCall, At, AttestedStages, Attesting, Fulfilled
  <2>9. SoundCreation'
    BY <2>3 DEF SoundCreation, At
  <2> QED BY <1>1, <2>2, <2>3, <2>6, <2>7, <2>8, <2>9, CallStep
<1>5. CASE Quarantine
  BY <1>1, <1>5, GivesUp
<1>6. CASE At("commenting") /\ AfterAttestation
  <2>1. own' = [own EXCEPT ![call.pr] = @ + 1] /\ call.pr \in Numbers
    BY <1>6, RequestOfStage DEF Effect
  <2>2. own'[call.pr] > 0
    BY <2>1 DEF IInv, TypeOK
  <2> QED BY <1>1, <1>6, <2>2, AfterAttestationIsSound DEF At, Attesting
<1>7. CASE At("merging") /\ Goto("materializing")
  <2>1. call' \in Call /\ call'.stage = "materializing" /\ call'.pr = call.pr
    BY <1>1, <1>7, CallFields DEF Stages, SameButStage
  <2>2. policy.merge /\ own[call.pr] > 0 /\ call.pr \in Numbers
    BY <1>7, AuthorizedStage DEF At, AttestedStages
  <2>3. own'[call.pr] > 0
    BY <1>1, <2>2, HubKeeps
  <2>4. call.pr \in Landed'
    <3>1. Request = <<"merge", call.pr>>
      BY <1>7, RequestOfStage
    <3>2. AppMerges(call.pr)
      BY <2>2, <3>1 DEF AppMerges, Chosen, Accepts, Effect
    <3> QED BY <3>2, AppMergeOfEach DEF IInv
  <2>5. SoundCall'
    BY <1>1, <2>1, <2>2, <2>3, <2>4, ShasAssumption
    DEF Frame, SoundCall, At, AttestedStages, Attesting, Fulfilled
  <2> QED BY <1>1, <2>1, <2>5, GoesOn
<1>8. CASE At("merging") /\ Probe(call.pr, "quarantined")
  BY <1>1, <1>8, AuthorizedStage, ProbeIsSound DEF At, AttestedStages
<1> QED BY <1>2, <1>3, <1>4, <1>5, <1>6, <1>7, <1>8 DEF Accepted

\* A write, granted or refused.
LEMMA WriteIsSound ==
    ASSUME IInv, Write
    PROVE  IInv'
<1>1. Frame /\ ~At("idle")
  BY WriteFrame DEF Write, IInv, TypeOK, At, Writing
<1>2. CASE Accepts(Request) /\ Effect(Request) /\ Accepted /\ UNCHANGED late
  BY <1>1, <1>2, AcceptedIsSound DEF Write
<1>3. CASE Refused /\ UNCHANGED hub
  <2>1. HubStep
    BY <1>3, QuietHub
  <2>2. CASE \E fault : Throw(fault)
    BY <1>1, <2>1, <2>2, ThrowIsSound
  <2>3. CASE Quarantine
    BY <1>1, <2>1, <2>3, GivesUp
  <2>4. CASE At("merging") /\ Probe(call.pr, "quarantined")
    BY <1>1, <2>1, <2>4, AuthorizedStage, ProbeIsSound DEF At, AttestedStages
  <2> QED BY <1>3, <2>2, <2>3, <2>4 DEF Refused
<1> QED BY <1>2, <1>3 DEF Write

\* A request that fails, for a read or a write.
LEMMA RequestFailsIsSound ==
    ASSUME IInv, RequestFails
    PROVE  IInv'
<1>1. Frame
  BY WriteFrame, BoundsAssumption DEF RequestFails, IInv, TypeOK
<1>2. PICK fault \in Faults : ReadFails(fault) \/ WriteFails(fault)
  BY DEF RequestFails
<1>3. CASE ReadFails(fault)
  <2>1. HubStep /\ ~At("idle")
    BY <1>3, QuietHub DEF ReadFails, Reading, At
  <2>2. Return("failed") \/ Return("pending") \/ \E f : Throw(f)
    BY <1>3 DEF ReadFails
  <2> QED BY <1>1, <2>1, <2>2, GivesUp, ThrowIsSound
<1>4. CASE WriteFails(fault)
  <2>1. call.stage \in Writing /\ ~At("idle")
    BY <1>4 DEF WriteFails, Writing, At
  <2>2. HubStep
    BY <1>4, <2>1, QuietHub, LostIsHubStep DEF WriteFails
  <2>3. CASE At("merging")
    <3>1. Probe(call.pr, fault) /\ fault \in {"quarantined", "transient", "definite"}
      BY <1>4, <2>3 DEF WriteFails, Failed
    <3>2. policy.merge /\ call.pr \in Numbers
      BY <2>3, AuthorizedStage DEF At, AttestedStages
    <3> QED BY <1>1, <2>1, <2>2, <3>1, <3>2, ProbeIsSound
  <2>4. CASE ~At("merging")
    BY <1>1, <1>4, <2>1, <2>2, <2>4, ThrowIsSound DEF WriteFails, Failed
  <2> QED BY <2>3, <2>4
<1> QED BY <1>2, <1>3, <1>4

\* The deadline, while deliver() waits and when it notices.
LEMMA DeadlineIsSound ==
    ASSUME IInv, PassDeadline \/ RunOut
    PROVE  IInv'
<1>1. CASE PassDeadline
  <2>1. HubStep /\ Frame /\ UNCHANGED call
    BY <1>1, QuietHub DEF PassDeadline, Frame, durable, IInv, TypeOK
  <2> QED BY <2>1, CallWaits
<1>2. CASE RunOut
  <2>1. Frame /\ ~At("idle")
    BY <1>2, WriteFrame DEF RunOut, At, IInv, TypeOK
  <2>2. HubStep
    BY <1>2, QuietHub, LostIsHubStep DEF RunOut
  <2> QED BY <1>2, <2>1, <2>2, GivesUp DEF RunOut
<1> QED BY <1>1, <1>2

\* A crash leaves no call behind.
LEMMA CrashIsSound ==
    ASSUME IInv, Crash
    PROVE  IInv'
<1>1. Frame
  BY WriteFrame, BoundsAssumption DEF Crash, IInv, TypeOK
<1>2. HubStep
  BY QuietHub, LostIsHubStep DEF Crash
<1>3. call' \in Call /\ call'.stage = "idle" /\ call'.pr = Null
  BY DEF Crash, IdleCall, Call, Stages
<1> QED BY <1>1, <1>2, <1>3, Harmless

(***************************************************************************)
(* Everyone else                                                           *)
(***************************************************************************)
\* Other people move pull requests, but not those they cannot.
LEMMA OtherPeopleOnHub ==
    ASSUME IInv, OtherPeople
    PROVE  HubStep
<1>1. /\ branch \in {Null, Approved, Other} /\ foreign \subseteq Numbers
      /\ greens \subseteq Gates /\ late \subseteq Requests
      /\ UNCHANGED <<own, late>>
  BY DEF IInv, TypeOK, OtherPeople
<1>2. CASE \E sha \in {Approved, Other} :
              branch' = sha /\ prs' = Follow(sha) /\ UNCHANGED <<foreign, greens>>
  BY <1>1, <1>2 DEF HubStep, PullRequestsMove
<1>3. CASE branch' = Null /\ prs' = CloseAll /\ UNCHANGED <<foreign, greens>>
  BY <1>1, <1>3 DEF HubStep, PullRequestsMove
<1>4. CASE /\ Accepts(<<"create", 0>>) /\ \E n \in Fresh : prs' = Opened(n)
           /\ UNCHANGED <<branch, foreign, greens>>
  <2>1. branch # Null /\ ~\E n \in Numbers : Open(n)
    BY <1>4 DEF Accepts
  <2> QED BY <1>1, <1>4, <2>1 DEF HubStep, PullRequestsMove
<1>5. CASE \E n \in Numbers, merger \in {Null, "other"} :
              /\ Open(n) /\ prs' = Closed(n, merger)
              /\ UNCHANGED <<branch, foreign, greens>>
  <2>1. PullRequestsMove
    BY <1>5 DEF PullRequestsMove
  <2> QED BY <1>1, <1>5, <2>1 DEF HubStep
<1>6. CASE UNCHANGED <<branch, prs>> /\ foreign' \subseteq Numbers /\ greens' \subseteq Gates
  BY <1>1, <1>6 DEF HubStep, PullRequestsMove
<1>7. \/ \E n \in Numbers : foreign' = foreign \cup {n} /\ UNCHANGED <<branch, prs, greens>>
      \/ \E g \in greens : greens' = greens \ {g} /\ UNCHANGED <<branch, prs, foreign>>
      => UNCHANGED <<branch, prs>> /\ foreign' \subseteq Numbers /\ greens' \subseteq Gates
  BY <1>1
<1> QED BY <1>2, <1>3, <1>4, <1>5, <1>6, <1>7 DEF OtherPeople, CloseAll

\* A request that arrives late was meant when it was sent.
LEMMA ArriveOnHub ==
    ASSUME IInv, NEW r \in late, Arrive(r)
    PROVE  HubStep
<1>1. r \in Requests /\ late' \subseteq late
  BY DEF IInv, TypeOK, Arrive
<1>2. Meant(r)
  BY DEF IInv, SoundLate, Meant, Chosen
<1>3. CASE Accepts(r) /\ Effect(r)
  BY <1>1, <1>2, <1>3, EffectIsHubStep
<1>4. CASE UNCHANGED <<branch, prs, own, foreign, greens>>
  BY <1>1, <1>4 DEF IInv, TypeOK, HubStep, PullRequestsMove
<1> QED BY <1>3, <1>4 DEF Arrive

\* A gate opens.
LEMMA TurnGreenOnHub ==
    ASSUME IInv, NEW g \in Gates, TurnGreen(g)
    PROVE  HubStep
  BY DEF TurnGreen, IInv, TypeOK, HubStep, PullRequestsMove

\* None of it touches a running call or the Task.
LEMMA OthersAreSound ==
    ASSUME IInv,
           OtherPeople \/ (\E r \in late : Arrive(r)) \/ (\E g \in Gates : TurnGreen(g))
    PROVE  IInv'
<1>1. HubStep
  BY OtherPeopleOnHub, ArriveOnHub, TurnGreenOnHub
<1>2. UNCHANGED <<policy, local, expired, call, durable, faults>>
  BY DEF OtherPeople, Arrive, TurnGreen
<1>3. changes' \in 0..MaxChanges
  BY BoundsAssumption DEF OtherPeople, Arrive, TurnGreen, IInv, TypeOK
<1>4. Frame
  BY <1>2, <1>3 DEF Frame, durable, IInv, TypeOK
<1> QED BY <1>1, <1>2, <1>4, CallWaits

(***************************************************************************)
(* Delivery Run                                                            *)
(***************************************************************************)
\* What is recorded is what deliver() established.
LEMMA RecordOutcomeIsSound ==
    ASSUME IInv, RecordOutcome
    PROVE  IInv'
<1>1. /\ HubStep /\ Landed' = Landed /\ UNCHANGED <<policy, local, own>>
      /\ expired' \in BOOLEAN /\ local' \subseteq Numbers
      /\ faults' \in 0..MaxFaults /\ changes' \in 0..MaxChanges
  BY QuietHub DEF RecordOutcome, hub, IInv, TypeOK
<1>2. /\ call' \in Call /\ call'.stage = "idle" /\ call'.pr = Null
  BY DEF RecordOutcome, IdleCall, Call, Stages
<1>3. SoundCall' /\ SoundCreation'
  BY <1>2 DEF SoundCall, SoundCreation, At, AttestedStages, Attesting
<1>4. task = "reviewed" /\ report = Null /\ call.pr \in Numbers \cup {Null}
  <2>1. task = "reviewed" /\ (report # Null <=> task = "delivered")
    BY RunningIsReviewed DEF RecordOutcome, At, IInv, SoundRecord
  <2> QED BY <2>1 DEF IInv, TypeOK, Call
<1>5. CASE /\ call.outcome \in {"delivered", "merged"} /\ task' = "delivered"
           /\ report' = [pr |-> call.pr, merged |-> call.outcome = "merged"]
  <2>1. /\ call.pr # Null /\ own[call.pr] > 0
        /\ policy.merge = (call.outcome = "merged")
        /\ call.outcome = "merged" => call.pr \in Landed \cap local
    BY <1>5 DEF RecordOutcome, IInv, SoundCall, Fulfilled
  <2>2. report' \in Report
    BY <1>4, <1>5, <2>1 DEF Report
  <2>3. report' # Null
    BY <2>2, NullAssumption
  <2>4. report'.pr = call.pr /\ report'.merged = (call.outcome = "merged")
    BY <1>5
  <2>5. ReportedEffectIsReal'
    BY <1>1, <2>1, <2>4 DEF ReportedEffectIsReal
  <2>6. SoundRecord'
    BY <1>5, <2>3, <2>5 DEF SoundRecord
  <2> QED BY <1>1, <1>2, <1>3, <1>5, <2>2, <2>6, StepIsSound
<1>6. CASE task' \in {"waiting", "blocked"} /\ UNCHANGED report
  <2>1. SoundRecord'
    BY <1>4, <1>6 DEF SoundRecord, ReportedEffectIsReal
  <2> QED BY <1>1, <1>2, <1>3, <1>4, <1>6, <2>1, StepIsSound
<1> QED BY <1>5, <1>6 DEF RecordOutcome

\* A waiting Task is taken up again.
LEMMA ResumeIsSound ==
    ASSUME IInv, Resume
    PROVE  IInv'
<1>1. /\ HubStep /\ Landed' = Landed /\ UNCHANGED <<policy, local, own, call, report>>
      /\ expired' \in BOOLEAN /\ local' \subseteq Numbers /\ call' \in Call
      /\ faults' \in 0..MaxFaults /\ changes' \in 0..MaxChanges
      /\ report' \in Report \cup {Null}
  BY QuietHub DEF Resume, hub, IInv, TypeOK
<1>2. At("idle") /\ task' = "reviewed" /\ report = Null
  BY RunningIsReviewed DEF Resume, IInv, SoundRecord
<1>3. SoundCall' /\ SoundCreation'
  BY <1>1, <1>2 DEF SoundCall, SoundCreation, At, AttestedStages, Attesting
<1>4. SoundRecord'
  BY <1>1, <1>2 DEF SoundRecord, ReportedEffectIsReal
<1> QED BY <1>1, <1>2, <1>3, <1>4, StepIsSound

(***************************************************************************)
(* The theorems                                                            *)
(***************************************************************************)
\* At first there is nothing.
LEMMA InitIsSound == Init => IInv
<1> SUFFICES ASSUME Init PROVE IInv
  OBVIOUS
<1>1. call = IdleCall /\ call \in Call /\ call.stage = "idle" /\ call.pr = Null
  BY DEF Init, IdleCall, Call, Stages
<1>2. \A n \in Numbers : ~Exists(n) /\ ~Open(n)
  BY DEF Init, Exists, Open
<1>3. TypeOK
  <2>1. /\ prs \in [Numbers -> PullRequest \cup {Null}] /\ own \in [Numbers -> Nat]
        /\ faults \in 0..MaxFaults /\ changes \in 0..MaxChanges
    BY BoundsAssumption DEF Init
  <2>2. /\ foreign \subseteq Numbers /\ greens \subseteq Gates
        /\ late \subseteq Requests /\ local \subseteq Numbers
    BY DEF Init
  <2> QED BY <1>1, <2>1, <2>2 DEF Init, TypeOK
<1>4. Numbered
  BY <1>2 DEF Numbered, Merged
<1>5. SoundChoice /\ SoundLate
  BY <1>1, ShasAssumption DEF Init, SoundChoice, SoundLate, Chosen
<1>6. SoundCall /\ SoundCreation
  BY <1>1 DEF SoundCall, SoundCreation, At, AttestedStages, Attesting
<1>7. SoundRecord
  BY DEF Init, SoundRecord, ReportedEffectIsReal
<1> QED BY <1>3, <1>4, <1>5, <1>6, <1>7 DEF IInv

\* Every step keeps the invariant.
LEMMA StepKeeps == IInv /\ [Next]_vars => IInv'
<1> SUFFICES ASSUME IInv, [Next]_vars PROVE IInv'
  OBVIOUS
<1>1. CASE UNCHANGED vars
  <2>1. HubStep
    BY <1>1, QuietHub DEF vars, hub
  <2>2. Frame /\ UNCHANGED call
    BY <1>1 DEF vars, hub, durable, Frame, IInv, TypeOK
  <2> QED BY <2>1, <2>2, CallWaits
<1>2. CASE Deliver
  BY <1>2, PreludeIsSound, ListPullsIsSound, ListCommentsIsSound, GetLivePullIsSound,
     GatesAreSound, ProbeMergedIsSound, MaterializeIsSound, WriteIsSound, DeadlineIsSound,
     RecordOutcomeIsSound
  DEF Deliver
<1>3. CASE Resume \/ RequestFails \/ PassDeadline \/ Crash
  BY <1>3, ResumeIsSound, RequestFailsIsSound, DeadlineIsSound, CrashIsSound
<1>4. CASE OtherPeople \/ (\E r \in late : Arrive(r)) \/ (\E g \in Gates : TurnGreen(g))
  BY <1>4, OthersAreSound
<1> QED BY <1>1, <1>2, <1>3, <1>4 DEF Next

\* The invariant holds in every reachable state.
THEOREM Invariance == Spec => []IInv
<1>1. Init => IInv
  BY InitIsSound
<1>2. IInv /\ [Next]_vars => IInv'
  BY StepKeeps
<1> QED BY <1>1, <1>2, PTL DEF Spec

\* What deliver(), GitHub and the Task's row hold keeps its type, whatever fails:
\* every request is one reconcile() sends, of a number GitHub has.
THEOREM TypeCorrect == Spec => []TypeOK
<1>1. IInv => TypeOK
  BY DEF IInv
<1> QED BY <1>1, Invariance, PTL

\* What Delivery Run records of a delivery is what happened on GitHub: attested, with
\* the contract's authority, landed with the approved head, and in the local repository.
THEOREM Reality == Spec => []ReportedEffectIsReal
<1>1. IInv => ReportedEffectIsReal
  BY DEF IInv, SoundRecord
<1> QED BY <1>1, Invariance, PTL

(***************************************************************************)
(* The abstract effects                                                    *)
(***************************************************************************)
\* A step of GitHub lands at most one pull request, and the App's only as a merge.
LEMMA LandsOne ==
    ASSUME TypeOK, Numbered, PullRequestsMove
    PROVE  Landed' = Landed \/ \E n \in Numbers : Landed' = Landed \cup {n}
<1>1. \A n \in Numbers : Becomes(prs[n], prs'[n])
  BY MoveOfEach
<1>2. Landed \subseteq Landed' /\ Landed' \subseteq Numbers
  BY MoveKeeps DEF Landed, Matching
<1>3. CASE \E k \in Numbers, merger \in {Null, "other"} : Open(k) /\ prs' = Closed(k, merger)
  <2>1. PICK k \in Numbers, merger \in {Null, "other"} : Open(k) /\ prs' = Closed(k, merger)
    BY <1>3
  <2> DEFINE new == [prs[k] EXCEPT !.state = "closed", !.merger = merger]
  <2>2. prs' = [prs EXCEPT ![k] = new]
    BY <2>1 DEF Closed
  <2> HIDE DEF new
  <2>3. \A n \in Numbers : n # k => prs'[n] = prs[n]
    BY <2>2 DEF TypeOK
  <2>4. \A n \in Landed' : n = k \/ n \in Landed
    BY <2>3 DEF Landed, Matching, Exists
  <2> QED BY <1>2, <2>1, <2>4
<1>4. CASE ~\E k \in Numbers, merger \in {Null, "other"} : Open(k) /\ prs' = Closed(k, merger)
  <2>1. ASSUME NEW n \in Landed', n \notin Landed
        PROVE  FALSE
    <3>1. n \in Numbers /\ prs'[n] # Null /\ prs'[n].merger # Null
      BY <2>1 DEF Landed, Matching, Exists
    <3>2. CASE UNCHANGED prs
      BY <2>1, <3>2 DEF Landed, Matching, Exists
    <3>3. CASE branch \in {Approved, Other} /\ \E k \in Fresh : prs' = Opened(k)
      <4>1. CASE Exists(n)
        <5>1. PICK k \in Fresh : prs' = Opened(k)
          BY <3>3
        <5>2. n # k /\ k \in Numbers
          BY <4>1 DEF Fresh
        <5>3. prs'[n] = prs[n]
          BY <3>1, <5>1, <5>2 DEF Opened, TypeOK
        <5> QED BY <2>1, <3>1, <5>3 DEF Landed, Matching, Exists
      <4>2. CASE ~Exists(n)
        BY <1>1, <3>1, <4>2 DEF Becomes, Exists
      <4> QED BY <4>1, <4>2
    <3>4. CASE (\E sha \in {Approved, Other} : prs' = Follow(sha)) \/ prs' = CloseAll
      <4>1. CASE Open(n)
        <5>1. prs[n] \in PullRequest /\ prs[n].merger = Null
          BY <3>1, <4>1 DEF TypeOK, Numbered, Open, Exists
        <5>2. \A sha : [prs[n] EXCEPT !.head = sha].merger = prs[n].merger
          BY <5>1 DEF PullRequest
        <5>3. [prs[n] EXCEPT !.state = "closed"].merger = prs[n].merger
          BY <5>1 DEF PullRequest
        <5>4. \/ \E sha : prs'[n] = [prs[n] EXCEPT !.head = sha]
              \/ prs'[n] = [prs[n] EXCEPT !.state = "closed"]
          <6>1. CASE prs' = CloseAll
            BY <3>1, <4>1, <6>1, MovedPullRequest
          <6>2. CASE \E sha \in {Approved, Other} : prs' = Follow(sha)
            <7>1. PICK sha \in {Approved, Other} : prs' = Follow(sha)
              BY <6>2
            <7>2. Follow(sha)[n] =
                    IF Open(n) THEN [prs[n] EXCEPT !.head = sha] ELSE prs[n]
              BY <3>1, MovedPullRequest
            <7> QED BY <4>1, <7>1, <7>2
          <6> QED BY <3>4, <6>1, <6>2
        <5> QED BY <3>1, <5>1, <5>2, <5>3, <5>4
      <4>2. CASE ~Open(n)
        <5>1. prs'[n] = prs[n]
          BY <3>1, <3>4, <4>2 DEF Follow, CloseAll
        <5> QED BY <2>1, <3>1, <5>1 DEF Landed, Matching, Exists
      <4> QED BY <4>1, <4>2
    <3> QED BY <1>4, <3>2, <3>3, <3>4 DEF PullRequestsMove
  <2> QED BY <1>2, <2>1
<1> QED BY <1>3, <1>4

\* Where deliver()'s steps leave GitHub.
LEMMA EveryStepOnHub ==
    ASSUME IInv, Next
    PROVE  HubStep /\ UNCHANGED policy /\ (UNCHANGED <<task, report>> \/ RecordOutcome \/ Resume)
<1>1. CASE Start \/ Authenticate \/ GetRef \/ ListPulls \/ ListComments \/ GetLivePull
           \/ ReviewGate \/ PipelineGate \/ ProbeMerged \/ Sleep
  <2>1. Reads
    BY <1>1 DEF Start, Authenticate, GetRef, ListPulls, ListComments, GetLivePull,
        ReviewGate, PipelineGate, ProbeMerged, Sleep
  <2> QED BY <2>1, ReadsAreQuiet DEF Frame
<1>2. CASE Materialize \/ RecordOutcome \/ Resume \/ PassDeadline
  <2>1. UNCHANGED <<policy, hub>> /\ (UNCHANGED durable \/ RecordOutcome \/ Resume)
    BY <1>2 DEF Materialize, RecordOutcome, Resume, PassDeadline
  <2> QED BY <2>1, QuietHub DEF durable
<1>3. CASE Write
  <2>1. HubStep
    BY <1>3, QuietHub, RequestOfStage, EffectIsHubStep DEF Write
  <2> QED BY <1>3, <2>1 DEF Write, durable
<1>4. CASE RunOut \/ Crash
  <2>1. HubStep
    BY <1>4, QuietHub, LostIsHubStep DEF RunOut, Crash
  <2> QED BY <1>4, <2>1 DEF RunOut, Crash, durable
<1>5. CASE RequestFails
  <2>1. HubStep
    BY <1>5, QuietHub, LostIsHubStep DEF RequestFails, ReadFails, WriteFails
  <2> QED BY <1>5, <2>1 DEF RequestFails, durable
<1>6. CASE OtherPeople \/ (\E r \in late : Arrive(r)) \/ (\E g \in Gates : TurnGreen(g))
  <2>1. HubStep
    BY <1>6, OtherPeopleOnHub, ArriveOnHub, TurnGreenOnHub
  <2>2. UNCHANGED <<policy, durable>>
    BY <1>6 DEF OtherPeople, Arrive, TurnGreen
  <2> QED BY <2>1, <2>2 DEF durable
<1> QED BY <1>1, <1>2, <1>3, <1>4, <1>5, <1>6 DEF Next, Deliver

\* Pull requests that carry an attestation.
Attested == {n \in Numbers : own[n] > 0}

\* What happens on GitHub is an abstract effect, or none.
LEMMA HubStepIsEffect ==
    ASSUME IInv, HubStep, UNCHANGED <<policy, task, report>>
    PROVE  [Effects!Next]_(Effects!effects)
<1>1. TypeOK /\ Numbered /\ SoundChoice /\ own \in [Numbers -> Nat]
  BY DEF IInv, TypeOK
<1>2. CASE PullRequestsMove /\ UNCHANGED own
  <2>1. Merged' = Merged /\ Attested' = Attested
    BY <1>1, <1>2, MoveKeeps DEF Attested
  <2>2. Landed' = Landed \/ \E n \in Numbers : Landed' = Landed \cup {n}
    BY <1>1, <1>2, LandsOne
  <2>3. CASE Landed' = Landed
    BY <2>1, <2>3 DEF Effects!effects, Effects!outcome, Attested
  <2>4. CASE \E n \in Numbers : Landed' = Landed \cup {n}
    <3>1. PICK n \in Numbers : Landed' = Landed \cup {n}
      BY <2>4
    <3>2. Effects!MergedByOthers(n)
      BY <2>1, <3>1 DEF Effects!MergedByOthers, Effects!outcome, Attested
    <3> QED BY <3>2 DEF Effects!Next
  <2> QED BY <2>2, <2>3, <2>4
<1>3. CASE \E n \in Numbers : Comments(n)
  <2>1. PICK n \in Numbers : Comments(n)
    BY <1>3
  <2>2. prs' = prs /\ Attested' = Attested \cup {n}
    BY <1>1, <2>1 DEF Comments, Attested
  <2>3. Merged' = Merged /\ Landed' = Landed
    BY <2>2 DEF Merged, Landed, Matching, Exists
  <2>4. Effects!Attest(n)
    BY <2>2, <2>3 DEF Effects!Attest, Effects!outcome, Attested
  <2> QED BY <2>4 DEF Effects!Next
<1>4. CASE \E n \in Numbers : AppMerges(n) /\ UNCHANGED own
  <2>1. PICK n \in Numbers : AppMerges(n) /\ UNCHANGED own
    BY <1>4
  <2>2. Merged = {} /\ Merged' = {n} /\ Landed' = Landed \cup {n}
    BY <1>1, <2>1, AppMergeOfEach
  <2>3. policy.merge /\ n \in Attested /\ Attested' = Attested
    BY <2>1 DEF AppMerges, Attested
  <2>4. Effects!Merge(n)
    BY <2>2, <2>3 DEF Effects!Merge, Effects!outcome, Attested
  <2> QED BY <2>4 DEF Effects!Next
<1> QED BY <1>2, <1>3, <1>4 DEF HubStep

\* Recording an outcome is reporting it, or blocking the Task, or neither.
LEMMA RecordIsEffect ==
    ASSUME IInv, RecordOutcome
    PROVE  [Effects!Next]_(Effects!effects)
<1>1. /\ task = "reviewed" /\ UNCHANGED policy
      /\ call.pr \in Numbers \cup {Null}
  BY RunningIsReviewed DEF RecordOutcome, At, Call
<1>2. Merged' = Merged /\ Landed' = Landed /\ Attested' = Attested
  BY QuietHub DEF RecordOutcome, Attested, hub
<1>3. CASE /\ call.outcome \in {"delivered", "merged"} /\ task' = "delivered"
           /\ report' = [pr |-> call.pr, merged |-> call.outcome = "merged"]
  <2>1. /\ call.pr # Null /\ own[call.pr] > 0
        /\ policy.merge = (call.outcome = "merged")
        /\ call.outcome = "merged" => call.pr \in Landed
    BY <1>3 DEF RecordOutcome, IInv, SoundCall, Fulfilled
  <2>2. /\ call.pr \in Numbers /\ call.pr \in Attested
        /\ policy.merge => call.pr \in Landed
        /\ report' = [pr |-> call.pr, merged |-> policy.merge]
    BY <1>1, <1>3, <2>1 DEF Attested
  <2>3. Effects!Deliver(call.pr)
    BY <1>1, <1>2, <1>3, <2>2 DEF Effects!Deliver, Attested
  <2> QED BY <2>2, <2>3 DEF Effects!Next
<1>4. CASE task' = "waiting" /\ UNCHANGED report
  BY <1>1, <1>2, <1>4 DEF Effects!effects, Effects!outcome, Attested
<1>5. CASE task' = "blocked" /\ UNCHANGED report
  <2>1. Effects!Block
    BY <1>1, <1>2, <1>5 DEF Effects!Block, Attested
  <2> QED BY <2>1 DEF Effects!Next
<1> QED BY <1>3, <1>4, <1>5 DEF RecordOutcome

\* Every step is an abstract effect or a stutter.
LEMMA StepIsEffect == IInv /\ [Next]_vars => [Effects!Next]_(Effects!effects)
<1> SUFFICES ASSUME IInv, [Next]_vars PROVE [Effects!Next]_(Effects!effects)
  OBVIOUS
<1>1. CASE UNCHANGED vars
  <2>1. HubStep /\ UNCHANGED <<policy, task, report>>
    BY <1>1, QuietHub DEF vars, hub, durable
  <2> QED BY <2>1, HubStepIsEffect
<1>2. CASE RecordOutcome
  BY <1>2, RecordIsEffect
<1>3. CASE Resume
  <2>1. task = "waiting" /\ task' = "reviewed" /\ UNCHANGED <<policy, report, own, hub>>
    BY <1>3 DEF Resume, hub
  <2>2. Merged' = Merged /\ Landed' = Landed /\ Attested' = Attested
    BY <2>1, QuietHub DEF Attested
  <2> QED BY <2>1, <2>2 DEF Effects!effects, Effects!outcome, Attested
<1>4. CASE Next /\ ~RecordOutcome /\ ~Resume
  BY <1>4, EveryStepOnHub, HubStepIsEffect
<1> QED BY <1>1, <1>2, <1>3, <1>4

\* Forge Delivery, its failures and everyone else on GitHub implement the abstract
\* effects: one merge at most, of what is attested and approved, and one outcome.
THEOREM Implementation == Spec => ImplementsEffects
<1>1. Init => Effects!Init
  <2> SUFFICES ASSUME Init PROVE Effects!Init
    OBVIOUS
  <2>1. policy.merge \in BOOLEAN
    BY PoliciesAssumption DEF Init, Policy
  <2>2. Attested = {} /\ Merged = {} /\ Landed = {}
    BY DEF Init, Attested, Merged, Landed, Matching, Exists
  <2>3. task = "reviewed" /\ report = Null
    BY DEF Init
  <2> QED BY <2>1, <2>2, <2>3 DEF Effects!Init, Attested
<1>2. IInv /\ [Next]_vars => [Effects!Next]_(Effects!effects)
  BY StepIsEffect
<1> QED BY <1>1, <1>2, Invariance, PTL DEF Spec, ImplementsEffects, Effects!Spec

(***************************************************************************)
(* Failures and crashes alone.                                             *)
(***************************************************************************)
\* What is on GitHub is the App's: at most one pull request, of the approved head, with at
\* most one attestation, open or merged with authority.
CalmHub ==
    /\ late = {} /\ foreign = {} /\ "platform" \in greens /\ branch \in {Null, Approved}
    /\ \A n \in Numbers : Exists(n) =>
          /\ branch = Approved /\ prs[n].head = Approved
          /\ Open(n) \/ (prs[n].merger = "app" /\ policy.merge)
    /\ \A m, n \in Numbers : Exists(m) /\ Exists(n) => m = n
    /\ \A n \in Numbers : own[n] <= 1 /\ (own[n] = 1 => Exists(n))

\* Stages in which the pull request is still to be merged, if it is at all.
Unmerged ==
    \/ At("pushing") /\ call.pr # Null
    \/ call.stage \in AttestedStages \ {"materializing"}
    \/ call.stage \in Attesting /\ call.then # "recover"

\* What deliver() has read is still so when it acts upon it.
CalmCall ==
    /\ call.outcome # "quarantined" /\ call.head # Other
    /\ call.head = Approved => branch = Approved
    /\ At("creating") => branch = Approved
    /\ At("creating") \/ (At("pushing") /\ call.pr = Null) => \A n \in Numbers : ~Exists(n)
    /\ Unmerged => Open(call.pr)
    /\ At("probing") /\ call.miss = "quarantined" => MergedEffect(call.pr)
    /\ At("commenting") => own[call.pr] = 0

Calm == CalmHub /\ CalmCall
NobodyElse == changes = 0 /\ LateKinds = {}

\* The fields CallFields does not speak of.
LEMMA KeptFields ==
    ASSUME call \in Call
    PROVE  /\ \A outcome \in Outcomes : Return(outcome) => call'.head = call.head
           /\ \A n \in Numbers, miss \in {"quarantined", "transient", "definite"} :
                Probe(n, miss) => /\ call'.head = call.head /\ call'.outcome = call.outcome
                                  /\ call'.miss = miss
           /\ \A n \in Numbers, then \in {"deliver", "merge", "recover"} :
                Attest(n, then) => call'.head = call.head /\ call'.outcome = call.outcome
<1>1. ASSUME NEW outcome \in Outcomes, Return(outcome)
      PROVE  call'.head = call.head
  BY <1>1 DEF Return, Call
<1>2. ASSUME NEW n \in Numbers, NEW miss \in {"quarantined", "transient", "definite"},
             Probe(n, miss)
      PROVE  call'.head = call.head /\ call'.outcome = call.outcome /\ call'.miss = miss
  BY <1>2 DEF Probe, Call
<1>3. ASSUME NEW n \in Numbers, NEW then \in {"deliver", "merge", "recover"}, Attest(n, then)
      PROVE  call'.head = call.head /\ call'.outcome = call.outcome
  BY <1>3 DEF Attest, Call
<1> QED BY <1>1, <1>2, <1>3

Typed ==
    /\ call \in Call /\ call' \in Call /\ branch \in {Null, Approved, Other}
    /\ prs \in [Numbers -> PullRequest \cup {Null}] /\ own \in [Numbers -> Nat]

\* Before and after a step the variables have their types.
LEMMA TypedStep ==
    ASSUME IInv, IInv'
    PROVE  Typed
  BY DEF IInv, TypeOK, Typed

\* Nothing happens on GitHub but for its gates.
LEMMA CalmHubStays ==
    ASSUME CalmHub, UNCHANGED <<branch, prs, own, foreign, late, policy>>, greens \subseteq greens'
    PROVE  /\ CalmHub' /\ (branch = Approved => branch' = Approved)
           /\ \A n : /\ Exists(n)' <=> Exists(n)
                     /\ Open(n)' <=> Open(n)
                     /\ MergedEffect(n)' <=> MergedEffect(n)
  BY DEF CalmHub, Exists, Open, MergedEffect

\* Stages in which nothing is expected of GitHub.
LEMMA CalmStage ==
    ASSUME CalmCall, CalmHub', branch = Approved => branch' = Approved,
           call'.head \in {call.head, Null, branch'}, call'.outcome # "quarantined",
           call'.stage \in {"idle", "authenticating", "reading", "listing", "sleeping",
                            "returned", "materializing"}
    PROVE  CalmCall'
  BY ShasAssumption DEF CalmCall, CalmHub, Unmerged, At, AttestedStages, Attesting

\* deliver() gives up or tries again.
LEMMA CalmEnds ==
    ASSUME CalmCall, CalmHub', branch = Approved => branch' = Approved, call \in Call,
           \/ \E outcome \in Outcomes \ {"quarantined"} : Return(outcome)
           \/ Goto("sleeping") \/ \E fault : Throw(fault)
    PROVE  CalmCall'
<1>1. CASE \E outcome \in Outcomes \ {"quarantined"} : Return(outcome)
  <2>1. PICK outcome \in Outcomes \ {"quarantined"} : Return(outcome)
    BY <1>1
  <2>2. call'.stage = "returned" /\ call'.outcome = outcome /\ call'.head = call.head
    BY <2>1, CallFields, KeptFields
  <2> QED BY <2>2, CalmStage
<1>2. CASE Goto("sleeping")
  <2>1. call'.stage = "sleeping" /\ SameButStage
    BY <1>2, CallFields DEF Stages
  <2> QED BY <2>1, CalmStage DEF SameButStage, CalmCall
<1>3. (\E fault : Throw(fault)) => Goto("sleeping") \/ Return("failed")
  BY DEF Throw
<1> QED BY <1>1, <1>2, <1>3 DEF Outcomes

\* What deliver() asks of GitHub takes effect, for good.
LEMMA CalmEffect ==
    ASSUME IInv, Typed, Calm, call.stage \in Writing, Accepts(Request), Effect(Request),
           UNCHANGED <<late, policy>>
    PROVE  /\ CalmHub' /\ (branch = Approved => branch' = Approved)
           /\ At("pushing") => branch' = Approved /\ UNCHANGED <<prs, own>>
           /\ At("creating") => \E n \in Fresh : Open(n)' /\ UNCHANGED <<branch, own>>
           /\ At("commenting") => UNCHANGED <<branch, prs>>
           /\ At("merging") => \A n \in Numbers : n = call.pr => MergedEffect(n)'
<1>1. UNCHANGED <<foreign, greens>> /\ late' = {} /\ policy' = policy
  BY DEF Effect, Calm, CalmHub
<1>2. CASE At("pushing")
  <2>1. branch' = Approved /\ UNCHANGED <<prs, own>>
    BY <1>2, RequestOfStage DEF Effect
  <2>2. CalmHub'
    BY <1>1, <2>1 DEF Calm, CalmHub, Exists, Open
  <2> QED BY <1>2, <2>1, <2>2 DEF At
<1>3. CASE At("creating")
  <2>1. (\E n \in Fresh : prs' = Opened(n)) /\ UNCHANGED <<branch, own>>
    BY <1>3, RequestOfStage DEF Effect
  <2>2. PICK n \in Fresh : prs' = Opened(n)
    BY <2>1
  <2>3. branch = Approved /\ \A m \in Numbers : ~Exists(m)
    BY <1>3 DEF Calm, CalmCall
  <2> DEFINE new == [state |-> "open", head |-> branch, merger |-> Null]
  <2>4. /\ new # Null /\ new.state = "open" /\ new.head = Approved
    <3>1. new \in PullRequest
      BY <2>3 DEF PullRequest
    <3> QED BY <2>3, <3>1, NullAssumption
  <2>5. n \in Numbers /\ prs' = [prs EXCEPT ![n] = new]
    BY <2>2 DEF Fresh, Opened
  <2> HIDE DEF new
  <2>6. \A m \in Numbers : prs'[m] = IF m = n THEN new ELSE prs[m]
    BY <2>5 DEF Typed
  <2>7. \A m \in Numbers : (Exists(m)' <=> m = n)
    BY <2>3, <2>4, <2>6 DEF Exists
  <2>8. Open(n)' /\ prs'[n].head = Approved
    BY <2>4, <2>5, <2>6, <2>7 DEF Open
  <2>9. CalmHub'
    BY <1>1, <2>1, <2>3, <2>5, <2>7, <2>8 DEF Calm, CalmHub
  <2> QED BY <1>3, <2>1, <2>3, <2>8, <2>9 DEF At
<1>4. CASE At("commenting")
  <2>1. own' = [own EXCEPT ![call.pr] = @ + 1] /\ UNCHANGED <<branch, prs>> /\ call.pr \in Numbers
    BY <1>4, RequestOfStage DEF Effect
  <2>2. own[call.pr] = 0 /\ Exists(call.pr)
    BY <1>4, RequestOfStage DEF Calm, CalmCall, Accepts
  <2>3. \A n \in Numbers : own'[n] = IF n = call.pr THEN 1 ELSE own[n]
    BY <2>1, <2>2 DEF Typed
  <2>4. CalmHub'
    BY <1>1, <2>1, <2>2, <2>3 DEF Calm, CalmHub, Exists, Open
  <2> QED BY <1>4, <2>1, <2>4 DEF At
<1>5. CASE At("merging")
  <2>0. PICK n \in Numbers : n = call.pr
    BY <1>5, RequestOfStage
  <2>1. prs' = Closed(n, "app") /\ UNCHANGED <<branch, own>>
    BY <1>5, <2>0, RequestOfStage DEF Effect
  <2>2. Open(n) /\ Exists(n) /\ policy.merge /\ prs[n] \in PullRequest
    BY <1>5, <2>0, AuthorizedStage
    DEF Calm, CalmCall, Unmerged, AttestedStages, At, Open, Exists, Typed
  <2> DEFINE new == [prs[n] EXCEPT !.state = "closed", !.merger = "app"]
  <2>3. new \in PullRequest /\ new.head = prs[n].head /\ new.merger = "app"
    BY <2>2 DEF PullRequest
  <2>4. new # Null
    BY <2>3, NullAssumption
  <2>5. prs' = [prs EXCEPT ![n] = new]
    BY <2>1 DEF Closed
  <2> HIDE DEF new
  <2>6. \A m \in Numbers : prs'[m] = IF m = n THEN new ELSE prs[m]
    BY <2>5 DEF Typed
  <2>7. \A m \in Numbers : Exists(m)' <=> Exists(m)
    BY <2>2, <2>4, <2>6 DEF Exists
  <2>8. \A m \in Numbers : Exists(m) => m = n
    BY <2>1, <2>2 DEF Calm, CalmHub
  <2>9. prs'[n].head = Approved /\ prs'[n].merger = "app" /\ Exists(n)'
    BY <2>1, <2>2, <2>3, <2>6, <2>7 DEF Calm, CalmHub
  <2>10. CalmHub'
    <3>1. \A m \in Numbers : Exists(m)' =>
             /\ branch' = Approved /\ prs'[m].head = Approved
             /\ prs'[m].merger = "app" /\ policy'.merge
      BY <1>1, <2>1, <2>2, <2>7, <2>8, <2>9 DEF Calm, CalmHub
    <3> QED BY <1>1, <2>1, <2>7, <3>1 DEF Calm, CalmHub
  <2>11. MergedEffect(n)'
    BY <2>9, NullAssumption DEF MergedEffect
  <2> QED BY <1>5, <2>0, <2>1, <2>10, <2>11 DEF At
<1> QED BY <1>2, <1>3, <1>4, <1>5 DEF Writing, At

\* Nothing arrives late.
LEMMA CalmLoss ==
    ASSUME IInv, Typed, Calm, LateKinds = {}, call.stage \in Writing, Lost(Request),
           UNCHANGED policy
    PROVE  CalmHub' /\ (branch = Approved => branch' = Approved)
<1>1. CASE UNCHANGED hub
  BY <1>1, CalmHubStays DEF hub, Calm
<1>2. CASE Accepts(Request) /\ Effect(Request) /\ UNCHANGED late
  BY <1>2, CalmEffect
<1> QED BY <1>1, <1>2 DEF Lost

\* A stage in which GitHub is as it was read.
LEMMA CalmReads ==
    ASSUME Calm, Reads
    PROVE  /\ CalmHub' /\ (branch = Approved => branch' = Approved)
           /\ UNCHANGED <<branch, prs, own>>
           /\ \A n : /\ Exists(n)' <=> Exists(n)
                     /\ Open(n)' <=> Open(n)
                     /\ MergedEffect(n)' <=> MergedEffect(n)
<1>1. UNCHANGED <<branch, prs, own, foreign, late, policy, greens>>
  BY DEF Reads, hub
<1> QED BY <1>1, CalmHubStays DEF Calm

\* What comes before the pull requests are read keeps the calm.
LEMMA PreludeIsCalm ==
    ASSUME Typed, Calm, Start \/ Authenticate \/ GetRef \/ Sleep
    PROVE  CalmHub' /\ CalmCall'
<1>1. Reads /\ UNCHANGED branch
  BY DEF Start, Authenticate, GetRef, Sleep, Reads, hub
<1>2. CalmHub' /\ (branch = Approved => branch' = Approved)
  BY <1>1, CalmReads
<1>3. CASE Start
  <2>1. call'.stage = "authenticating" /\ call'.head = Null /\ call'.outcome = Null
    BY <1>3 DEF Start, IdleCall
  <2>2. Null # "quarantined"
    BY NullAssumption DEF Outcomes
  <2> QED BY <1>2, <2>1, <2>2, CalmStage DEF Calm
<1>4. CASE Authenticate \/ Sleep
  <2>1. call'.stage \in {"reading", "authenticating"} /\ SameButStage
    BY <1>4, CallFields DEF Authenticate, Sleep, Typed, Stages
  <2> QED BY <1>2, <2>1, CalmStage DEF Calm, CalmCall, SameButStage
<1>5. CASE GetRef
  <2>1. call'.stage = "listing" /\ call'.head = branch' /\ call'.outcome = call.outcome
    BY <1>1, <1>5 DEF GetRef, Typed, Call
  <2> QED BY <1>2, <2>1, CalmStage DEF Calm, CalmCall
<1> QED BY <1>3, <1>4, <1>5

\* The one pull request there may be is found, and is the App's.
LEMMA ListPullsIsCalm ==
    ASSUME IInv, Typed, Calm, ListPulls
    PROVE  CalmHub' /\ CalmCall'
<1>1. /\ Reads /\ CalmHub' /\ UNCHANGED <<branch, prs, own>>
      /\ \A n : (Exists(n)' <=> Exists(n)) /\ (Open(n)' <=> Open(n))
                /\ (MergedEffect(n)' <=> MergedEffect(n))
  BY CalmReads DEF ListPulls
<1>2. \A n \in Numbers : n \in Matching <=> Exists(n)
  BY DEF Calm, CalmHub, Matching
<1>3. ~Ambiguous
  <2>1. \A m, n \in Matching : m = n
    BY <1>2 DEF Calm, CalmHub, Matching
  <2>2. CASE Matching = {}
    BY <2>2, FS_EmptySet DEF Ambiguous
  <2>3. CASE Matching # {}
    <3>1. PICK n \in Matching : Matching = {n}
      BY <2>1, <2>3
    <3> QED BY <3>1, FS_Singleton DEF Ambiguous
  <2> QED BY <2>2, <2>3
<1>4. /\ Existing # Null => Existing \in Matching /\ Existing \in Numbers /\ Exists(Existing)
      /\ \A n \in Matching : n = Existing
  BY <1>3, Unambiguous DEF Matching
<1>5. Existing = Null => \A n \in Numbers : ~Exists(n)
  BY <1>2, <1>4, ShasAssumption
<1>6. ~Usable => Existing # Null /\ MergedEffect(Existing) /\ policy.merge
  <2>1. ASSUME ~Usable
        PROVE  Existing # Null /\ ~Open(Existing)
    BY <1>5, <2>1 DEF Usable
  <2> QED BY <1>4, <2>1, NullAssumption DEF MergedEffect, Calm, CalmHub
<1>7. call.outcome # "quarantined" /\ call.head \in {Null, Approved}
  BY DEF Calm, CalmCall, Typed, Call
<1>8. CASE Existing # Null /\ MergedEffect(Existing) /\ Probe(Existing, "quarantined")
  <2>1. /\ call'.stage = "probing" /\ call'.pr = Existing /\ call'.head = call.head
        /\ call'.outcome = call.outcome
    BY <1>4, <1>8, CallFields, KeptFields DEF Typed
  <2>2. MergedEffect(call.pr)'
    <3>1. PICK n \in Numbers : n = Existing
      BY <1>4, <1>8
    <3>2. MergedEffect(n)' /\ call'.pr = n
      BY <1>1, <1>8, <2>1, <3>1
    <3> QED BY <3>2
  <2> QED BY <1>1, <1>7, <2>1, <2>2 DEF Calm, CalmCall, Unmerged, At, AttestedStages, Attesting
<1>9. CASE /\ Usable /\ call.head # Other
           /\ call' = [call EXCEPT !.pr = Existing, !.then = "deliver",
                         !.stage = IF call.head = Null THEN "pushing"
                                   ELSE IF Existing = Null THEN "creating" ELSE "attesting"]
  <2>1. /\ call'.pr = Existing /\ call'.head = call.head /\ call'.outcome = call.outcome
        /\ call'.stage = IF call.head = Null THEN "pushing"
                         ELSE IF Existing = Null THEN "creating" ELSE "attesting"
    BY <1>9 DEF Typed, Call
  <2>2. Existing # Null => Open(call.pr)'
    <3>1. ASSUME Existing # Null PROVE Open(call.pr)'
      <4>1. PICK n \in Numbers : n = Existing
        BY <1>4, <3>1
      <4>2. Open(n)' /\ call'.pr = n
        BY <1>1, <1>9, <2>1, <3>1, <4>1 DEF Usable
      <4> QED BY <4>2
    <3> QED BY <3>1
  <2>3. Existing = Null => \A n \in Numbers : ~Exists(n)'
    BY <1>1, <1>5
  <2>4. call.head # Null => branch' = Approved
    BY <1>1, <1>7 DEF Calm, CalmCall
  <2> QED BY <1>1, <1>7, <2>1, <2>2, <2>3, <2>4
          DEF Calm, CalmCall, Unmerged, At, AttestedStages, Attesting
<1> QED BY <1>3, <1>6, <1>7, <1>8, <1>9, ShasAssumption DEF ListPulls

\* What follows the attestation.
LEMMA CalmAfterAttestation ==
    ASSUME Typed, Calm, call.stage \in Attesting, CalmHub', UNCHANGED <<branch, prs>>,
           AfterAttestation
    PROVE  CalmCall'
<1>1. branch = Approved => branch' = Approved
  OBVIOUS
<1>2. CASE Return("delivered")
  BY <1>1, <1>2, CalmEnds DEF Typed, Calm, Outcomes
<1>3. ASSUME NEW stage \in {"live", "reviews"}, call.then # "recover", Goto(stage)
      PROVE  CalmCall'
  <2>1. call'.stage = stage /\ SameButStage
    BY <1>3, CallFields DEF Typed, Stages
  <2>2. Open(call.pr)
    BY <1>3 DEF Calm, CalmCall, Unmerged
  <2>3. Open(call.pr)'
    BY <2>1, <2>2 DEF SameButStage, Open, Exists
  <2> QED BY <1>1, <2>1, <2>3
          DEF SameButStage, Calm, CalmCall, Unmerged, At, AttestedStages, Attesting
<1>4. CASE Goto("materializing")
  <2>1. call'.stage = "materializing" /\ SameButStage
    BY <1>4, CallFields DEF Typed, Stages
  <2> QED BY <1>1, <2>1, CalmStage DEF SameButStage, Calm, CalmCall
<1> QED BY <1>2, <1>3, <1>4 DEF AfterAttestation

\* Reading the attestations finds the App's own or none.
LEMMA ListCommentsIsCalm ==
    ASSUME IInv, Typed, Calm, ListComments
    PROVE  CalmHub' /\ CalmCall'
<1>1. Reads /\ CalmHub' /\ UNCHANGED <<branch, prs, own>>
  BY CalmReads DEF ListComments
<1>2. call.pr \in Numbers /\ call.stage = "attesting"
  BY DEF ListComments, At, Attesting, IInv, SoundCall, Typed, Call
<1>3. own[call.pr] \in Nat /\ own[call.pr] <= 1 /\ Marked(call.pr) = own[call.pr]
  BY <1>2 DEF Marked, Calm, CalmHub, Typed
<1>4. CASE AfterAttestation
  BY <1>1, <1>2, <1>4, CalmAfterAttestation DEF Attesting
<1>5. CASE Marked(call.pr) = 0 /\ Goto("commenting")
  <2>1. call'.stage = "commenting" /\ SameButStage
    BY <1>5, CallFields DEF Typed, Stages
  <2>2. own'[call'.pr] = 0
    BY <1>1, <1>3, <1>5, <2>1 DEF SameButStage
  <2>3. call.then # "recover" => Open(call.pr)'
    BY <1>1, <1>2, <2>1
    DEF SameButStage, Open, Exists, Calm, CalmCall, Unmerged, Attesting
  <2> QED BY <1>1, <2>1, <2>2, <2>3
          DEF SameButStage, Calm, CalmCall, Unmerged, At, AttestedStages, Attesting
<1> QED BY <1>3, <1>4, <1>5 DEF ListComments, Calm, CalmHub

\* The live pull request is open until the App merges it.
LEMMA GetLivePullIsCalm ==
    ASSUME IInv, Typed, Calm, GetLivePull
    PROVE  CalmHub' /\ CalmCall'
<1>1. /\ Reads /\ CalmHub' /\ UNCHANGED <<branch, prs, own>>
  BY CalmReads DEF GetLivePull
<1>2. call.pr \in Numbers /\ Open(call.pr)
  BY AuthorizedStage DEF GetLivePull, At, AttestedStages, Calm, CalmCall, Unmerged
<1>3. prs[call.pr].head = Approved /\ prs[call.pr].merger = Null
  BY <1>2 DEF Calm, CalmHub, Open, IInv, Numbered
<1>4. Attest(call.pr, "merge")
  BY <1>2, <1>3 DEF GetLivePull, MergedEffect
<1>5. /\ call'.stage = "attesting" /\ call'.pr = call.pr /\ call'.head = call.head
      /\ call'.outcome = call.outcome
  BY <1>2, <1>4, CallFields, KeptFields DEF Typed
<1>6. Open(call.pr)'
  BY <1>1, <1>2, <1>5 DEF Open, Exists
<1> QED BY <1>1, <1>5, <1>6 DEF Calm, CalmCall, Unmerged, At, AttestedStages, Attesting

\* Reading the gates keeps the calm.
LEMMA GatesAreCalm ==
    ASSUME IInv, Typed, Calm, ReviewGate \/ PipelineGate
    PROVE  CalmHub' /\ CalmCall'
<1>1. /\ Reads /\ call.stage \in {"reviews", "checks"}
  BY DEF ReviewGate, PipelineGate, At
<1>2. CalmHub' /\ UNCHANGED <<branch, prs, own>>
  BY <1>1, CalmReads
<1>3. CASE Return("pending")
  BY <1>2, <1>3, CalmEnds DEF Calm, Typed, Outcomes
<1>4. ASSUME NEW stage \in {"checks", "merging"}, Goto(stage)
      PROVE  CalmCall'
  <2>1. call'.stage = stage /\ SameButStage
    BY <1>4, CallFields DEF Typed, Stages
  <2>2. Open(call.pr)
    BY <1>1 DEF Calm, CalmCall, Unmerged, AttestedStages
  <2>3. Open(call.pr)'
    BY <1>2, <2>1, <2>2 DEF SameButStage, Open, Exists
  <2> QED BY <1>2, <2>1, <2>3
          DEF SameButStage, Calm, CalmCall, Unmerged, At, AttestedStages, Attesting
<1> QED BY <1>2, <1>3, <1>4 DEF ReviewGate, PipelineGate

\* Asking whether the pull request is merged keeps the calm.
LEMMA ProbeMergedIsCalm ==
    ASSUME IInv, Typed, Calm, ProbeMerged
    PROVE  CalmHub' /\ CalmCall'
<1>1. CalmHub' /\ UNCHANGED <<branch, prs, own>>
  BY CalmReads DEF ProbeMerged
<1>2. call.pr \in Numbers /\ At("probing")
  BY AuthorizedStage DEF ProbeMerged, At
<1>3. CASE Attest(call.pr, "recover")
  <2>1. /\ call'.stage = "attesting" /\ call'.pr = call.pr /\ call'.then = "recover"
        /\ call'.head = call.head /\ call'.outcome = call.outcome
    BY <1>2, <1>3, CallFields, KeptFields DEF Typed
  <2> QED BY <1>1, <2>1 DEF Calm, CalmCall, Unmerged, At, AttestedStages, Attesting
<1>4. CASE Throw(call.miss)
  BY <1>1, <1>4, CalmEnds DEF Calm, Typed
<1> QED BY <1>1, <1>2, <1>3, <1>4 DEF ProbeMerged, Calm, CalmCall

\* Fetching the merge keeps the calm.
LEMMA MaterializeIsCalm ==
    ASSUME Typed, Calm, Materialize
    PROVE  CalmHub' /\ CalmCall'
<1>1. CalmHub' /\ (branch = Approved => branch' = Approved)
  BY CalmHubStays DEF Materialize, hub, Calm
<1>2. Return("merged")
  BY DEF Materialize
<1> QED BY <1>1, <1>2, CalmEnds DEF Typed, Calm, Outcomes

\* Nothing deliver() asks for is refused but a pull request beyond the numbers there are.
LEMMA WriteIsCalm ==
    ASSUME IInv, Typed, Calm, Write
    PROVE  CalmHub' /\ CalmCall'
<1>1. call.stage \in Writing /\ UNCHANGED policy
  BY DEF Write
<1>2. CASE Accepts(Request) /\ Effect(Request) /\ Accepted /\ UNCHANGED late
  <2>1. /\ CalmHub' /\ (branch = Approved => branch' = Approved)
        /\ At("pushing") => branch' = Approved /\ UNCHANGED <<prs, own>>
        /\ At("creating") => \E n \in Fresh : Open(n)' /\ UNCHANGED <<branch, own>>
        /\ At("commenting") => UNCHANGED <<branch, prs>>
        /\ At("merging") => \A n \in Numbers : n = call.pr => MergedEffect(n)'
    BY <1>1, <1>2, CalmEffect
  <2>2. CASE At("pushing") /\ call.pr = Null /\ Goto("creating")
    <3>1. call'.stage = "creating" /\ SameButStage
      BY <2>2, CallFields DEF Typed, Stages
    <3>2. \A n \in Numbers : ~Exists(n)'
      BY <2>1, <2>2 DEF Calm, CalmCall, Exists
    <3> QED BY <2>1, <2>2, <3>1, <3>2
            DEF SameButStage, Calm, CalmCall, Unmerged, At, AttestedStages, Attesting
  <2>3. CASE At("pushing") /\ call.pr # Null /\ Attest(call.pr, "deliver")
    <3>1. call.pr \in Numbers /\ Open(call.pr)
      BY <2>3 DEF Typed, Call, Calm, CalmCall, Unmerged
    <3>2. /\ call'.stage = "attesting" /\ call'.pr = call.pr /\ call'.head = call.head
          /\ call'.outcome = call.outcome
      BY <2>3, <3>1, CallFields, KeptFields DEF Typed
    <3>3. Open(call.pr)'
      BY <2>1, <2>3, <3>1, <3>2 DEF Open, Exists
    <3> QED BY <2>1, <3>2, <3>3 DEF Calm, CalmCall, Unmerged, At, AttestedStages, Attesting
  <2>4. CASE At("creating") /\ \E n \in Fresh : Attest(n, "deliver")
    <3>1. PICK n \in Fresh : Attest(n, "deliver")
      BY <2>4
    <3>2. PICK k \in Fresh : Open(k)' /\ UNCHANGED <<branch, own>>
      BY <2>1, <2>4
    <3>3. k = n /\ n \in Numbers
      <4>1. /\ k \in Numbers /\ n \in Numbers /\ ~Exists(k) /\ ~Exists(n)
            /\ ~(k < n) /\ ~(n < k)
        BY DEF Fresh
      <4> QED BY <4>1, NumbersAssumption
    <3>4. /\ call'.stage = "attesting" /\ call'.pr = n /\ call'.head = call.head
          /\ call'.outcome = call.outcome
      BY <3>1, <3>3, CallFields, KeptFields DEF Typed
    <3>5. Open(call.pr)'
      BY <3>2, <3>3, <3>4 DEF Open, Exists
    <3> QED BY <2>1, <3>2, <3>4, <3>5
            DEF Calm, CalmCall, Unmerged, At, AttestedStages, Attesting
  <2>5. CASE At("creating") /\ branch # Approved
    BY <2>5 DEF Calm, CalmCall
  <2>6. CASE At("commenting") /\ AfterAttestation
    BY <2>1, <2>6, CalmAfterAttestation DEF At, Attesting
  <2>7. CASE At("merging") /\ Goto("materializing")
    <3>1. call'.stage = "materializing" /\ SameButStage
      BY <2>7, CallFields DEF Typed, Stages
    <3> QED BY <2>1, <3>1, CalmStage DEF SameButStage, Calm, CalmCall
  <2>8. CASE At("merging") /\ Probe(call.pr, "quarantined")
    <3>1. PICK n \in Numbers : n = call.pr
      BY <1>1, <2>8, RequestOfStage
    <3>2. /\ call'.stage = "probing" /\ call'.pr = n /\ call'.head = call.head
          /\ call'.outcome = call.outcome
      BY <2>8, <3>1, CallFields, KeptFields DEF Typed
    <3>3. MergedEffect(n)'
      BY <2>1, <2>8, <3>1
    <3>4. MergedEffect(call.pr)'
      BY <3>2, <3>3
    <3> QED BY <2>1, <3>2, <3>4 DEF Calm, CalmCall, Unmerged, At, AttestedStages, Attesting
  <2> QED BY <1>2, <2>1, <2>2, <2>3, <2>4, <2>5, <2>6, <2>7, <2>8 DEF Accepted
<1>3. CASE ~Accepts(Request) /\ Refused /\ UNCHANGED hub
  <2>1. CalmHub' /\ (branch = Approved => branch' = Approved)
    BY <1>1, <1>3, CalmHubStays DEF hub, Calm
  <2>2. ~At("merging")
    <3>1. ASSUME At("merging") PROVE Accepts(Request)
      <4>1. Request = <<"merge", call.pr>> /\ call.pr \in Numbers
        BY <1>1, <3>1, RequestOfStage
      <4>2. Open(call.pr) /\ prs[call.pr].head = Approved /\ "platform" \in greens
        BY <3>1, <4>1
        DEF Calm, CalmCall, CalmHub, Unmerged, At, AttestedStages, Open
      <4> QED BY <4>1, <4>2 DEF Accepts
    <3> QED BY <1>3, <3>1
  <2> QED BY <1>3, <2>1, <2>2, CalmEnds DEF Refused, Typed, Calm
<1> QED BY <1>2, <1>3 DEF Write

\* Failures, the end of the retries and crashes keep the calm.
LEMMA FailuresAreCalm ==
    ASSUME IInv, Typed, Calm, LateKinds = {}, RequestFails \/ RunOut \/ Crash
    PROVE  CalmHub' /\ CalmCall'
<1>1. UNCHANGED policy /\ (UNCHANGED hub \/ (call.stage \in Writing /\ Lost(Request)))
  BY DEF RequestFails, ReadFails, WriteFails, RunOut, Crash
<1>2. CalmHub' /\ (branch = Approved => branch' = Approved)
  BY <1>1, CalmLoss, CalmHubStays DEF hub, Calm
<1>3. ASSUME Return("failed") \/ Return("pending") \/ \E fault : Throw(fault)
      PROVE  CalmCall'
  BY <1>2, <1>3, CalmEnds DEF Typed, Calm, Outcomes
<1>4. CASE RunOut
  BY <1>2, <1>3, <1>4 DEF RunOut
<1>5. CASE Crash
  <2>1. call'.stage = "idle" /\ call'.head = Null /\ call'.outcome = Null
    BY <1>5 DEF Crash, IdleCall
  <2> QED BY <1>2, <2>1, CalmStage, NullAssumption DEF Outcomes, Calm
<1>6. CASE RequestFails
  <2>1. PICK fault \in Faults : ReadFails(fault) \/ WriteFails(fault)
    BY <1>6 DEF RequestFails
  <2>2. CASE ReadFails(fault)
    BY <1>2, <1>3, <2>2 DEF ReadFails
  <2>3. CASE WriteFails(fault) /\ ~At("merging")
    BY <1>2, <1>3, <2>3 DEF WriteFails, Failed
  <2>4. CASE WriteFails(fault) /\ At("merging")
    <3>1. Probe(call.pr, fault) /\ fault \in {"transient", "definite"}
      BY <2>4 DEF WriteFails, Failed
    <3>2. call.pr \in Numbers
      BY <2>4, AuthorizedStage DEF At, AttestedStages
    <3>3. /\ call'.stage = "probing" /\ call'.head = call.head
          /\ call'.outcome = call.outcome /\ call'.miss = fault
      BY <3>1, <3>2, CallFields, KeptFields DEF Typed
    <3> QED BY <1>2, <3>1, <3>3 DEF Calm, CalmCall, Unmerged, At, AttestedStages, Attesting
  <2> QED BY <2>1, <2>2, <2>3, <2>4
<1> QED BY <1>4, <1>5, <1>6

\* Delivery Run, the deadline and the gates.
LEMMA RestIsCalm ==
    ASSUME Typed, Calm,
           RecordOutcome \/ Resume \/ PassDeadline \/ (\E g \in Gates : TurnGreen(g)) \/ UNCHANGED vars
    PROVE  CalmHub' /\ CalmCall'
<1>1. UNCHANGED <<branch, prs, own, foreign, late, policy>> /\ greens \subseteq greens'
  BY DEF RecordOutcome, Resume, PassDeadline, TurnGreen, vars, hub
<1>2. /\ CalmHub' /\ (branch = Approved => branch' = Approved)
      /\ \A n : /\ Exists(n)' <=> Exists(n)
                /\ Open(n)' <=> Open(n)
                /\ MergedEffect(n)' <=> MergedEffect(n)
  BY <1>1, CalmHubStays DEF Calm
<1>3. CASE RecordOutcome
  <2>1. call'.stage = "idle" /\ call'.head = Null /\ call'.outcome = Null
    BY <1>3 DEF RecordOutcome, IdleCall
  <2> QED BY <1>2, <2>1, CalmStage, NullAssumption DEF Outcomes, Calm
<1>4. CASE UNCHANGED call
  BY <1>1, <1>2, <1>4
  DEF Calm, CalmCall, Unmerged, At, AttestedStages, Attesting, Open, Exists, MergedEffect
<1> QED BY <1>3, <1>4 DEF Resume, PassDeadline, TurnGreen, vars

\* While nobody interferes every step keeps the calm.
LEMMA StepIsCalm ==
    ASSUME IInv, IInv', [Next]_vars, NobodyElse => Calm
    PROVE  NobodyElse' => Calm'
<1> SUFFICES ASSUME NobodyElse'
             PROVE  Calm'
  OBVIOUS
<1>1. LateKinds = {} /\ changes' = 0
  BY DEF NobodyElse
<1>2. changes \in Nat
  BY BoundsAssumption DEF IInv, TypeOK
<1>3. ~OtherPeople /\ changes = 0
  <2>1. ~OtherPeople
    BY <1>1, <1>2 DEF OtherPeople
  <2>2. changes' = changes
    BY <2>1 DEF Next, Deliver, Start, Authenticate, GetRef, ListPulls, ListComments, GetLivePull,
       ReviewGate, PipelineGate, ProbeMerged, Materialize, Sleep, Write, RunOut, RecordOutcome,
       Reads, Resume, RequestFails, PassDeadline, Crash, Arrive, TurnGreen, vars
  <2> QED BY <1>1, <2>1, <2>2
<1>4. Calm /\ Typed
  BY <1>1, <1>3, TypedStep DEF NobodyElse
<1>5. ~\E r \in late : Arrive(r)
  BY <1>4 DEF Calm, CalmHub
<1>6. CASE Deliver
  BY <1>1, <1>4, <1>6, PreludeIsCalm, ListPullsIsCalm, ListCommentsIsCalm, GetLivePullIsCalm,
     GatesAreCalm, ProbeMergedIsCalm, MaterializeIsCalm, WriteIsCalm, FailuresAreCalm, RestIsCalm
  DEF Deliver, Calm
<1>7. CASE Resume \/ RequestFails \/ PassDeadline \/ Crash \/ (\E g \in Gates : TurnGreen(g))
           \/ UNCHANGED vars
  BY <1>1, <1>4, <1>7, FailuresAreCalm, RestIsCalm DEF Calm
<1> QED BY <1>3, <1>5, <1>6, <1>7 DEF Next

\* While nobody interferes and no request acts after it has failed, what is on GitHub is the
\* App's, and stays as deliver() has read it.
THEOREM CalmInvariance == Spec => [](IInv /\ (NobodyElse => Calm))
<1>1. Init => IInv /\ (NobodyElse => Calm)
  <2>1. ASSUME Init PROVE Calm
    <3>1. call = IdleCall /\ \A n \in Numbers : ~Exists(n) /\ own[n] = 0
      BY <2>1 DEF Init, Exists
    <3>2. CalmHub
      BY <2>1, <3>1 DEF Init, CalmHub
    <3>3. CalmCall
      BY <3>1, ShasAssumption, NullAssumption
      DEF CalmCall, IdleCall, Unmerged, At, AttestedStages, Attesting, Outcomes
    <3> QED BY <3>2, <3>3 DEF Calm
  <2> QED BY <2>1, InitIsSound
<1>2. IInv /\ (NobodyElse => Calm) /\ [Next]_vars => (IInv /\ (NobodyElse => Calm))'
  <2>1. ASSUME IInv, NobodyElse => Calm, [Next]_vars
        PROVE  IInv' /\ (NobodyElse' => Calm')
    BY <2>1, StepKeeps, StepIsCalm
  <2> QED BY <2>1
<1> QED BY <1>1, <1>2, PTL DEF Spec

\* Crashes, lost answers and retries alone neither duplicate a pull request or an attestation
\* nor look like somebody else's work, however many there are.
THEOREM RetriesAgree == Spec => []RetriesNeverConflict
<1>1. IInv /\ (NobodyElse => Calm) => RetriesNeverConflict
  <2> SUFFICES ASSUME IInv, Calm
               PROVE  /\ call.outcome # "quarantined"
                      /\ \A n \in Numbers : own[n] <= 1
                      /\ Cardinality({n \in Numbers : Exists(n)}) <= 1
    BY DEF RetriesNeverConflict, NobodyElse
  <2> DEFINE those == {n \in Numbers : Exists(n)}
  <2>1. \A m, n \in those : m = n
    BY DEF Calm, CalmHub
  <2>2. Cardinality(those) <= 1
    <3> HIDE DEF those
    <3>1. CASE those = {}
      BY <3>1, FS_EmptySet
    <3>2. CASE those # {}
      <4>1. PICK n \in those : those = {n}
        BY <2>1, <3>2
      <4> QED BY <4>1, FS_Singleton
    <3> QED BY <3>1, <3>2
  <2> QED BY <2>2 DEF Calm, CalmHub, CalmCall
<1> QED BY <1>1, CalmInvariance, PTL
====
