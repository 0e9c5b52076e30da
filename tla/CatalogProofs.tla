---------------------------- MODULE CatalogProofs ----------------------------
(* Proofs about the catalog: its media versions (MediaVersions), its posters  *)
(* (Artwork) and the library scan (CatalogScan), three components that share  *)
(* no variables.                                                             *)
(*                                                                           *)
(* The loop that chooses a version is a recursive function over the ids; what *)
(* it computes is shown by a least counterexample instead of by induction, and *)
(* so is what reconcileIdentity places.  The posters' invariant speaks of four *)
(* slots that hold object numbers; each transformation of the rows has one    *)
(* lemma for the slots it writes (...Slots) and one for the invariant         *)
(* (...Sound, ...Stage), and the actions are compositions of those.  The      *)
(* scan's invariant has a half that the disk bears out (CatalogTruth) and a   *)
(* half that relates the tables to the scan (CatalogTables); each action has  *)
(* a lemma (...Step), and the commit has one for each part of persist.        *)
EXTENDS MediaVersions, Artwork, CatalogScan, FiniteSetTheorems, WellFoundedInduction, TLAPS

-----------------------------------------------------------------------------
(* The loop of choosePlaybackVersion.                                        *)

\* A nonempty set of natural numbers has a least element.
LEMMA LeastExists ==
  ASSUME NEW T \in SUBSET Nat, T # {}
  PROVE  \E n \in T : \A m \in T : n <= m
<1>1. PICK n \in T : \A m \in T : ~(<<m, n>> \in OpToRel(<, Nat))
  BY NatLessThanWellFounded, WFMin
<1>2. \A m \in T : ~(m < n)
  BY <1>1 DEF OpToRel
<1>3. \A m \in T : m \in Nat /\ n \in Nat
  OBVIOUS
<1> QED
  BY <1>2, <1>3

\* One iteration of the loop.
LoopStep(S, n, best) == IF n \in S /\ Better(n, best) THEN n ELSE best

\* g is the loop's variable after each of the first n ids.
LoopRun(S, n, g) ==
  /\ g \in [0..n -> Nat] /\ g[0] = 0
  /\ \A i \in 1..n : g[i] = LoopStep(S, i, g[i - 1])

\* The loop over any number of ids has a run.
LEMMA LoopRuns ==
  ASSUME NEW S
  PROVE  \A n \in Nat : \E g : LoopRun(S, n, g)
<1> DEFINE T == {n \in Nat : ~\E g : LoopRun(S, n, g)}
<1>1. SUFFICES ASSUME T # {} PROVE FALSE
  OBVIOUS
<1>2. PICK n \in T : \A m \in T : n <= m
  BY <1>1, LeastExists
<1>3. n \in Nat /\ ~\E g : LoopRun(S, n, g)
  BY <1>2
<1>4. n # 0
  <2>1. LoopRun(S, 0, [i \in 0..0 |-> 0])
    BY DEF LoopRun
  <2> QED
    BY <2>1, <1>3
<1>5. n - 1 \in Nat /\ n - 1 \notin T
  BY <1>2, <1>3, <1>4
<1>6. PICK h : LoopRun(S, n - 1, h)
  BY <1>5
<1> DEFINE g == [i \in 0..n |-> IF i = n THEN LoopStep(S, n, h[n - 1]) ELSE h[i]]
<1>7. g \in [0..n -> Nat]
  BY <1>6, <1>3, <1>5 DEF LoopRun, LoopStep
<1>8. g[0] = 0
  BY <1>6, <1>3, <1>4 DEF LoopRun
<1>9. \A i \in 1..n : g[i] = LoopStep(S, i, g[i - 1])
  <2> SUFFICES ASSUME NEW i \in 1..n PROVE g[i] = LoopStep(S, i, g[i - 1])
    OBVIOUS
  <2>1. g[i - 1] = h[i - 1]
    BY <1>3
  <2>2. CASE i = n
    BY <2>1, <2>2, <1>3
  <2>3. CASE i # n
    <3>1. i \in 1..(n - 1) /\ g[i] = h[i]
      BY <2>3, <1>3
    <3> QED
      BY <3>1, <2>1, <1>6 DEF LoopRun
  <2> QED
    BY <2>2, <2>3
<1> QED
  BY <1>7, <1>8, <1>9, <1>3 DEF LoopRun

\* BestOf is what some run of the loop holds after the last id.
LEMMA BestOfRuns ==
  ASSUME NEW S
  PROVE  \E g : LoopRun(S, LastAnchor, g) /\ BestOf(S) = g[LastAnchor]
<1> DEFINE Body(f) == [n \in 0..LastAnchor |->
                         IF n = 0 THEN 0
                         ELSE IF n \in S /\ Better(n, f[n - 1]) THEN n ELSE f[n - 1]]
           best == CHOOSE f : f = Body(f)
<1>0. LastAnchor \in Nat
  BY VersionAssumption
<1>1. PICK h : LoopRun(S, LastAnchor, h)
  BY <1>0, LoopRuns
<1>2. h = Body(h)
  BY <1>0, <1>1 DEF LoopRun, LoopStep
<1>3. best = Body(best)
  BY <1>2
<1>4. BestOf(S) = best[LastAnchor]
  BY DEF BestOf
<1> HIDE DEF best
<1>5. \A n \in 0..LastAnchor : best[n] = h[n]
  <2> DEFINE T == {n \in 0..LastAnchor : best[n] # h[n]}
  <2>1. SUFFICES ASSUME T # {} PROVE FALSE
    OBVIOUS
  <2>0. T \in SUBSET Nat
    BY <1>0
  <2>2. PICK n \in T : \A m \in T : n <= m
    BY <2>0, <2>1, LeastExists
  <2>3. n \in 0..LastAnchor /\ best[n] # h[n]
    BY <2>2
  <2>4. best[0] = 0 /\ h[0] = 0
    BY <1>0, <1>2, <1>3
  <2>5. n \in 1..LastAnchor /\ n - 1 \in 0..LastAnchor /\ n - 1 \notin T
    BY <1>0, <2>2, <2>3, <2>4
  <2>6. best[n - 1] = h[n - 1]
    BY <2>5
  <2>7. /\ best[n] = IF n \in S /\ Better(n, best[n - 1]) THEN n ELSE best[n - 1]
        /\ h[n] = IF n \in S /\ Better(n, h[n - 1]) THEN n ELSE h[n - 1]
    BY <1>2, <1>3, <2>3, <2>5, <1>0
  <2> QED
    BY <2>3, <2>6, <2>7
<1> QED
  BY <1>0, <1>1, <1>4, <1>5

\* u is at least as good as v: of a lower rank, or of the same and no lower a
\* bitrate.
AsGood(u, v) == RankOf[u] < RankOf[v] \/ (RankOf[u] = RankOf[v] /\ BitrateOf[u] >= BitrateOf[v])

\* The loop over a set of titles finds one as good as each of them, and 0 only
\* when there is none: the version that is played is the best one.
LEMMA BestOfIsBest ==
  ASSUME NEW S \in SUBSET Anchors
  PROVE  /\ S = {} => BestOf(S) = 0
         /\ S # {} => BestOf(S) \in S /\ \A u \in S : AsGood(BestOf(S), u)
<1>0. /\ LastAnchor \in Nat /\ Anchors \subseteq 1..LastAnchor
      /\ RankOf \in [Anchors -> 0..2] /\ BitrateOf \in [Anchors -> Nat]
  BY VersionAssumption
<1>1. PICK g : LoopRun(S, LastAnchor, g) /\ BestOf(S) = g[LastAnchor]
  BY BestOfRuns
<1>5. \A u \in S : u \in Anchors /\ u \in Nat /\ 1 <= u /\ u <= LastAnchor
  BY <1>0
<1> DEFINE Seen(n) == {u \in S : u <= n}
           Good(n) == /\ Seen(n) = {} => g[n] = 0
                      /\ Seen(n) # {} => g[n] \in Seen(n) /\ \A u \in Seen(n) : AsGood(g[n], u)
<1>2. \A n \in 0..LastAnchor : Good(n)
  <2> DEFINE T == {n \in 0..LastAnchor : ~Good(n)}
  <2>1. SUFFICES ASSUME T # {} PROVE FALSE
    OBVIOUS
  <2>0. T \in SUBSET Nat
    BY <1>0
  <2>2. PICK n \in T : \A m \in T : n <= m
    BY <2>0, <2>1, LeastExists
  <2>3. n \in 0..LastAnchor /\ ~Good(n)
    BY <2>2
  <2>4. Good(0)
    <3>1. Seen(0) = {}
      BY <1>5
    <3>2. g[0] = 0
      BY <1>1 DEF LoopRun
    <3> QED
      BY <3>1, <3>2
  <2>5. n \in 1..LastAnchor /\ n - 1 \in 0..LastAnchor /\ n - 1 \notin T
    <3>1. n # 0
      BY <2>3, <2>4
    <3> QED
      BY <1>0, <2>2, <2>3, <3>1
  <2>6. Good(n - 1)
    BY <2>5
  <2>7. g[n] = LoopStep(S, n, g[n - 1])
    BY <1>1, <2>5 DEF LoopRun
  <2>8. Seen(n) = IF n \in S THEN Seen(n - 1) \cup {n} ELSE Seen(n - 1)
    <3>1. \A u \in S : u <= n <=> u = n \/ u <= n - 1
      BY <1>0, <1>5, <2>5
    <3>2. n <= n
      BY <1>0, <2>5
    <3> QED
      BY <3>1, <3>2
  <2>9. CASE n \notin S
    BY <2>9, <2>8, <2>7, <2>6, <2>3 DEF LoopStep
  <2>10. CASE n \in S /\ Seen(n - 1) = {}
    <3>1. g[n] = n /\ Seen(n) = {n}
      BY <2>10, <2>8, <2>7, <2>6 DEF LoopStep, Better
    <3>2. AsGood(n, n)
      BY <2>10, <1>0 DEF AsGood
    <3> QED
      BY <3>1, <3>2, <2>3
  <2>11. CASE n \in S /\ Seen(n - 1) # {}
    <3> DEFINE b == g[n - 1]
    <3>1. b \in Seen(n - 1) /\ b # 0 /\ n \in Anchors /\ \A u \in Seen(n - 1) : u \in Anchors /\ AsGood(b, u)
      BY <2>11, <2>6, <1>0
    <3>4. \A u \in Anchors : RankOf[u] \in Nat /\ BitrateOf[u] \in Nat
      BY <1>0
    <3>5. b \in Anchors
      BY <3>1
    <3> HIDE DEF b
    <3>2. CASE Better(n, b)
      <4>1. g[n] = n
        BY <3>2, <2>7, <2>11 DEF LoopStep, b
      <4>2. AsGood(n, b) /\ AsGood(n, n)
        BY <3>1, <3>2, <3>4, <3>5 DEF Better, AsGood
      <4>3. \A u \in Seen(n - 1) : AsGood(n, u)
        <5> SUFFICES ASSUME NEW u \in Seen(n - 1) PROVE AsGood(n, u)
          OBVIOUS
        <5>1. u \in Anchors /\ n \in Anchors /\ AsGood(b, u)
          BY <3>1
        <5>2. /\ RankOf[u] \in Nat /\ RankOf[n] \in Nat /\ RankOf[b] \in Nat
              /\ BitrateOf[u] \in Nat /\ BitrateOf[n] \in Nat /\ BitrateOf[b] \in Nat
          BY <5>1, <3>4, <3>5
        <5> QED
          BY <5>1, <5>2, <4>2 DEF AsGood
      <4> QED
        BY <4>1, <4>2, <4>3, <2>8, <2>11, <2>3
    <3>3. CASE ~Better(n, b)
      <4>1. g[n] = b
        BY <3>3, <2>7 DEF LoopStep, b
      <4>2. AsGood(b, n)
        BY <3>1, <3>3, <3>4, <3>5 DEF Better, AsGood
      <4> QED
        BY <4>1, <4>2, <3>1, <2>8, <2>11, <2>3
    <3> QED
      BY <3>2, <3>3
  <2> QED
    BY <2>9, <2>10, <2>11
<1>3. Seen(LastAnchor) = S
  BY <1>5
<1>4. Good(LastAnchor)
  BY <1>0, <1>2
<1> QED
  BY <1>1, <1>3, <1>4

\* Whatever is grouped, reachable and playable on the device, an automatic choice
\* is the best version the profile may use (choosePlaybackVersion), in any state.
LEMMA ChoosesBest == AutoIsBest
<1> SUFFICES ASSUME NEW a \in Audience, NEW able \in SUBSET Anchors, planning[a].step = "begun"
             PROVE  LET t == planning[a].title
                        playable == Group(t) \cap AllowedTo[a] \cap reachable \cap able
                        best == Choice(a, t, {}, able)
                    IN IF playable = {} THEN best = 0
                       ELSE /\ best \in playable
                            /\ \A u \in playable :
                                 \/ RankOf[best] < RankOf[u]
                                 \/ RankOf[best] = RankOf[u] /\ BitrateOf[best] >= BitrateOf[u]
  BY DEF AutoIsBest
<1> DEFINE t == planning[a].title
           playable == Group(t) \cap AllowedTo[a] \cap reachable \cap able
<1>1. playable \in SUBSET Anchors
  BY DEF Group
<1>2. Candidates(a, t, {}, able) = playable
  BY DEF Candidates, PlaybackVersions
<1>3. Choice(a, t, {}, able) = BestOf(playable)
  BY <1>2 DEF Choice
<1> HIDE DEF playable
<1> QED
  BY <1>1, <1>3, BestOfIsBest DEF AsGood, playable

\* In every behaviour an automatic choice is the best version the profile can
\* play (choosePlaybackVersion), for every catalog, ranking and device.
THEOREM AutoChoosesBest == VersionsSpec => []AutoIsBest
<1>1. AutoIsBest
  BY ChoosesBest
<1> QED
  BY <1>1, PTL

-----------------------------------------------------------------------------
(* Groups and sessions.                                                      *)

Plans ==
  [step : {"idle", "begun", "chosen", "started", "registered"}, title : Anchors \cup {0},
   version : Anchors \cup {0}, asked : {"auto", "remembered", "version", "pinned"},
   reading : BOOLEAN, checkedAt : Nat, id : Nat, replaces : Nat]
Sessions ==
  [id : Nat, viewer : Audience, title : Anchors, version : Anchors, reading : BOOLEAN,
   checkedAt : Nat, since : Nat]

\* Types of what the group and session arguments use.
VersionsTypeOK ==
  /\ canonicalOf \in [Anchors -> Anchors] /\ repairs \subseteq Anchors \X Anchors
  /\ versionEdits \in Nat /\ plansDrawn \in Nat
  /\ stopping \subseteq Nat \X SUBSET Anchors
  /\ playing \subseteq Sessions /\ planning \in [Audience -> Plans]

\* The title is one of its own and the version is in its group.
Offers(t, u) == ~IsMember(t) /\ u \in Group(t)

\* An edit that is still to stop sessions was counted.
StoppingCounted == \A edit \in stopping : edit[1] < versionEdits

\* A request whose checks no edit has followed yet still holds what it checked.
PlanCurrent(p) ==
  p.step # "idle" =>
    /\ p.title \in Anchors /\ p.checkedAt <= versionEdits
    /\ p.step = "begun" /\ p.checkedAt = versionEdits => ~IsMember(p.title)
    /\ p.step \in {"chosen", "started"} =>
         p.version \in Anchors /\ (p.checkedAt = versionEdits => Offers(p.title, p.version))
PlansCurrent == \A a \in Audience : PlanCurrent(planning[a])

\* A session that was registered before any edit followed its checks plays what
\* its title offers, or a later edit is still to stop it or was answered with an error.
SessionCurrent(s) ==
  /\ s.checkedAt <= s.since /\ s.since <= versionEdits
  /\ s.checkedAt = s.since =>
       \/ Offers(s.title, s.version) \/ (s.id \in unstopped /\ s.since < versionEdits)
       \/ \E edit \in stopping : edit[1] >= s.since /\ s.title \in edit[2]
SessionsFollow == \A s \in playing : SessionCurrent(s)

\* The inductive invariant.
VersionsInduction == VersionsTypeOK /\ GroupsFlat /\ StoppingCounted /\ PlansCurrent /\ SessionsFollow

\* A choice is a refusal or a version of the group, the named one if one is named.
LEMMA ChoiceInGroup ==
  ASSUME NEW a, NEW t, NEW named, NEW able
  PROVE  \/ Choice(a, t, named, able) = 0
         \/ /\ Choice(a, t, named, able) \in Group(t) /\ Choice(a, t, named, able) \in Anchors
            /\ named = {} \/ Choice(a, t, named, able) \in named
<1> DEFINE S == Candidates(a, t, named, able)
<1>1. S \subseteq Group(t) /\ S \in SUBSET Anchors /\ (named = {} \/ S \subseteq named)
  BY DEF Candidates, PlaybackVersions, Group
<1>2. Choice(a, t, named, able) = BestOf(S)
  BY DEF Choice
<1>3. BestOf(S) = 0 \/ BestOf(S) \in S
  BY <1>1, BestOfIsBest
<1> QED
  BY <1>1, <1>2, <1>3

\* What requests and sessions rely on does not change while no edit commits.
LEMMA NoEditKeeps ==
  ASSUME UNCHANGED editVars, GroupsFlat, StoppingCounted
  PROVE  /\ GroupsFlat' /\ StoppingCounted'
         /\ \A t, u : Offers(t, u)' = Offers(t, u)
         /\ \A t : IsMember(t)' = IsMember(t)
         /\ \A p : PlanCurrent(p)' <=> PlanCurrent(p)
         /\ \A s : SessionCurrent(s)' <=> SessionCurrent(s)
<1>1. /\ canonicalOf' = canonicalOf /\ repairs' = repairs /\ stopping' = stopping /\ unstopped' = unstopped
      /\ versionEdits' = versionEdits
  BY DEF editVars
<1>2. /\ \A t : IsMember(t)' = IsMember(t)
      /\ \A t, u : Offers(t, u)' = Offers(t, u)
  BY <1>1 DEF IsMember, Offers, Group
<1>3. GroupsFlat' /\ StoppingCounted'
  BY <1>1 DEF GroupsFlat, StoppingCounted, IsMember, AnchorEligible
<1>4. \A p : PlanCurrent(p)' <=> PlanCurrent(p)
  BY <1>1, <1>2 DEF PlanCurrent
<1>5. \A s : SessionCurrent(s)' <=> SessionCurrent(s)
  BY <1>1, <1>2 DEF SessionCurrent
<1> QED
  BY <1>2, <1>3, <1>4, <1>5

\* A step that only replaces one request and removes sessions keeps the invariant
\* when the request that replaces it is current.
LEMMA PlanStep ==
  ASSUME VersionsInduction, UNCHANGED editVars, NEW a \in Audience, NEW q \in Plans, PlanCurrent(q),
         planning' = [planning EXCEPT ![a] = q], playing' \subseteq playing, plansDrawn' \in Nat
  PROVE  VersionsInduction'
<1>1. VersionsTypeOK'
  BY DEF VersionsInduction, VersionsTypeOK, editVars
<1>2. GroupsFlat /\ StoppingCounted /\ PlansCurrent /\ SessionsFollow /\ planning \in [Audience -> Plans]
  BY DEF VersionsInduction, VersionsTypeOK
<1>3. GroupsFlat' /\ StoppingCounted'
  BY <1>2, NoEditKeeps
<1>4. SessionsFollow'
  BY <1>2, NoEditKeeps DEF SessionsFollow
<1>5. PlansCurrent'
  <2> SUFFICES ASSUME NEW b \in Audience PROVE PlanCurrent(planning[b])'
    BY DEF PlansCurrent
  <2>1. PICK r : r = planning'[b]
    OBVIOUS
  <2>2. PlanCurrent(r)
    BY <2>1, <1>2 DEF PlansCurrent
  <2> QED
    BY <2>1, <2>2, <1>2, NoEditKeeps DEF PlanCurrent
<1> QED
  BY <1>1, <1>3, <1>4, <1>5 DEF VersionsInduction

\* The request that is no request is current.
LEMMA NoPlanCurrent == NoPlan \in Plans /\ PlanCurrent(NoPlan)
  BY DEF NoPlan, Plans, PlanCurrent

\* The first checks of a plan (BeginPlan).
LEMMA BeginPlanStep ==
  ASSUME VersionsInduction, NEW a \in Audience, NEW t \in Anchors,
         NEW asked \in {"auto", "remembered", "version"}, BeginPlan(a, t, asked)
  PROVE  VersionsInduction'
<1> DEFINE q == [NoPlan EXCEPT !.step = "begun", !.title = t, !.asked = asked,
                               !.checkedAt = versionEdits, !.id = plansDrawn + 1]
<1>1. versionEdits \in Nat /\ plansDrawn \in Nat
  BY DEF VersionsInduction, VersionsTypeOK
<1>2. q \in Plans /\ q.step = "begun" /\ q.title = t /\ q.checkedAt = versionEdits
  <2>1. plansDrawn + 1 \in Nat /\ NoPlan \in Plans
    BY <1>1, NoPlanCurrent
  <2> QED
    BY <2>1, <1>1 DEF Plans
<1>3. PlanCurrent(q)
  BY <1>1, <1>2 DEF PlanCurrent, BeginPlan, PlayableTitle
<1>4. /\ planning' = [planning EXCEPT ![a] = q] /\ UNCHANGED editVars
      /\ playing' \subseteq playing /\ plansDrawn' \in Nat
  BY <1>1 DEF BeginPlan
<1> HIDE DEF q
<1> QED
  BY <1>2, <1>3, <1>4, PlanStep

\* The choice of a version (ChooseVersion, ChooseNamed).
LEMMA ChooseStep ==
  ASSUME VersionsInduction, NEW a \in Audience,
         \/ \E able \in Devices : ChooseVersion(a, able)
         \/ \E u \in Anchors : ChooseNamed(a, u)
  PROVE  VersionsInduction'
<1> DEFINE p == planning[a]
<1>1. p \in Plans /\ PlanCurrent(p) /\ plansDrawn \in Nat
  BY DEF VersionsInduction, VersionsTypeOK, PlansCurrent
<1>2. p.step = "begun" /\ UNCHANGED <<editVars, playing, plansDrawn>>
  BY DEF ChooseVersion, ChooseNamed
<1>3. PICK q : /\ planning' = [planning EXCEPT ![a] = q]
               /\ \/ q = NoPlan
                  \/ \E v \in Group(p.title) \cap Anchors : q = [p EXCEPT !.step = "chosen", !.version = v]
  <2>1. CASE \E able \in Devices : ChooseVersion(a, able)
    <3>1. PICK able \in Devices : ChooseVersion(a, able)
      BY <2>1
    <3> DEFINE v == Choice(a, p.title, RequestedVersion(a, p.title, p.asked), able)
    <3>2. planning' = [planning EXCEPT ![a] =
                         IF v = 0 THEN NoPlan ELSE [p EXCEPT !.step = "chosen", !.version = v]]
      BY <3>1 DEF ChooseVersion
    <3>3. v = 0 \/ v \in Group(p.title) \cap Anchors
      BY ChoiceInGroup
    <3> HIDE DEF v
    <3> QED
      BY <3>2, <3>3
  <2>2. CASE \E u \in Anchors : ChooseNamed(a, u)
    <3>1. PICK u \in Anchors : ChooseNamed(a, u)
      BY <2>2
    <3> DEFINE v == Choice(a, p.title, {u}, Anchors)
    <3>2. planning' = [planning EXCEPT ![a] =
                         IF v = 0 THEN NoPlan ELSE [p EXCEPT !.step = "chosen", !.version = u]]
      BY <3>1 DEF ChooseNamed
    <3>3. v = 0 \/ u \in Group(p.title) \cap Anchors
      BY ChoiceInGroup
    <3> HIDE DEF v
    <3> QED
      BY <3>2, <3>3
  <2> QED
    BY <2>1, <2>2
<1>4. q \in Plans /\ PlanCurrent(q)
  <2>1. CASE q = NoPlan
    BY <2>1, NoPlanCurrent
  <2>2. CASE \E v \in Group(p.title) \cap Anchors : q = [p EXCEPT !.step = "chosen", !.version = v]
    <3>1. PICK v \in Group(p.title) \cap Anchors : q = [p EXCEPT !.step = "chosen", !.version = v]
      BY <2>2
    <3>2. /\ q \in Plans /\ q.step = "chosen" /\ q.version = v
          /\ q.title = p.title /\ q.checkedAt = p.checkedAt
      BY <3>1, <1>1 DEF Plans
    <3>3. /\ p.title \in Anchors /\ p.checkedAt <= versionEdits
          /\ p.checkedAt = versionEdits => ~IsMember(p.title)
      BY <1>1, <1>2 DEF PlanCurrent
    <3> QED
      BY <3>1, <3>2, <3>3 DEF PlanCurrent, Offers
  <2> QED
    BY <1>3, <2>1, <2>2
<1> QED
  BY <1>1, <1>2, <1>3, <1>4, PlanStep

\* A request of a live session (FollowOn).
LEMMA FollowOnStep ==
  ASSUME VersionsInduction, NEW s \in playing, NEW kind \in {"seek", "audio"}, FollowOn(s.viewer, s, kind)
  PROVE  VersionsInduction'
<1> DEFINE a == s.viewer
           q == [NoPlan EXCEPT !.step = "chosen", !.title = s.title, !.version = s.version, !.asked = "pinned",
                               !.checkedAt = IF kind = "seek" THEN s.checkedAt ELSE versionEdits,
                               !.id = plansDrawn + 1, !.replaces = s.id]
<1>1. versionEdits \in Nat /\ plansDrawn \in Nat /\ s \in Sessions /\ SessionCurrent(s) /\ StoppingCounted
  BY DEF VersionsInduction, VersionsTypeOK, SessionsFollow
<1>2. /\ a \in Audience /\ s.title \in Anchors /\ s.version \in Anchors
      /\ s.checkedAt \in Nat /\ s.since \in Nat /\ s.id \in Nat
  BY <1>1 DEF Sessions
<1>3. /\ q \in Plans /\ q.step = "chosen" /\ q.title = s.title /\ q.version = s.version
      /\ q.checkedAt = IF kind = "seek" THEN s.checkedAt ELSE versionEdits
  <2>1. PICK c \in Nat : c = IF kind = "seek" THEN s.checkedAt ELSE versionEdits
    BY <1>1, <1>2
  <2>2. q = [NoPlan EXCEPT !.step = "chosen", !.title = s.title, !.version = s.version, !.asked = "pinned",
                           !.checkedAt = c, !.id = plansDrawn + 1, !.replaces = s.id]
    BY <2>1
  <2>3. plansDrawn + 1 \in Nat /\ NoPlan \in Plans
    BY <1>1, NoPlanCurrent
  <2> QED
    BY <2>1, <2>2, <2>3, <1>2 DEF Plans
<1>4. q.checkedAt <= versionEdits
  BY <1>1, <1>2, <1>3 DEF SessionCurrent
<1>5. ASSUME q.checkedAt = versionEdits PROVE Offers(s.title, s.version)
  <2>1. CASE kind = "seek"
    <3>1. s.checkedAt = s.since /\ s.since = versionEdits
      BY <2>1, <1>5, <1>1, <1>2, <1>3 DEF SessionCurrent
    <3>2. \A edit \in stopping : ~(edit[1] >= s.since)
      <4>1. \A edit \in stopping : edit[1] \in Nat
        BY DEF VersionsInduction, VersionsTypeOK
      <4> QED
        BY <4>1, <3>1, <1>1 DEF StoppingCounted
    <3> QED
      BY <3>1, <3>2, <1>1 DEF SessionCurrent
  <2>2. CASE kind = "audio"
    BY <2>2 DEF FollowOn, PlayableTitle, VersionSource, Offers
  <2> QED
    BY <2>1, <2>2
<1>6. PlanCurrent(q)
  BY <1>2, <1>3, <1>4, <1>5 DEF PlanCurrent
<1>7. /\ planning' = [planning EXCEPT ![a] = q] /\ UNCHANGED editVars
      /\ playing' \subseteq playing /\ plansDrawn' \in Nat
  BY <1>1 DEF FollowOn
<1> HIDE DEF q
<1> QED
  BY <1>2, <1>3, <1>6, <1>7, PlanStep

\* The manager starts a process, or the title no longer has the version (StartVersion).
LEMMA StartVersionStep ==
  ASSUME VersionsInduction, NEW a \in Audience, StartVersion(a)
  PROVE  VersionsInduction'
<1> DEFINE p == planning[a]
<1>1. p \in Plans /\ PlanCurrent(p) /\ plansDrawn \in Nat
  BY DEF VersionsInduction, VersionsTypeOK, PlansCurrent
<1>2. p.step = "chosen" /\ UNCHANGED <<editVars, playing, plansDrawn>>
  BY DEF StartVersion
<1>3. PICK q : /\ planning' = [planning EXCEPT ![a] = q]
               /\ \/ q = NoPlan
                  \/ q = [p EXCEPT !.step = "started"]
                  \/ q = [p EXCEPT !.step = "started", !.reading = TRUE]
  BY DEF StartVersion
<1>4. q \in Plans /\ PlanCurrent(q)
  <2>1. CASE q = NoPlan
    BY <2>1, NoPlanCurrent
  <2>2. CASE q # NoPlan
    <3>1. /\ q \in Plans /\ q.step = "started" /\ q.version = p.version
          /\ q.title = p.title /\ q.checkedAt = p.checkedAt
      BY <2>2, <1>3, <1>1 DEF Plans
    <3> QED
      BY <3>1, <1>1, <1>2 DEF PlanCurrent
  <2> QED
    BY <2>1, <2>2
<1> QED
  BY <1>1, <1>2, <1>3, <1>4, PlanStep

\* The session enters the manager's map (RegisterSession).
LEMMA RegisterStep ==
  ASSUME VersionsInduction, NEW a \in Audience, RegisterSession(a)
  PROVE  VersionsInduction'
<1> DEFINE p == planning[a]
           session == [id |-> p.id, viewer |-> a, title |-> p.title, version |-> p.version,
                       reading |-> p.reading, checkedAt |-> p.checkedAt, since |-> versionEdits]
<1>1. /\ p \in Plans /\ PlanCurrent(p) /\ plansDrawn \in Nat /\ versionEdits \in Nat /\ p.step = "started"
      /\ UNCHANGED <<editVars, plansDrawn>>
  BY DEF VersionsInduction, VersionsTypeOK, PlansCurrent, RegisterSession
<1>2. /\ p.title \in Anchors /\ p.version \in Anchors /\ p.checkedAt <= versionEdits
      /\ p.checkedAt = versionEdits => Offers(p.title, p.version)
  BY <1>1 DEF PlanCurrent
<1>3. session \in Sessions
  BY <1>1, <1>2 DEF Plans, Sessions
<1>4. SessionCurrent(session)
  BY <1>1, <1>2 DEF SessionCurrent
<1>5. playing' \subseteq playing \cup {session}
  BY DEF RegisterSession
<1>6. PICK q : planning' = [planning EXCEPT ![a] = q] /\ (q = NoPlan \/ q = [p EXCEPT !.step = "registered"])
  BY DEF RegisterSession
<1>7. q \in Plans /\ PlanCurrent(q)
  <2>1. CASE q = NoPlan
    BY <2>1, NoPlanCurrent
  <2>2. CASE q = [p EXCEPT !.step = "registered"]
    <3>1. q \in Plans /\ q.step = "registered" /\ q.title = p.title /\ q.checkedAt = p.checkedAt
      BY <2>2, <1>1 DEF Plans
    <3> QED
      BY <3>1, <1>2 DEF PlanCurrent
  <2> QED
    BY <1>6, <2>1, <2>2
<1> HIDE DEF session
<1>8. GroupsFlat /\ StoppingCounted /\ PlansCurrent /\ SessionsFollow /\ VersionsTypeOK
  BY DEF VersionsInduction
<1>9. VersionsTypeOK'
  BY <1>1, <1>3, <1>5, <1>6, <1>7, <1>8 DEF VersionsTypeOK, editVars
<1>10. GroupsFlat' /\ StoppingCounted'
  BY <1>1, <1>8, NoEditKeeps
<1>11. SessionsFollow'
  BY <1>1, <1>4, <1>5, <1>8, NoEditKeeps DEF SessionsFollow
<1>12. PlansCurrent'
  <2> SUFFICES ASSUME NEW b \in Audience PROVE PlanCurrent(planning[b])'
    BY DEF PlansCurrent
  <2>1. PICK r : r = planning'[b]
    OBVIOUS
  <2>2. PlanCurrent(r)
    BY <2>1, <1>6, <1>7, <1>8 DEF PlansCurrent, VersionsTypeOK
  <2> QED
    BY <2>1, <2>2, <1>1, <1>8, NoEditKeeps DEF PlanCurrent
<1> QED
  BY <1>9, <1>10, <1>11, <1>12 DEF VersionsInduction

\* A plan is admitted, or a session stopped (AdmitPlan, StopSession).
LEMMA SettleStep ==
  ASSUME VersionsInduction,
         \/ \E a \in Audience : AdmitPlan(a)
         \/ \E s \in playing : StopSession(s)
  PROVE  VersionsInduction'
<1>1. CASE \E a \in Audience : AdmitPlan(a)
  <2>1. PICK a \in Audience : AdmitPlan(a)
    BY <1>1
  <2>2. /\ planning' = [planning EXCEPT ![a] = NoPlan] /\ UNCHANGED editVars
        /\ playing' \subseteq playing /\ plansDrawn' \in Nat
    BY <2>1 DEF AdmitPlan, VersionsInduction, VersionsTypeOK
  <2> QED
    BY <2>2, NoPlanCurrent, PlanStep
<1>2. CASE \E s \in playing : StopSession(s)
  <2>1. PICK s \in playing : StopSession(s)
    BY <1>2
  <2>2. /\ UNCHANGED <<editVars, plansDrawn>> /\ playing' \subseteq playing
        /\ planning' \in [Audience -> {NoPlan} \cup Plans]
        /\ \A b \in Audience : planning'[b] = NoPlan \/ planning'[b] = planning[b]
    BY <2>1 DEF StopSession, VersionsInduction, VersionsTypeOK
  <2>3. GroupsFlat /\ StoppingCounted /\ PlansCurrent /\ SessionsFollow /\ VersionsTypeOK
    BY DEF VersionsInduction
  <2>4. VersionsTypeOK'
    BY <2>2, <2>3, NoPlanCurrent DEF VersionsTypeOK, editVars
  <2>5. GroupsFlat' /\ StoppingCounted' /\ SessionsFollow'
    BY <2>2, <2>3, NoEditKeeps DEF SessionsFollow
  <2>6. PlansCurrent'
    <3> SUFFICES ASSUME NEW b \in Audience PROVE PlanCurrent(planning[b])'
      BY DEF PlansCurrent
    <3>1. PICK r : r = planning'[b]
      OBVIOUS
    <3>2. PlanCurrent(r)
      BY <3>1, <2>2, <2>3, NoPlanCurrent DEF PlansCurrent
    <3> QED
      BY <3>1, <3>2, <2>2, <2>3, NoEditKeeps DEF PlanCurrent
  <2> QED
    BY <2>4, <2>5, <2>6 DEF VersionsInduction
<1> QED
  BY <1>1, <1>2

-----------------------------------------------------------------------------
(* Edits.                                                                    *)

\* Once an edit is counted no request is ahead of it.
LEMMA PlansAfterEdit ==
  ASSUME VersionsInduction, versionEdits' = versionEdits + 1, planning' = planning
  PROVE  PlansCurrent'
<1> SUFFICES ASSUME NEW b \in Audience PROVE PlanCurrent(planning[b])'
  BY DEF PlansCurrent
<1>1. PICK r : r = planning[b]
  OBVIOUS
<1>2. PlanCurrent(r) /\ r \in Plans /\ versionEdits \in Nat
  BY <1>1 DEF VersionsInduction, VersionsTypeOK, PlansCurrent
<1>3. r.checkedAt \in Nat
  BY <1>2 DEF Plans
<1> QED
  BY <1>1, <1>2, <1>3 DEF PlanCurrent

\* The sessions of the titles E are to be stopped, or never will be.
Answered(E) ==
  /\ unstopped \subseteq unstopped'
  /\ \/ stopping' = stopping \cup {<<versionEdits, E>>}
     \/ stopping' = stopping /\ \A s \in playing : s.title \in E => s.id \in unstopped'

\* A session survives an edit that leaves what its title offers alone or marks it.
LEMMA SessionsAfterEdit ==
  ASSUME VersionsInduction, versionEdits' = versionEdits + 1, playing' = playing,
         NEW E \in SUBSET Anchors, Answered(E),
         \A t, u \in Anchors : Offers(t, u) /\ ~Offers(t, u)' => t \in E
  PROVE  SessionsFollow' /\ StoppingCounted'
<1>1. versionEdits \in Nat /\ stopping \subseteq Nat \X SUBSET Anchors /\ StoppingCounted
  BY DEF VersionsInduction, VersionsTypeOK
<1>2. StoppingCounted'
  BY <1>1 DEF StoppingCounted, Answered
<1>3. SessionsFollow'
  <2> SUFFICES ASSUME NEW s \in playing PROVE SessionCurrent(s)'
    BY DEF SessionsFollow
  <2>1. SessionCurrent(s) /\ s \in Sessions
    BY DEF VersionsInduction, VersionsTypeOK, SessionsFollow
  <2>2. s.title \in Anchors /\ s.version \in Anchors /\ s.checkedAt \in Nat /\ s.since \in Nat
    BY <2>1 DEF Sessions
  <2>3. s.checkedAt <= s.since /\ s.since <= versionEdits'
    BY <1>1, <2>1, <2>2 DEF SessionCurrent
  <2>4. ASSUME s.checkedAt = s.since, ~Offers(s.title, s.version)'
        PROVE  \/ s.id \in unstopped' /\ s.since < versionEdits'
               \/ \E edit \in stopping' : edit[1] >= s.since /\ s.title \in edit[2]
    <3>0. versionEdits >= s.since /\ s.since < versionEdits'
      BY <1>1, <2>1, <2>2 DEF SessionCurrent
    <3>1. CASE Offers(s.title, s.version)
      <4>1. s.title \in E /\ (<<versionEdits, E>> \in stopping' \/ s.id \in unstopped')
        BY <3>1, <2>2, <2>4 DEF Answered
      <4> QED
        BY <4>1, <3>0
    <3>2. CASE ~Offers(s.title, s.version)
      <4>1. unstopped \subseteq unstopped' /\ stopping \subseteq stopping'
        BY DEF Answered
      <4> QED
        BY <3>0, <3>2, <4>1, <2>1, <2>4 DEF SessionCurrent
    <3> QED
      BY <3>1, <3>2
  <2> QED
    BY <2>3, <2>4 DEF SessionCurrent
<1> QED
  BY <1>2, <1>3

\* Grouping titles (CreateMediaVersionGroup).
LEMMA CreateGroupStep ==
  ASSUME VersionsInduction, NEW c \in Anchors, NEW members \in SUBSET Anchors,
         NEW readBack \in BOOLEAN, CreateMediaVersionGroup(c, members, readBack)
  PROVE  VersionsInduction'
<1>0. VersionsTypeOK /\ GroupsFlat
  BY DEF VersionsInduction
<1>1. /\ canonicalOf \in [Anchors -> Anchors] /\ versionEdits \in Nat
      /\ canonicalOf' = [t \in Anchors |-> IF t \in members THEN c ELSE canonicalOf[t]]
      /\ AfterCommit({c} \cup members, readBack)
      /\ versionEdits' = versionEdits + 1
      /\ repairs' = repairs /\ playing' = playing /\ planning' = planning /\ plansDrawn' = plansDrawn
      /\ c \notin members
      /\ \A t \in {c} \cup members : AnchorEligible(t) /\ canonicalOf[t] = t /\ Group(t) = {t}
  BY <1>0 DEF CreateMediaVersionGroup, Edited, Affected, Ungrouped, IsMember, VersionsTypeOK
<1>2. VersionsTypeOK'
  BY <1>0, <1>1 DEF VersionsTypeOK, AfterCommit
<1>3. GroupsFlat'
  <2> SUFFICES ASSUME NEW t \in Anchors, IsMember(t)'
               PROVE  /\ ~IsMember(canonicalOf[t])'
                      /\ AnchorEligible(t)' /\ AnchorEligible(canonicalOf[t])'
    BY DEF GroupsFlat
  <2>1. PICK d : d = canonicalOf'[t]
    OBVIOUS
  <2>2. SUFFICES ~IsMember(d)' /\ AnchorEligible(t)' /\ AnchorEligible(d)'
    BY <2>1 DEF IsMember, AnchorEligible
  <2>3. CASE t \in members
    BY <2>1, <2>3, <1>1 DEF IsMember, AnchorEligible
  <2>4. CASE t \notin members
    <3>1. d = canonicalOf[t] /\ IsMember(t)
      BY <2>1, <2>4, <1>1 DEF IsMember
    <3>2. ~IsMember(d) /\ AnchorEligible(t) /\ AnchorEligible(d)
      BY <3>1, <1>0 DEF GroupsFlat
    <3>3. d \notin members
      <4>1. ASSUME d \in members PROVE FALSE
        <5>1. t \in Group(d)
          BY <3>1, <1>1, <4>1 DEF Group
        <5> QED
          BY <5>1, <4>1, <1>1, <2>4
      <4> QED
        BY <4>1
    <3> QED
      BY <3>1, <3>2, <3>3, <1>1 DEF IsMember, AnchorEligible
  <2> QED
    BY <2>3, <2>4
<1>4. ASSUME NEW t \in Anchors, NEW u \in Anchors, Offers(t, u), ~Offers(t, u)'
      PROVE  t \in {c} \cup members
  <2>1. canonicalOf[t] = t /\ canonicalOf[u] = t
    BY <1>4 DEF Offers, IsMember, Group
  <2>2. SUFFICES ASSUME t \notin members PROVE t = c
    OBVIOUS
  <2>3. canonicalOf'[t] = t
    BY <2>1, <2>2, <1>1
  <2>4. u \in members
    BY <1>1, <1>4, <2>1, <2>3 DEF Offers, IsMember, Group
  <2> QED
    BY <2>1, <2>4, <2>2, <1>1
<1>5. SessionsFollow' /\ StoppingCounted'
  <2>1. PICK E \in SUBSET Anchors : E = {c} \cup members
    OBVIOUS
  <2>2. /\ Answered(E)
        /\ versionEdits' = versionEdits + 1 /\ playing' = playing
    BY <1>1, <2>1 DEF AfterCommit, Answered
  <2>3. \A t, u \in Anchors : Offers(t, u) /\ ~Offers(t, u)' => t \in E
    BY <1>4, <2>1
  <2> QED
    BY <2>2, <2>3, SessionsAfterEdit
<1>6. PlansCurrent'
  BY <1>1, PlansAfterEdit
<1> QED
  BY <1>2, <1>3, <1>5, <1>6 DEF VersionsInduction

\* Taking a title out of its group (UngroupMediaVersion).
LEMMA UngroupStep ==
  ASSUME VersionsInduction, NEW c \in Anchors, NEW m \in Anchors, NEW readBack \in BOOLEAN,
         UngroupMediaVersion(c, m, readBack)
  PROVE  VersionsInduction'
<1>0. VersionsTypeOK /\ GroupsFlat
  BY DEF VersionsInduction
<1>1. /\ canonicalOf \in [Anchors -> Anchors] /\ versionEdits \in Nat
      /\ canonicalOf' = [canonicalOf EXCEPT ![m] = m]
      /\ AfterCommit({c} \cup {m}, readBack)
      /\ versionEdits' = versionEdits + 1
      /\ repairs' = repairs /\ playing' = playing /\ planning' = planning /\ plansDrawn' = plansDrawn
      /\ c # m /\ canonicalOf[m] = c
  BY <1>0 DEF UngroupMediaVersion, Edited, Affected, VersionsTypeOK
<1>2. VersionsTypeOK'
  BY <1>0, <1>1 DEF VersionsTypeOK, AfterCommit
<1>3. GroupsFlat'
  <2> SUFFICES ASSUME NEW t \in Anchors, IsMember(t)'
               PROVE  /\ ~IsMember(canonicalOf[t])'
                      /\ AnchorEligible(t)' /\ AnchorEligible(canonicalOf[t])'
    BY DEF GroupsFlat
  <2>1. PICK d : d = canonicalOf'[t]
    OBVIOUS
  <2>2. SUFFICES ~IsMember(d)' /\ AnchorEligible(t)' /\ AnchorEligible(d)'
    BY <2>1 DEF IsMember, AnchorEligible
  <2>3. t # m /\ d = canonicalOf[t] /\ IsMember(t) /\ d \in Anchors
    BY <2>1, <1>1 DEF IsMember
  <2>4. ~IsMember(d) /\ AnchorEligible(t) /\ AnchorEligible(d)
    BY <2>3, <1>0 DEF GroupsFlat
  <2> QED
    BY <2>3, <2>4, <1>1 DEF IsMember, AnchorEligible
<1>4. ASSUME NEW t \in Anchors, NEW u \in Anchors, Offers(t, u), ~Offers(t, u)'
      PROVE  t \in {c} \cup {m}
  BY <1>1, <1>4 DEF Offers, IsMember, Group
<1>5. SessionsFollow' /\ StoppingCounted'
  <2>1. PICK E \in SUBSET Anchors : E = {c} \cup {m}
    OBVIOUS
  <2>2. /\ Answered(E)
        /\ versionEdits' = versionEdits + 1 /\ playing' = playing
    BY <1>1, <2>1 DEF AfterCommit, Answered
  <2>3. \A t, u \in Anchors : Offers(t, u) /\ ~Offers(t, u)' => t \in E
    BY <1>4, <2>1
  <2> QED
    BY <2>2, <2>3, SessionsAfterEdit
<1>6. PlansCurrent'
  BY <1>1, PlansAfterEdit
<1> QED
  BY <1>2, <1>3, <1>5, <1>6 DEF VersionsInduction

\* Edits that leave the membership table alone: labels, repairs, and the disk
\* (SetEditionLabel, MergeTitles, UnmergeTitles, SourceChanges).
LEMMA OtherEditStep ==
  ASSUME VersionsInduction,
         \/ \E t \in Anchors, l \in Labels, readBack \in BOOLEAN : SetEditionLabel(t, l, readBack)
         \/ \E c, t \in Anchors : MergeTitles(c, t)
         \/ \E m \in repairs : UnmergeTitles(m)
         \/ \E t \in Anchors : SourceChanges(t)
  PROVE  VersionsInduction'
<1>0. VersionsTypeOK /\ GroupsFlat
  BY DEF VersionsInduction
<1>1. /\ canonicalOf' = canonicalOf /\ versionEdits' = versionEdits + 1
      /\ playing' = playing /\ planning' = planning /\ plansDrawn' = plansDrawn
  BY DEF SetEditionLabel, MergeTitles, UnmergeTitles, SourceChanges, Edited
<1>2. PICK E \in SUBSET Anchors : Answered(E)
  <2>1. CASE \E t \in Anchors, l \in Labels, readBack \in BOOLEAN : SetEditionLabel(t, l, readBack)
    <3>1. PICK t \in Anchors, l \in Labels, readBack \in BOOLEAN : SetEditionLabel(t, l, readBack)
      BY <2>1
    <3>2. PICK E : E = Affected(t, {})
      OBVIOUS
    <3>3. E \in SUBSET Anchors
      BY <3>2 DEF Affected
    <3>4. Answered(E)
      BY <3>1, <3>2 DEF SetEditionLabel, AfterCommit, Answered
    <3> QED
      BY <3>3, <3>4
  <2>2. CASE stopping' = stopping /\ unstopped' = unstopped
    <3>1. Answered({})
      BY <2>2 DEF Answered
    <3>2. {} \in SUBSET Anchors
      OBVIOUS
    <3> QED
      BY <3>1, <3>2
  <2> QED
    BY <2>1, <2>2 DEF MergeTitles, UnmergeTitles, SourceChanges
<1>3. repairs' \subseteq Anchors \X Anchors
  BY <1>0 DEF SetEditionLabel, MergeTitles, UnmergeTitles, SourceChanges, VersionsTypeOK
<1>4. VersionsTypeOK'
  <2>1. stopping' \subseteq Nat \X SUBSET Anchors
    BY <1>0, <1>2 DEF VersionsTypeOK, Answered
  <2> QED
    BY <1>0, <1>1, <1>3, <2>1 DEF VersionsTypeOK
<1>5. \A t : (IsMember(t)' <=> IsMember(t)) /\ Group(t)' = Group(t)
  BY <1>1 DEF IsMember, Group
<1>6. \A t, u \in Anchors : Offers(t, u) /\ ~Offers(t, u)' => t \in E
  BY <1>5 DEF Offers
<1>7. SessionsFollow' /\ StoppingCounted'
  BY <1>1, <1>2, <1>6, SessionsAfterEdit
<1>8. PlansCurrent'
  BY <1>1, PlansAfterEdit
<1>9. ASSUME NEW t \in Anchors, AnchorEligible(t), IsMember(t) \/ \E u \in Anchors : IsMember(u) /\ canonicalOf[u] = t
      PROVE  AnchorEligible(t)'
  <2>1. CASE repairs' \subseteq repairs
    BY <2>1, <1>9 DEF AnchorEligible
  <2>2. CASE \E c, d \in Anchors : MergeTitles(c, d)
    <3>1. PICK c, d \in Anchors : MergeTitles(c, d)
      BY <2>2
    <3>2. /\ repairs' = repairs \cup {<<c, d>>} /\ canonicalOf[d] = d /\ Group(d) = {d}
      BY <3>1 DEF MergeTitles, Mergeable
    <3>3. t # d
      BY <3>2, <1>9 DEF IsMember, Group
    <3> QED
      BY <3>2, <3>3, <1>9 DEF AnchorEligible
  <2> QED
    BY <2>1, <2>2 DEF SetEditionLabel, UnmergeTitles, SourceChanges
<1>10. GroupsFlat'
  <2> SUFFICES ASSUME NEW t \in Anchors, IsMember(t)'
               PROVE  /\ ~IsMember(canonicalOf[t])'
                      /\ AnchorEligible(t)' /\ AnchorEligible(canonicalOf[t])'
    BY DEF GroupsFlat
  <2>1. PICK d : d = canonicalOf[t]
    OBVIOUS
  <2>2. d \in Anchors /\ IsMember(t) /\ ~IsMember(d) /\ AnchorEligible(t) /\ AnchorEligible(d)
    BY <2>1, <1>0, <1>5 DEF GroupsFlat, VersionsTypeOK
  <2>3. AnchorEligible(t)' /\ AnchorEligible(d)' /\ ~IsMember(d)'
    BY <2>1, <2>2, <1>5, <1>9
  <2> QED
    BY <2>1, <2>3, <1>1 DEF IsMember, AnchorEligible
<1> QED
  BY <1>4, <1>7, <1>8, <1>10 DEF VersionsInduction

\* The sessions of an edit's titles are stopped (StopEdited).
LEMMA StopEditedStep ==
  ASSUME VersionsInduction, NEW edit \in stopping, StopEdited(edit)
  PROVE  VersionsInduction'
<1>0. VersionsTypeOK /\ GroupsFlat /\ StoppingCounted /\ PlansCurrent /\ SessionsFollow
  BY DEF VersionsInduction
<1>1. /\ stopping' = stopping \ {edit} /\ unstopped' = unstopped /\ playing' = {s \in playing : s.title \notin edit[2]}
      /\ canonicalOf' = canonicalOf /\ repairs' = repairs /\ versionEdits' = versionEdits
      /\ planning' = planning /\ plansDrawn' = plansDrawn
  BY DEF StopEdited
<1>2. VersionsTypeOK'
  BY <1>0, <1>1 DEF VersionsTypeOK
<1>3. GroupsFlat' /\ StoppingCounted'
  BY <1>0, <1>1 DEF GroupsFlat, StoppingCounted, IsMember, AnchorEligible
<1>4. \A t, u : (Offers(t, u)' <=> Offers(t, u)) /\ (IsMember(t)' <=> IsMember(t))
  BY <1>1 DEF Offers, IsMember, Group
<1>5. PlansCurrent'
  BY <1>0, <1>1, <1>4 DEF PlansCurrent, PlanCurrent
<1>6. SessionsFollow'
  <2> SUFFICES ASSUME NEW s \in playing, s.title \notin edit[2] PROVE SessionCurrent(s)'
    BY <1>1 DEF SessionsFollow
  <2>1. SessionCurrent(s)
    BY <1>0 DEF SessionsFollow
  <2> QED
    BY <2>1, <1>1, <1>4 DEF SessionCurrent
<1> QED
  BY <1>2, <1>3, <1>5, <1>6 DEF VersionsInduction

\* The invariant holds in every behaviour.
LEMMA VersionsInduct == VersionsSpec => []VersionsInduction
<1>1. VersionsInit => VersionsInduction
  <2> SUFFICES ASSUME VersionsInit PROVE VersionsInduction
    OBVIOUS
  <2>1. VersionsTypeOK
    BY NoPlanCurrent DEF VersionsInit, VersionsTypeOK
  <2>2. GroupsFlat /\ StoppingCounted /\ SessionsFollow
    BY DEF VersionsInit, GroupsFlat, StoppingCounted, SessionsFollow, IsMember
  <2>3. PlansCurrent
    BY NoPlanCurrent DEF VersionsInit, PlansCurrent
  <2> QED
    BY <2>1, <2>2, <2>3 DEF VersionsInduction
<1>2. VersionsInduction /\ [VersionsNext]_versionVars => VersionsInduction'
  <2> SUFFICES ASSUME VersionsInduction, [VersionsNext]_versionVars PROVE VersionsInduction'
    OBVIOUS
  <2>1. CASE EditNext
    BY <2>1, CreateGroupStep, UngroupStep, OtherEditStep, StopEditedStep DEF EditNext
  <2>2. CASE PlanNext
    BY <2>2, BeginPlanStep, ChooseStep, FollowOnStep, StartVersionStep, RegisterStep, SettleStep DEF PlanNext
  <2>3. CASE UNCHANGED versionVars
    BY <2>3 DEF versionVars, editVars, VersionsInduction, VersionsTypeOK, GroupsFlat, StoppingCounted,
      PlansCurrent, PlanCurrent, SessionsFollow, SessionCurrent, Offers, IsMember, AnchorEligible, Group
  <2> QED
    BY <2>1, <2>2, <2>3 DEF VersionsNext
<1> QED
  BY <1>1, <1>2, PTL DEF VersionsSpec

\* Groups stay one level deep and unrepaired, and a session that plays what its
\* title no longer offers was admitted across an edit (CreateMediaVersionGroup,
\* UngroupMediaVersion, MergeIdentity, StopCatalogIDs).
THEOREM VersionsCorrect == VersionsSpec => []VersionsInv
<1>1. VersionsInduction => VersionsInv
  <2> SUFFICES ASSUME VersionsInduction, NEW s \in playing,
                      s.version \notin Group(s.title) \/ IsMember(s.title),
                      \A edit \in stopping : s.title \notin edit[2],
                      s.id \notin unstopped
               PROVE  s.checkedAt < s.since
    BY DEF VersionsInduction, VersionsInv, ObsoleteOnlyAcrossEdits
  <2>1. SessionCurrent(s) /\ s \in Sessions
    BY DEF VersionsInduction, VersionsTypeOK, SessionsFollow
  <2>2. s.checkedAt \in Nat /\ s.since \in Nat
    BY <2>1 DEF Sessions
  <2>3. s.checkedAt # s.since
    BY <2>1 DEF SessionCurrent, Offers
  <2> QED
    BY <2>1, <2>2, <2>3 DEF SessionCurrent
<1> QED
  BY <1>1, VersionsInduct, PTL

-----------------------------------------------------------------------------
(* The poster's rows and its files (Artwork).                                *)

Stages == [intent : BOOLEAN, desired : MaybeId, restoring : BOOLEAN, prior : MaybeId, priorPoster : BOOLEAN]
NFOs == ProviderIds \cup {"absent", "plain", "bad", "bad_id"}
Imports ==
  [at : {"started", "caching", "enriched", "persisting"}, nfo : NFOs, file : {"absent", "image", "bad"},
   complete : BOOLEAN, stage : Stages, provider : MaybeId, poster : BOOLEAN, fetched : {"none", "ok", "failed"}]
Writes ==
  [at : {"cache", "persist", "owner", "committed"}, after : Tables, created : SUBSET Nat,
   obsolete : SUBSET Nat, taken : SUBSET Nat]

\* What four slots hold when no object has two owners except the local one, shown:
\* l says that there is a local row, a, o, f and s are the objects of the artwork
\* row, the local row, its fallback and the identity row, D the disowned objects
\* and B the ones about to be removed.
Sound(l, a, o, f, s, D, B) ==
  /\ l => o # 0 /\ (a = o \/ o \in D)
  /\ ~l => o = 0 /\ f = 0
  /\ a = f => a = 0 \/ a \in D
  /\ a = s => a = 0 \/ a \in D
  /\ o = f => o = 0 \/ o \in D
  /\ o = s => o = 0 \/ o \in D
  /\ f = s => f = 0 \/ f \in D
  /\ \A x \in {a, o, f, s} : x \in B => x = 0 \/ x \in D

Slots(t) == {t.art, t.local.object, t.local.fallback, t.saved}
TableSound(t, D, B, n) ==
  /\ t \in Tables /\ Slots(t) \subseteq 0..n
  /\ Sound(t.local.row, t.art, t.local.object, t.local.fallback, t.saved, D, B)

\* A transaction that is not committed: the rows it publishes are sound, their
\* files are there, and none of the files it would withdraw has an owner.
Pending ==
  write.at \in {"cache", "persist", "owner"} =>
    /\ TableSound(write.after, disowned \cup write.taken, write.obsolete, made)
    /\ Slots(write.after) \subseteq {0} \cup objects \cup disowned \cup write.taken
    /\ \A x \in Slots(rows) : x \notin write.created

Committed ==
  /\ TableSound(rows, disowned, IF write.at = "committed" THEN write.obsolete ELSE {}, made)
  /\ Slots(rows) \subseteq {0} \cup objects \cup disowned

\* The inductive invariant.
ArtworkInduction ==
  /\ ArtworkTypeOK /\ import \in {NoImport} \cup Imports /\ write \in {NoWrite} \cup Writes
  /\ write.at = "cache" => import.at = "caching"
  /\ Committed /\ Pending

(* What each transformation of the rows does to the four slots.             *)

\* The slots of u, each given.
HasSlots(u, l, a, o, f, s) ==
  u \in Tables /\ u.local.row = l /\ u.art = a /\ u.local.object = o /\ u.local.fallback = f /\ u.saved = s

Locals == [row : BOOLEAN, object : Nat, fallback : Nat, value : BOOLEAN]
NFORows == [row : BOOLEAN, provider : MaybeId, fallback : MaybeId, poster : {"unknown", "shown", "blank"}]
Fields == [source : {"none", "local", "provider", "owner"}, locked : BOOLEAN, value : BOOLEAN]

\* The types of a table's columns.
LEMMA TableColumns ==
  /\ Tables = [art : Nat, local : Locals, saved : Nat, retry : MaybeId, nfo : NFORows, provider : MaybeId,
               owner : {"none", "match", "unmatch"}, poster : BOOLEAN, field : Fields]
  /\ \A t \in Tables : /\ t.art \in Nat /\ t.saved \in Nat /\ t.local \in Locals /\ t.nfo \in NFORows /\ t.field \in Fields
                       /\ t.retry \in MaybeId /\ t.provider \in MaybeId /\ t.poster \in BOOLEAN
                       /\ t.local.object \in Nat /\ t.local.fallback \in Nat /\ t.local.row \in BOOLEAN
                       /\ t.local.value \in BOOLEAN
  BY DEF Tables, Locals, NFORows, Fields

\* Writing the artwork columns of a table.
Updated(t, a, y, s) == [t EXCEPT !.art = a, !.local = y, !.saved = s]
LEMMA TableUpdate ==
  \A t \in Tables : \A a, s \in Nat : \A y \in Locals :
     /\ Updated(t, a, y, s) \in Tables /\ Updated(t, a, y, s).art = a
     /\ Updated(t, a, y, s).local = y /\ Updated(t, a, y, s).saved = s
     /\ Updated(t, a, y, s).retry = t.retry /\ Updated(t, a, y, s).nfo = t.nfo
     /\ Updated(t, a, y, s).field = t.field
<1> SUFFICES ASSUME NEW t \in Tables, NEW a \in Nat, NEW y \in Locals, NEW s \in Nat
             PROVE  LET u == Updated(t, a, y, s)
                    IN /\ u \in Tables /\ u.art = a /\ u.local = y /\ u.saved = s
                       /\ u.retry = t.retry /\ u.nfo = t.nfo /\ u.field = t.field
  OBVIOUS
<1> DEFINE u == [t EXCEPT !.art = a, !.local = y, !.saved = s]
<1>1. t \in [art : Nat, local : Locals, saved : Nat, retry : MaybeId, nfo : NFORows, provider : MaybeId,
             owner : {"none", "match", "unmatch"}, poster : BOOLEAN, field : Fields]
  BY TableColumns
<1>2. u \in [art : Nat, local : Locals, saved : Nat, retry : MaybeId, nfo : NFORows, provider : MaybeId,
             owner : {"none", "match", "unmatch"}, poster : BOOLEAN, field : Fields]
  BY <1>1
<1>3. /\ u.art = a /\ u.local = y /\ u.saved = s
      /\ u.retry = t.retry /\ u.nfo = t.nfo /\ u.field = t.field
  BY <1>1
<1> QED
  BY <1>2, <1>3, TableColumns DEF Updated

\* The slots of a table after its artwork columns were written.
LEMMA UpdatedSlots ==
  ASSUME NEW t \in Tables, NEW a \in Nat, NEW y \in Locals, NEW s \in Nat, NEW u, u = Updated(t, a, y, s)
  PROVE  HasSlots(u, y.row, a, y.object, y.fallback, s)
<1>1. u \in Tables /\ u.art = a /\ u.local = y /\ u.saved = s
  BY TableUpdate
<1> QED
  BY <1>1 DEF HasSlots

\* The other columns do not change the slots.
SameSlots(u, t) == u \in Tables /\ u.art = t.art /\ u.local = t.local /\ u.saved = t.saved

\* A sound table has sound slots within its bound, and the other way round.
LEMMA SoundSlots ==
  ASSUME NEW u, NEW l, NEW a, NEW o, NEW f, NEW s, HasSlots(u, l, a, o, f, s), NEW D, NEW B, NEW n
  PROVE  /\ TableSound(u, D, B, n) <=> Sound(l, a, o, f, s, D, B) /\ {a, o, f, s} \subseteq 0..n
         /\ Slots(u) = {a, o, f, s}
  BY DEF HasSlots, TableSound, Slots

\* Columns that hold no object do not make a table unsound.
LEMMA SameSound ==
  ASSUME NEW u, NEW t, SameSlots(u, t), NEW D, NEW B, NEW n, TableSound(t, D, B, n)
  PROVE  TableSound(u, D, B, n) /\ Slots(u) = Slots(t)
  BY DEF SameSlots, TableSound, Slots

\* Local artwork is shown again, over a new fallback.
LEMMA AsFallbackSlots ==
  ASSUME NEW t \in Tables, NEW x \in Nat
  PROVE  HasSlots(AsFallback(t, x), t.local.row, t.local.object, t.local.object, x, t.saved)
<1> DEFINE y == [t.local EXCEPT !.fallback = x, !.value = TRUE]
<1>1. t.local \in Locals /\ t.local.object \in Nat /\ t.saved \in Nat
  BY TableColumns
<1>2. y \in Locals /\ y.row = t.local.row /\ y.object = t.local.object /\ y.fallback = x
  BY <1>1 DEF Locals
<1>3. AsFallback(t, x) = Updated(t, t.local.object, y, t.saved)
  BY TableColumns DEF AsFallback, Tables, Updated
<1> HIDE DEF y
<1>4. HasSlots(AsFallback(t, x), y.row, t.local.object, y.object, y.fallback, t.saved)
  BY <1>1, <1>2, <1>3, UpdatedSlots
<1> QED
  BY <1>2, <1>4

\* The artwork row alone is written.
LEMMA ArtSlots ==
  ASSUME NEW t \in Tables, NEW x \in Nat
  PROVE  HasSlots([t EXCEPT !.art = x], t.local.row, x, t.local.object, t.local.fallback, t.saved)
<1>1. t.local \in Locals /\ t.saved \in Nat
  BY TableColumns
<1>2. [t EXCEPT !.art = x] = Updated(t, x, t.local, t.saved)
  BY TableColumns DEF Tables, Updated
<1> QED
  BY <1>1, <1>2, UpdatedSlots

\* The identity artwork is captured (captureIdentityArtwork).
LEMMA CaptureSlots ==
  ASSUME NEW t \in Tables
  PROVE  HasSlots(Capture(t), t.local.row, t.art, t.local.object, t.local.fallback,
                  IF t.field.locked \/ t.saved # NoObject THEN t.saved ELSE Captured(t))
<1>1. t.local \in Locals /\ t.saved \in Nat /\ t.art \in Nat /\ Captured(t) \in Nat
  BY TableColumns DEF Captured
<1>2. CASE t.field.locked \/ t.saved # NoObject
  BY <1>2 DEF Capture, HasSlots
<1>3. CASE ~(t.field.locked \/ t.saved # NoObject)
  <2>1. Capture(t) = Updated(t, t.art, t.local, Captured(t))
    BY <1>3, TableColumns DEF Capture, Updated, Tables
  <2> QED
    BY <1>1, <1>3, <2>1, UpdatedSlots
<1> QED
  BY <1>2, <1>3

\* The provider's artwork is cleared (clearProviderArtwork).
LEMMA ClearSlots ==
  ASSUME NEW t \in Tables, ~t.field.locked
  PROVE  IF t.local.row THEN HasSlots(ClearProvider(t), t.local.row, t.art, t.local.object, 0, t.saved)
         ELSE HasSlots(ClearProvider(t), t.local.row, 0, t.local.object, t.local.fallback, t.saved)
<1>1. t.local \in Locals /\ t.saved \in Nat /\ t.art \in Nat /\ NoId \in MaybeId /\ 0 \in Nat
  BY TableColumns DEF MaybeId
<1>2. PICK r : r = [t EXCEPT !.retry = NoId]
  OBVIOUS
<1>3. r \in Tables
  BY <1>1, <1>2 DEF Tables
<1>4. CASE t.local.row
  <2>1. PICK y : y = [t.local EXCEPT !.fallback = NoObject, !.value = FALSE]
    OBVIOUS
  <2>2. y \in Locals /\ y.row = t.local.row /\ y.object = t.local.object /\ y.fallback = 0
    BY <1>1, <2>1 DEF Locals, NoObject
  <2>3. ClearProvider(t) = Updated(r, t.art, y, t.saved)
    BY <1>2, <1>4, <2>1, TableColumns DEF ClearProvider, Updated, Tables
  <2>4. HasSlots(ClearProvider(t), y.row, t.art, y.object, y.fallback, t.saved)
    BY <1>1, <1>3, <2>2, <2>3, UpdatedSlots
  <2> QED
    BY <1>4, <2>2, <2>4
<1>5. CASE ~t.local.row
  <2>1. ClearProvider(t) = Updated(r, 0, t.local, t.saved)
    BY <1>2, <1>5, TableColumns DEF ClearProvider, Updated, Tables, NoObject
  <2> QED
    BY <1>1, <1>3, <1>5, <2>1, UpdatedSlots
<1> QED
  BY <1>4, <1>5

\* The identity artwork comes back (restoreIdentityArtwork).
LEMMA RestoreSlots ==
  ASSUME NEW t \in Tables, ~t.field.locked, t.saved # NoObject
  PROVE  IF t.local.row THEN HasSlots(Restore(t), t.local.row, t.art, t.local.object, t.saved, 0)
         ELSE HasSlots(Restore(t), t.local.row, t.saved, t.local.object, t.local.fallback, 0)
<1>1. t.local \in Locals /\ t.saved \in Nat /\ t.art \in Nat /\ 0 \in Nat
  BY TableColumns
<1>4. CASE t.local.row
  <2>1. PICK y : y = [t.local EXCEPT !.fallback = t.saved, !.value = TRUE]
    OBVIOUS
  <2>2. y \in Locals /\ y.row = t.local.row /\ y.object = t.local.object /\ y.fallback = t.saved
    BY <1>1, <2>1 DEF Locals
  <2>3. Restore(t) = Updated(t, t.art, y, 0)
    BY <1>4, <2>1, TableColumns DEF Restore, Updated, Tables, NoObject
  <2>4. HasSlots(Restore(t), y.row, t.art, y.object, y.fallback, 0)
    BY <1>1, <2>2, <2>3, UpdatedSlots
  <2> QED
    BY <1>4, <2>2, <2>4
<1>5. CASE ~t.local.row
  <2>1. Restore(t) = Updated(t, t.saved, t.local, 0)
    BY <1>5, TableColumns DEF Restore, Updated, Tables, NoObject
  <2> QED
    BY <1>1, <1>5, <2>1, UpdatedSlots
<1> QED
  BY <1>4, <1>5

\* A field given back holds no object (restoreLocalFieldTx).
LEMMA FieldBackSlots ==
  ASSUME NEW t \in Tables, NEW value \in BOOLEAN, NEW provider \in BOOLEAN
  PROVE  SameSlots(FieldBack(t, value, provider), t)
<1>1. PICK g : g = IF provider THEN [source |-> "provider", locked |-> FALSE, value |-> value] ELSE NoField
  OBVIOUS
<1>2. g \in Fields
  BY <1>1 DEF Fields, NoField
<1>3. FieldBack(t, value, provider) = t \/ FieldBack(t, value, provider) = [t EXCEPT !.field = g]
  BY <1>1 DEF FieldBack
<1>4. SameSlots([t EXCEPT !.field = g], t)
  BY <1>2 DEF SameSlots, Tables, Fields
<1>5. SameSlots(t, t)
  BY DEF SameSlots
<1> QED
  BY <1>3, <1>4, <1>5

\* The NFO's row is typed.
LEMMA NFORowTyped ==
  ASSUME import \in Imports, rows \in Tables
  PROVE  NFORow \in NFORows /\ NFOProvider \in MaybeId /\ NFOAsks \in MaybeId
<1>1. /\ rows.nfo \in NFORows /\ import.stage \in Stages /\ import.provider \in MaybeId
  BY TableColumns DEF Imports
<1>2. /\ rows.nfo.provider \in MaybeId /\ rows.nfo.row \in BOOLEAN
      /\ import.stage.prior \in MaybeId /\ import.stage.priorPoster \in BOOLEAN
  BY <1>1 DEF NFORows, Stages
<1>3. NFOAsks \in MaybeId
  BY <1>2 DEF NFOAsks, MaybeId
<1>4. NFOProvider \in MaybeId
  BY <1>3 DEF NFOProvider, MaybeId
<1>5. PosterValue(import.stage.priorPoster) \in {"unknown", "shown", "blank"}
  BY DEF PosterValue
<1>6. CASE rows.nfo.row
  <2>1. NFORow = [rows.nfo EXCEPT !.provider = NFOProvider]
    BY <1>6 DEF NFORow
  <2> QED
    BY <2>1, <1>1, <1>3, <1>4 DEF NFORows
<1>7. CASE ~rows.nfo.row
  <2>1. \/ NFORow = [row |-> TRUE, provider |-> NFOProvider, fallback |-> import.stage.prior,
                     poster |-> PosterValue(import.stage.priorPoster)]
        \/ NFORow = [row |-> TRUE, provider |-> NFOProvider, fallback |-> import.provider, poster |-> "unknown"]
    BY <1>7 DEF NFORow
  <2>2. [row |-> TRUE, provider |-> NFOProvider, fallback |-> import.stage.prior,
         poster |-> PosterValue(import.stage.priorPoster)] \in NFORows
    BY <1>2, <1>4, <1>5 DEF NFORows
  <2>3. [row |-> TRUE, provider |-> NFOProvider, fallback |-> import.provider, poster |-> "unknown"] \in NFORows
    BY <1>1, <1>4 DEF NFORows
  <2> QED
    BY <2>1, <2>2, <2>3, <1>3, <1>4
<1> QED
  BY <1>6, <1>7

\* The document's columns hold no object.
LEMMA DocumentSlots ==
  ASSUME NEW t \in Tables, import \in Imports, rows \in Tables
  PROVE  SameSlots(Document(t), t)
<1>1. SameSlots(t, t)
  BY DEF SameSlots
<1>2. CASE NFORemoved
  <2>1. PICK b : b = [t EXCEPT !.nfo = NoNFO]
    OBVIOUS
  <2>2. NoNFO \in NFORows
    BY DEF NoNFO, NFORows, MaybeId
  <2>3. SameSlots(b, t) /\ b \in Tables
    BY <2>1, <2>2 DEF SameSlots, Tables, NFORows
  <2>4. SameSlots(FieldBack(b, rows.nfo.poster = "shown", rows.nfo.fallback # NoId), b)
    BY <2>3, FieldBackSlots
  <2>5. Document(t) = b \/ Document(t) = FieldBack(b, rows.nfo.poster = "shown", rows.nfo.fallback # NoId)
    BY <1>2, <2>1 DEF Document
  <2> QED
    BY <2>3, <2>4, <2>5 DEF SameSlots
<1>3. CASE ~NFORemoved /\ NFOFound
  <2>1. PICK g \in Fields : g = IF t.field.source = "local" THEN NoField ELSE t.field
    BY TableColumns DEF NoField, Fields
  <2>2. Document(t) = [t EXCEPT !.nfo = NFORow, !.field = g]
    BY <1>3, <2>1 DEF Document, Tables
  <2>3. NFORow \in NFORows
    BY NFORowTyped
  <2> QED
    BY ZenonT(40), <2>1, <2>2, <2>3 DEF SameSlots, Tables, NFORows, Fields
<1>4. CASE ~NFORemoved /\ ~NFOFound
  BY <1>1, <1>4 DEF Document
<1> QED
  BY <1>2, <1>3, <1>4

\* What the plan makes of the poster and the provider is typed.
LEMMA PlanTyped ==
  ASSUME import \in Imports, rows \in Tables
  PROVE  PlannedPoster \in BOOLEAN /\ PlannedProvider \in MaybeId
<1>1. /\ rows.nfo \in NFORows /\ import.poster \in BOOLEAN /\ import.provider \in MaybeId
  BY TableColumns DEF Imports
<1>2. rows.nfo.fallback \in MaybeId /\ NFOProvider \in MaybeId
  BY <1>1, NFORowTyped DEF NFORows
<1>3. PlannedPoster \in BOOLEAN
  BY <1>1 DEF PlannedPoster
<1> QED
  BY <1>1, <1>2, <1>3 DEF PlannedProvider

\* The title's own columns hold no object.
LEMMA TitledSlots ==
  ASSUME NEW t \in Tables, import \in Imports, rows \in Tables
  PROVE  SameSlots(Titled(t), t)
<1>1. PlannedPoster \in BOOLEAN /\ PlannedProvider \in MaybeId
  BY PlanTyped
<1>2. rows.local.value \in BOOLEAN
  BY TableColumns
<1>3. PICK r \in MaybeId : r = IF t.retry = PlannedProvider THEN t.retry ELSE NoId
  BY TableColumns DEF MaybeId
<1>4. PICK p \in BOOLEAN :
        p = IF FileImported THEN TRUE ELSE IF FileRemoved THEN rows.local.value ELSE PlannedPoster
  BY <1>1, <1>2
<1>5. Titled(t) = [t EXCEPT !.provider = PlannedProvider, !.retry = r, !.poster = p]
  BY <1>3, <1>4 DEF Titled, Tables
<1>6. PICK q \in MaybeId : q = PlannedProvider
  BY <1>1
<1>7. t \in [art : Nat, local : Locals, saved : Nat, retry : MaybeId, nfo : NFORows, provider : MaybeId,
             owner : {"none", "match", "unmatch"}, poster : BOOLEAN, field : Fields]
  BY TableColumns
<1>8. PICK u : u = [t EXCEPT !.provider = q, !.retry = r, !.poster = p]
  OBVIOUS
<1>9. u.art = t.art /\ u.local = t.local /\ u.saved = t.saved
  BY <1>7, <1>8
<1>10. u \in [art : Nat, local : Locals, saved : Nat, retry : MaybeId, nfo : NFORows, provider : MaybeId,
              owner : {"none", "match", "unmatch"}, poster : BOOLEAN, field : Fields]
  BY <1>7, <1>8
<1> QED
  BY <1>5, <1>6, <1>8, <1>9, <1>10, TableColumns DEF SameSlots

\* The local layer of a plan.
LEMMA LayerSlots ==
  ASSUME NEW t \in Tables, NEW x \in Nat, import \in Imports, rows \in Tables
  PROVE  /\ FileImported =>
              HasSlots(Layer(t, x), TRUE, x, x,
                       IF t.local.row THEN t.local.fallback ELSE IF PlannedPoster THEN t.art ELSE 0, t.saved)
         /\ ~FileImported /\ FileRemoved => HasSlots(Layer(t, x), FALSE, t.local.fallback, 0, 0, t.saved)
         /\ ~FileImported /\ ~FileRemoved => Layer(t, x) = t
<1>1. /\ t.local \in Locals /\ t.saved \in Nat /\ t.art \in Nat /\ t.local.fallback \in Nat /\ t.local.row \in BOOLEAN
      /\ t.field \in Fields /\ PlannedPoster \in BOOLEAN
  BY TableColumns, PlanTyped
<1>2. ASSUME FileImported
      PROVE  HasSlots(Layer(t, x), TRUE, x, x,
                      IF t.local.row THEN t.local.fallback ELSE IF PlannedPoster THEN t.art ELSE 0, t.saved)
  <2>1. PICK g \in Fields :
          g = IF t.field.locked THEN t.field ELSE [source |-> "local", locked |-> FALSE, value |-> TRUE]
    BY <1>1 DEF Fields
  <2>2. PICK h : h = [t EXCEPT !.field = g]
    OBVIOUS
  <2>3. h \in Tables /\ h.saved = t.saved
    BY <2>1, <2>2 DEF Tables, Fields
  <2>4. PICK f \in Nat : f = IF t.local.row THEN t.local.fallback ELSE IF PlannedPoster THEN t.art ELSE 0
    BY <1>1
  <2>5. PICK y : y = IF t.local.row THEN [t.local EXCEPT !.object = x]
                     ELSE [row |-> TRUE, object |-> x, fallback |-> f, value |-> PlannedPoster]
    OBVIOUS
  <2>6. y \in Locals /\ y.row = TRUE /\ y.object = x /\ y.fallback = f
    BY <1>1, <2>4, <2>5 DEF Locals
  <2>7. Layer(t, x) = Updated(h, x, y, t.saved)
    BY ZenonT(40), <1>2, <2>1, <2>2, <2>3, <2>4, <2>5 DEF Layer, Updated, Tables, NoObject
  <2>8. HasSlots(Layer(t, x), y.row, x, y.object, y.fallback, t.saved)
    BY <1>1, <2>3, <2>6, <2>7, UpdatedSlots
  <2> QED
    BY <2>4, <2>6, <2>8
<1>3. ASSUME ~FileImported, FileRemoved
      PROVE  HasSlots(Layer(t, x), FALSE, t.local.fallback, 0, 0, t.saved)
  <2>1. NoLocal \in Locals /\ NoLocal.row = FALSE /\ NoLocal.object = 0 /\ NoLocal.fallback = 0
    BY DEF NoLocal, Locals, NoObject
  <2>2. PICK b : b = Updated(t, t.local.fallback, NoLocal, t.saved)
    OBVIOUS
  <2>3. HasSlots(b, FALSE, t.local.fallback, 0, 0, t.saved)
    BY <1>1, <2>1, <2>2, UpdatedSlots
  <2>4. Layer(t, x) = FieldBack(b, rows.local.value, t.local.fallback # NoObject)
    BY <1>3, <2>2 DEF Layer, Updated, Tables
  <2>5. rows.local.value \in BOOLEAN /\ b \in Tables
    BY <2>3, TableColumns DEF HasSlots
  <2>6. SameSlots(Layer(t, x), b)
    BY <2>4, <2>5, FieldBackSlots
  <2> QED
    BY <2>3, <2>6 DEF HasSlots, SameSlots
<1> QED
  BY <1>2, <1>3 DEF Layer

(* The steps of a plan keep the slots sound.  They are stated on the slots'   *)
(* values; K is what a step takes from its owner.                            *)

\* Capturing the identity artwork and clearing the provider's.
CapturesAndClears(l, a, o, f, s, a2, f2, s1, B, K) ==
  /\ s1 = s \/ (s = 0 /\ s1 = IF f # 0 THEN f ELSE a)
  /\ \/ a2 = a /\ f2 = f /\ B = {}
     \/ l /\ a2 = a /\ f2 = 0 /\ B = {f} \ {s1}
     \/ ~l /\ a2 = 0 /\ f2 = f /\ B = {a} \ {s1}
  /\ K = IF s1 = s THEN {} ELSE {s1} \cap {a2, o, f2}

\* They keep the slots sound.
LEMMA CaptureClearSound ==
  ASSUME NEW l \in BOOLEAN, NEW a, NEW o, NEW f, NEW s, NEW D, Sound(l, a, o, f, s, D, {}),
         NEW s1, NEW a2, NEW f2, NEW B, NEW K, CapturesAndClears(l, a, o, f, s, a2, f2, s1, B, K)
  PROVE  Sound(l, a2, o, f2, s1, D \cup (K \ {0}), B) /\ {a2, o, f2, s1} \subseteq {0, a, o, f, s}
<1>0. /\ s1 = s \/ (s = 0 /\ s1 = IF f # 0 THEN f ELSE a)
      /\ \/ a2 = a /\ f2 = f /\ B = {}
         \/ l /\ a2 = a /\ f2 = 0 /\ B = {f} \ {s1}
         \/ ~l /\ a2 = 0 /\ f2 = f /\ B = {a} \ {s1}
      /\ K = IF s1 = s THEN {} ELSE {s1} \cap {a2, o, f2}
  BY DEF CapturesAndClears
<1>1. CASE s1 = s
  BY <1>0, <1>1 DEF Sound
<1>2. CASE s1 # s
  <2>1. s = 0 /\ (s1 = f \/ s1 = a) /\ s1 # 0
    BY <1>0, <1>2
  <2>2. s1 \in {a2, o, f2} => s1 \in D \cup (K \ {0})
    BY <1>0, <1>2, <2>1
  <2>3. {a2, o, f2, s1} \subseteq {0, a, o, f, s}
    BY <1>0, <2>1
  <2>4. \A x \in {a2, o, f2, s1} : x \in B => x = 0 \/ x \in D \cup (K \ {0})
    BY <1>0, <2>1, <2>2 DEF Sound
  <2>5. l => o # 0 /\ (a2 = o \/ o \in D)
    BY <1>0 DEF Sound
  <2>6. ~l => o = 0 /\ f2 = 0
    BY <1>0 DEF Sound
  <2>7. a2 = f2 => a2 = 0 \/ a2 \in D
    BY <1>0 DEF Sound
  <2>8. o = f2 => o = 0 \/ o \in D
    BY <1>0 DEF Sound
  <2> QED
    BY <2>2, <2>3, <2>4, <2>5, <2>6, <2>7, <2>8 DEF Sound
<1> QED
  BY <1>1, <1>2

\* The artwork of the provider, under a local layer or in its place.
LEMMA ProviderSound ==
  ASSUME NEW l \in BOOLEAN, NEW a, NEW o, NEW f, NEW s, NEW D, NEW B, Sound(l, a, o, f, s, D, B),
         NEW x, x # 0, x \notin {a, o, f, s}, x \notin B
  PROVE  /\ l /\ a # 0 => Sound(l, o, o, x, s, D, B \cup {f})
         /\ ~(l /\ a # 0) => Sound(l, x, o, f, s, D, B \cup {a})
<1>1. CASE l /\ a # 0
  BY <1>1 DEF Sound
<1>2. CASE ~(l /\ a # 0)
  BY <1>2 DEF Sound
<1> QED
  BY <1>1, <1>2

\* The identity artwork comes back.
LEMMA RestoreSound ==
  ASSUME NEW l \in BOOLEAN, NEW a, NEW o, NEW f, NEW s, NEW D, NEW B, Sound(l, a, o, f, s, D, B)
  PROVE  /\ l => Sound(l, a, o, s, 0, D, B \cup {f})
         /\ ~l => Sound(l, s, o, f, 0, D, B)
<1>1. CASE l
  BY <1>1 DEF Sound
<1>2. CASE ~l
  BY <1>2 DEF Sound
<1> QED
  BY <1>1, <1>2

\* A local layer is imported or removed.
LEMMA LayerSound ==
  ASSUME NEW l \in BOOLEAN, NEW a, NEW o, NEW f, NEW s, NEW D, NEW B, Sound(l, a, o, f, s, D, B),
         NEW p \in BOOLEAN, NEW x, x # 0, x \notin {a, o, f, s}, x \notin B
  PROVE  /\ Sound(TRUE, x, x, IF l THEN f ELSE IF p THEN a ELSE 0, s, D,
                  B \cup (IF l THEN {o} ELSE IF p THEN {} ELSE {a}))
         /\ Sound(FALSE, f, 0, 0, s, D, B \cup {o})
<1>1. Sound(FALSE, f, 0, 0, s, D, B \cup {o})
  BY DEF Sound
<1>2. CASE l
  BY <1>1, <1>2 DEF Sound
<1>3. CASE ~l /\ p
  BY <1>1, <1>3 DEF Sound
<1>4. CASE ~l /\ ~p
  BY <1>1, <1>4 DEF Sound
<1> QED
  BY <1>2, <1>3, <1>4

\* What the invariant says of the committed rows.
LEMMA RowsSound ==
  ASSUME ArtworkInduction
  PROVE  /\ rows \in Tables /\ made \in Nat /\ disowned \subseteq 1..made /\ objects \subseteq 1..made
         /\ Slots(rows) \subseteq 0..made /\ Slots(rows) \subseteq {0} \cup objects \cup disowned
         /\ Sound(rows.local.row, rows.art, rows.local.object, rows.local.fallback, rows.saved, disowned, {})
  BY DEF ArtworkInduction, ArtworkTypeOK, Committed, TableSound, Sound

\* A transaction begins: what it is to publish is sound.
LEMMA BeginStep ==
  ASSUME ArtworkInduction, NEW kind \in {"cache", "persist", "owner"}, NEW after, NEW fresh \in Nat,
         NEW obsolete, NEW taken, Begin(kind, after, fresh, obsolete, taken),
         TableSound(after, disowned \cup (taken \ {0}), obsolete \ {0}, made + fresh),
         Slots(after) \subseteq {0} \cup Slots(rows) \cup ((made + 1)..(made + fresh)),
         obsolete \subseteq 0..(made + fresh), taken \subseteq 0..(made + fresh),
         rows' = rows, disowned' = disowned, steps' \in 0..MaxArtSteps,
         import' \in {NoImport} \cup Imports, kind = "cache" => import'.at = "caching"
  PROVE  ArtworkInduction'
<1>1. /\ rows \in Tables /\ made \in Nat /\ disowned \subseteq 1..made /\ objects \subseteq 1..made
      /\ Slots(rows) \subseteq 0..made /\ Slots(rows) \subseteq {0} \cup objects \cup disowned
      /\ TableSound(rows, disowned, {}, made)
  BY RowsSound DEF TableSound
<1>2. /\ made + fresh <= MaxArtworks /\ made' = made + fresh
      /\ objects' = objects \cup ((made + 1)..(made + fresh))
  BY DEF Begin
<1>3. PICK w : w = [at |-> kind, after |-> after, created |-> (made + 1)..(made + fresh),
                    obsolete |-> obsolete \ {0}, taken |-> taken \ {0}]
  OBVIOUS
<1>4. write' = w
  BY <1>3 DEF Begin, NoObject
<1>5. /\ w.at = kind /\ w.after = after /\ w.created = (made + 1)..(made + fresh)
      /\ w.obsolete = obsolete \ {0} /\ w.taken = taken \ {0}
  BY <1>3
<1>6. w.created \subseteq 1..made' /\ w.obsolete \subseteq 1..made' /\ w.taken \subseteq 1..made'
  BY <1>1, <1>2, <1>5
<1>7. after \in Tables
  BY DEF TableSound
<1>8. w \in Writes
  <2>1. w.created \in SUBSET Nat /\ w.obsolete \in SUBSET Nat /\ w.taken \in SUBSET Nat
    BY <1>1, <1>2, <1>6
  <2> QED
    BY <1>3, <1>5, <1>7, <2>1 DEF Writes
<1>9. objects' \subseteq 1..made' /\ disowned' \subseteq 1..made' /\ made' \in 0..MaxArtworks
  BY <1>1, <1>2, ArtworkAssumption
<1>10. ArtworkTypeOK'
  <2>1. import' = NoImport \/ /\ import'.at \in {"started", "caching", "enriched", "persisting"}
                              /\ import'.provider \in MaybeId /\ import'.poster \in BOOLEAN
    BY DEF Imports
  <2>2. /\ write'.at \in {"cache", "persist", "owner", "committed"} /\ write'.after \in Tables
        /\ write'.created \cup write'.obsolete \cup write'.taken \subseteq 1..made'
    BY <1>4, <1>5, <1>6, <1>7
  <2> QED
    BY <1>1, <1>9, <2>1, <2>2 DEF ArtworkTypeOK
<1>11. TableSound(rows, disowned, {}, made + fresh)
  BY <1>1 DEF TableSound
<1>12. Committed'
  <2>1. TableSound(rows', disowned', {}, made')
    BY <1>2, <1>11
  <2>2. write'.at # "committed"
    BY <1>4, <1>5
  <2>3. Slots(rows) \subseteq {0} \cup objects' \cup disowned'
    BY <1>1, <1>2
  <2> QED
    BY <2>1, <2>2, <2>3 DEF Committed, Slots
<1>13. Pending'
  <2>1. TableSound(w.after, disowned' \cup w.taken, w.obsolete, made')
    BY <1>2, <1>5
  <2>2. Slots(w.after) \subseteq {0} \cup objects' \cup disowned' \cup w.taken
    BY <1>1, <1>2, <1>5
  <2>3. \A x \in Slots(rows) : x \notin w.created
    BY <1>1, <1>5
  <2> QED
    BY <1>4, <2>1, <2>2, <2>3 DEF Pending, Slots
<1> QED
  BY <1>4, <1>5, <1>8, <1>10, <1>12, <1>13 DEF ArtworkInduction

\* A table's slots.
LEMMA OwnSlots ==
  ASSUME NEW t \in Tables
  PROVE  /\ HasSlots(t, t.local.row, t.art, t.local.object, t.local.fallback, t.saved)
         /\ t.local.row \in BOOLEAN /\ Slots(t) = {t.art, t.local.object, t.local.fallback, t.saved}
  BY TableColumns DEF HasSlots, Slots

\* Capture and clear, of a plan.
CaptureClear(t, capture, clear, t1, t2, B, K) ==
  /\ t1 = IF capture THEN Capture(t) ELSE t
  /\ t2 = IF clear THEN ClearProvider(t1) ELSE t1
  /\ B = IF clear THEN Cleared(t1) ELSE {}
  /\ K = IF t1.saved = t.saved THEN {} ELSE {t2.saved} \cap {t2.art, t2.local.object, t2.local.fallback}

\* They keep a table sound, but for what K takes from its owner.
LEMMA CaptureClearStage ==
  ASSUME NEW t \in Tables, NEW D, NEW n \in Nat, TableSound(t, D, {}, n),
         NEW capture, NEW clear, NEW t1, NEW t2, NEW B, NEW K,
         CaptureClear(t, capture, clear, t1, t2, B, K)
  PROVE  TableSound(t2, D \cup (K \ {0}), B, n) /\ Slots(t2) \subseteq {0} \cup Slots(t)
         /\ B \subseteq {0} \cup Slots(t) /\ K \subseteq {0} \cup Slots(t)
<1>0. /\ t1 = IF capture THEN Capture(t) ELSE t
      /\ t2 = IF clear THEN ClearProvider(t1) ELSE t1
      /\ B = IF clear THEN Cleared(t1) ELSE {}
      /\ K = IF t1.saved = t.saved THEN {} ELSE {t2.saved} \cap {t2.art, t2.local.object, t2.local.fallback}
  BY DEF CaptureClear
<1>1. PICK l \in BOOLEAN, a \in Nat, o \in Nat, f \in Nat, s \in Nat : HasSlots(t, l, a, o, f, s)
  BY OwnSlots, TableColumns
<1>2. Sound(l, a, o, f, s, D, {}) /\ {a, o, f, s} \subseteq 0..n /\ Slots(t) = {a, o, f, s}
  BY <1>1, SoundSlots
<1>3. PICK s1 : s1 = IF capture /\ ~(t.field.locked \/ t.saved # NoObject) THEN Captured(t) ELSE s
  OBVIOUS
<1>4. HasSlots(t1, l, a, o, f, s1)
  <2>1. CASE capture
    <3>1. HasSlots(Capture(t), t.local.row, t.art, t.local.object, t.local.fallback,
                   IF t.field.locked \/ t.saved # NoObject THEN t.saved ELSE Captured(t))
      BY CaptureSlots
    <3>2. t1 = Capture(t) /\ l = t.local.row /\ a = t.art /\ o = t.local.object /\ f = t.local.fallback /\ s = t.saved
      BY <1>0, <2>1, <1>1 DEF HasSlots
    <3> QED
      BY <2>1, <3>1, <3>2, <1>3
  <2>2. CASE ~capture
    BY <1>0, <2>2, <1>1, <1>3
  <2> QED
    BY <2>1, <2>2
<1>5. s1 = s \/ (s = 0 /\ s1 = IF f # 0 THEN f ELSE a)
  BY <1>1, <1>3 DEF HasSlots, Captured, NoObject
<1>6. t1 \in Tables /\ t1.saved = s1 /\ t1.local.row = l /\ t1.art = a /\ t1.local.fallback = f /\ t1.local.object = o
  BY <1>4 DEF HasSlots
<1>7. PICK a2, f2 : /\ HasSlots(t2, l, a2, o, f2, s1)
                    /\ \/ a2 = a /\ f2 = f /\ B = {}
                       \/ l /\ a2 = a /\ f2 = 0 /\ B = {f} \ {s1}
                       \/ ~l /\ a2 = 0 /\ f2 = f /\ B = {a} \ {s1}
  <2>1. CASE ~clear \/ t1.field.locked
    <3>1. t2 = t1 /\ B = {}
      BY <1>0, <2>1 DEF ClearProvider, Cleared
    <3> QED
      BY <3>1, <1>4
  <2>2. CASE clear /\ ~t1.field.locked /\ l
    <3>1. HasSlots(ClearProvider(t1), t1.local.row, t1.art, t1.local.object, 0, t1.saved)
      BY <2>2, <1>6, ClearSlots
    <3>2. t2 = ClearProvider(t1) /\ B = {f} \ {s1}
      BY <1>0, <2>2, <1>6 DEF Cleared
    <3> QED
      BY <2>2, <3>1, <3>2, <1>6
  <2>3. CASE clear /\ ~t1.field.locked /\ ~l
    <3>1. HasSlots(ClearProvider(t1), t1.local.row, 0, t1.local.object, t1.local.fallback, t1.saved)
      BY <2>3, <1>6, ClearSlots
    <3>2. t2 = ClearProvider(t1) /\ B = {a} \ {s1}
      BY <1>0, <2>3, <1>6 DEF Cleared
    <3> QED
      BY <2>3, <3>1, <3>2, <1>6
  <2> QED
    BY <2>1, <2>2, <2>3
<1>8. K = IF s1 = s THEN {} ELSE {s1} \cap {a2, o, f2}
  <2>1. t2.saved = s1 /\ t2.art = a2 /\ t2.local.object = o /\ t2.local.fallback = f2 /\ t.saved = s
    BY <1>1, <1>7 DEF HasSlots
  <2> QED
    BY <1>0, <2>1, <1>6
<1>9. Sound(l, a2, o, f2, s1, D \cup (K \ {0}), B) /\ {a2, o, f2, s1} \subseteq {0, a, o, f, s}
  <2>1. Sound(l, a, o, f, s, D, {})
    BY <1>2
  <2>2. CapturesAndClears(l, a, o, f, s, a2, f2, s1, B, K)
    BY <1>5, <1>7, <1>8 DEF CapturesAndClears
  <2> QED
    BY <2>1, <2>2, CaptureClearSound
<1>10. {a2, o, f2, s1} \subseteq 0..n
  BY <1>1, <1>2, <1>9
<1>11. TableSound(t2, D \cup (K \ {0}), B, n) /\ Slots(t2) = {a2, o, f2, s1}
  BY <1>7, <1>9, <1>10, SoundSlots
<1>12. B \subseteq {0} \cup Slots(t) /\ K \subseteq {0} \cup Slots(t)
  BY <1>2, <1>5, <1>7, <1>8
<1> QED
  BY <1>2, <1>9, <1>11, <1>12

\* The provider's artwork, of a plan or of the cache.
LEMMA ProviderStage ==
  ASSUME NEW t \in Tables, NEW D, NEW B, NEW n \in Nat, TableSound(t, D, B, n), B \subseteq 0..n,
         NEW u, u = ProviderArtwork(t, n + 1)
  PROVE  /\ TableSound(u, D, B \cup ReplacedBy(t), n + 1) /\ Slots(u) \subseteq {0, n + 1} \cup Slots(t)
         /\ ReplacedBy(t) \subseteq Slots(t)
<1>1. PICK l \in BOOLEAN, a \in Nat, o \in Nat, f \in Nat, s \in Nat :
        /\ HasSlots(t, l, a, o, f, s)
        /\ l = t.local.row /\ a = t.art /\ o = t.local.object /\ f = t.local.fallback /\ s = t.saved
  BY OwnSlots, TableColumns
<1>2. Sound(l, a, o, f, s, D, B) /\ {a, o, f, s} \subseteq 0..n /\ Slots(t) = {a, o, f, s}
  BY <1>1, SoundSlots
<1>3. PICK x \in Nat : x = n + 1
  OBVIOUS
<1>4. x # 0 /\ x \notin {a, o, f, s} /\ x \notin B /\ x \in 0..(n + 1)
      /\ {a, o, f, s} \subseteq 0..(n + 1) /\ 0 \in 0..(n + 1)
  BY <1>2, <1>3
<1>5. CASE ShowsLocal(t)
  <2>1. HasSlots(u, l, o, o, x, s)
    BY <1>1, <1>3, <1>5, AsFallbackSlots DEF ProviderArtwork
  <2>2. ReplacedBy(t) = {f}
    BY <1>1, <1>5 DEF ReplacedBy
  <2>3. Sound(l, o, o, x, s, D, B \cup {f})
    <3>1. l /\ a # 0
      BY <1>1, <1>5 DEF ShowsLocal, NoObject
    <3> QED
      BY <1>2, <1>4, <3>1, ProviderSound
  <2>4. {o, o, x, s} \subseteq 0..(n + 1)
    BY <1>4
  <2>5. TableSound(u, D, B \cup {f}, n + 1) /\ Slots(u) = {o, o, x, s}
    BY <2>1, <2>3, <2>4, SoundSlots
  <2> QED
    BY <1>2, <1>3, <2>2, <2>5
<1>6. CASE ~ShowsLocal(t)
  <2>1. HasSlots(u, l, x, o, f, s)
    BY <1>1, <1>3, <1>6, ArtSlots DEF ProviderArtwork
  <2>2. ReplacedBy(t) = {a}
    BY <1>1, <1>6 DEF ReplacedBy
  <2>3. Sound(l, x, o, f, s, D, B \cup {a})
    <3>1. ~(l /\ a # 0)
      BY <1>1, <1>6 DEF ShowsLocal, NoObject
    <3> QED
      BY <1>2, <1>4, <3>1, ProviderSound
  <2>4. {x, o, f, s} \subseteq 0..(n + 1)
    BY <1>4
  <2>5. TableSound(u, D, B \cup {a}, n + 1) /\ Slots(u) = {x, o, f, s}
    BY <2>1, <2>3, <2>4, SoundSlots
  <2> QED
    BY <1>2, <1>3, <2>2, <2>5
<1> QED
  BY <1>5, <1>6

\* The identity artwork comes back, of a plan.
LEMMA RestoreStage ==
  ASSUME NEW t \in Tables, NEW D, NEW B, NEW n \in Nat, TableSound(t, D, B, n), NEW u, u = Restore(t)
  PROVE  /\ TableSound(u, D, B \cup Restored(t), n) /\ Slots(u) \subseteq {0} \cup Slots(t)
         /\ Restored(t) \subseteq Slots(t)
<1>1. PICK l \in BOOLEAN, a \in Nat, o \in Nat, f \in Nat, s \in Nat :
        /\ HasSlots(t, l, a, o, f, s)
        /\ l = t.local.row /\ a = t.art /\ o = t.local.object /\ f = t.local.fallback /\ s = t.saved
  BY OwnSlots, TableColumns
<1>2. Sound(l, a, o, f, s, D, B) /\ {a, o, f, s} \subseteq 0..n /\ Slots(t) = {a, o, f, s}
  BY <1>1, SoundSlots
<1>3. 0 \in 0..n
  OBVIOUS
<1>4. CASE t.field.locked \/ s = 0
  <2>1. u = t /\ Restored(t) = {} /\ B \cup {} = B
    BY <1>1, <1>4 DEF Restore, Restored, NoObject
  <2> QED
    BY <2>1
<1>5. CASE ~t.field.locked /\ s # 0 /\ l
  <2>1. HasSlots(u, l, a, o, s, 0)
    BY <1>1, <1>5, RestoreSlots DEF NoObject
  <2>2. Restored(t) = {f}
    BY <1>1, <1>5 DEF Restored, NoObject
  <2>3. Sound(l, a, o, s, 0, D, B \cup {f}) /\ {a, o, s, 0} \subseteq 0..n
    BY <1>2, <1>3, <1>5, RestoreSound
  <2>4. TableSound(u, D, B \cup {f}, n) /\ Slots(u) = {a, o, s, 0}
    BY <2>1, <2>3, SoundSlots
  <2> QED
    BY <1>2, <2>2, <2>4
<1>6. CASE ~t.field.locked /\ s # 0 /\ ~l
  <2>1. HasSlots(u, l, s, o, f, 0)
    BY <1>1, <1>6, RestoreSlots DEF NoObject
  <2>2. Restored(t) = {} /\ B \cup {} = B
    BY <1>1, <1>6 DEF Restored
  <2>3. Sound(l, s, o, f, 0, D, B) /\ {s, o, f, 0} \subseteq 0..n
    BY <1>2, <1>3, <1>6, RestoreSound
  <2>4. TableSound(u, D, B, n) /\ Slots(u) = {s, o, f, 0}
    BY <2>1, <2>3, SoundSlots
  <2> QED
    BY <1>2, <2>2, <2>4
<1> QED
  BY <1>4, <1>5, <1>6

\* The local layer, of a plan.
LEMMA LayerStage ==
  ASSUME NEW t \in Tables, NEW D, NEW B, NEW n \in Nat, TableSound(t, D, B, n), B \subseteq 0..n,
         import \in Imports, rows \in Tables, NEW u, u = Layer(t, n + 1)
  PROVE  /\ TableSound(u, D, B \cup Unlayered(t), n + IF FileImported THEN 1 ELSE 0)
         /\ Slots(u) \subseteq {0} \cup Slots(t) \cup (IF FileImported THEN {n + 1} ELSE {})
         /\ Unlayered(t) \subseteq Slots(t)
<1>1. PICK l \in BOOLEAN, a \in Nat, o \in Nat, f \in Nat, s \in Nat :
        /\ HasSlots(t, l, a, o, f, s)
        /\ l = t.local.row /\ a = t.art /\ o = t.local.object /\ f = t.local.fallback /\ s = t.saved
  BY OwnSlots, TableColumns
<1>2. Sound(l, a, o, f, s, D, B) /\ {a, o, f, s} \subseteq 0..n /\ Slots(t) = {a, o, f, s}
  BY <1>1, SoundSlots
<1>3. PICK x \in Nat : x = n + 1
  OBVIOUS
<1>4. PICK p \in BOOLEAN : p = PlannedPoster
  BY PlanTyped
<1>5. x # 0 /\ x \notin {a, o, f, s} /\ x \notin B /\ x \in 0..(n + 1)
      /\ {a, o, f, s} \subseteq 0..(n + 1) /\ 0 \in 0..(n + 1) /\ 0 \in 0..n /\ n + 0 = n
  BY <1>2, <1>3
<1>6. /\ Sound(TRUE, x, x, IF l THEN f ELSE IF p THEN a ELSE 0, s, D,
               B \cup (IF l THEN {o} ELSE IF p THEN {} ELSE {a}))
      /\ Sound(FALSE, f, 0, 0, s, D, B \cup {o})
  BY ZenonT(40), <1>2, <1>5, LayerSound
<1>7. CASE FileImported
  <2>1. PICK g : g = IF l THEN f ELSE IF p THEN a ELSE 0
    OBVIOUS
  <2>2. HasSlots(u, TRUE, x, x, g, s)
    BY <1>1, <1>3, <1>4, <1>7, <2>1, LayerSlots
  <2>3. Unlayered(t) = IF l THEN {o} ELSE IF p THEN {} ELSE {a}
    BY <1>1, <1>4, <1>7 DEF Unlayered
  <2>4. Sound(TRUE, x, x, g, s, D, B \cup Unlayered(t)) /\ {x, x, g, s} \subseteq 0..(n + 1)
    BY <1>5, <1>6, <2>1, <2>3
  <2>5. TableSound(u, D, B \cup Unlayered(t), n + 1) /\ Slots(u) = {x, x, g, s}
    <3>1. PICK b : b = TRUE
      OBVIOUS
    <3>2. HasSlots(u, b, x, x, g, s) /\ Sound(b, x, x, g, s, D, B \cup Unlayered(t))
      BY <2>2, <2>4, <3>1
    <3> QED
      BY <2>4, <3>2, SoundSlots
  <2>6. Unlayered(t) \subseteq Slots(t) /\ g \in {0} \cup Slots(t)
    BY <1>2, <2>1, <2>3
  <2> QED
    BY <1>2, <1>3, <1>7, <2>5, <2>6
<1>8. CASE ~FileImported /\ FileRemoved
  <2>1. HasSlots(u, FALSE, f, 0, 0, s)
    BY <1>1, <1>3, <1>8, LayerSlots
  <2>2. Unlayered(t) = {o}
    BY <1>1, <1>8 DEF Unlayered
  <2>3. {f, 0, 0, s} \subseteq 0..n
    BY <1>2, <1>5
  <2>4. TableSound(u, D, B \cup {o}, n) /\ Slots(u) = {f, 0, 0, s}
    <3>1. PICK b : b = FALSE
      OBVIOUS
    <3>2. HasSlots(u, b, f, 0, 0, s) /\ Sound(b, f, 0, 0, s, D, B \cup {o})
      BY <1>6, <2>1, <3>1
    <3> QED
      BY <2>3, <3>2, SoundSlots
  <2> QED
    BY <1>2, <1>5, <1>8, <2>2, <2>4
<1>9. CASE ~FileImported /\ ~FileRemoved
  <2>1. u = t /\ Unlayered(t) = {} /\ B \cup {} = B
    BY <1>3, <1>9, LayerSlots DEF Unlayered
  <2> QED
    BY <1>5, <1>9, <2>1
<1> QED
  BY <1>7, <1>8, <1>9

\* One plan is written (persistLocalMetadataTx).
LEMMA PersistStep ==
  ASSUME ArtworkInduction, Persist, steps' \in 0..MaxArtSteps
  PROVE  ArtworkInduction'
<1>1. /\ rows \in Tables /\ made \in Nat /\ disowned \subseteq 1..made /\ Slots(rows) \subseteq 0..made
      /\ TableSound(rows, disowned, {}, made)
  BY RowsSound DEF TableSound
<1>2. import \in Imports /\ import' \in Imports /\ rows' = rows /\ disowned' = disowned
  <2>1. import # NoImport
    <3>1. NoImport.at = "none" /\ import.at = "enriched"
      BY DEF Persist, NoImport
    <3> QED
      BY <3>1
  <2>2. import \in Imports
    BY <2>1 DEF ArtworkInduction
  <2>3. import' = [import EXCEPT !.at = "persisting"]
    BY DEF Persist
  <2> QED
    BY <2>2, <2>3 DEF Imports, Persist
<1>3. import.stage \in Stages
  BY <1>2 DEF Imports
<1>4. /\ import.stage.intent \in BOOLEAN /\ import.stage.restoring \in BOOLEAN /\ import.stage.desired \in MaybeId
  BY <1>3 DEF Stages
<1>5. PICK staged \in BOOLEAN : staged = (import.stage.intent /\ import.fetched = "ok")
  BY <1>4
<1>6. PICK new \in Nat : new = IF staged THEN 1 ELSE 0
  OBVIOUS
<1>7. PICK capturing \in BOOLEAN :
        capturing = (import.stage.intent /\ ~import.stage.restoring /\ rows.nfo.provider = NoId)
  BY <1>4
<1>8. PICK clear \in BOOLEAN : clear = (import.stage.intent /\ import.stage.prior # NoId)
  BY <1>4
<1>9. PICK t1 : t1 = IF capturing THEN Capture(rows) ELSE rows
  OBVIOUS
<1>10. PICK t2 : t2 = IF clear THEN ClearProvider(t1) ELSE t1
  OBVIOUS
<1>11. PICK t3 : t3 = IF staged THEN ProviderArtwork(t2, made + 1) ELSE t2
  OBVIOUS
<1>12. PICK t4 : t4 = [t3 EXCEPT !.retry = IF import.stage.intent /\ import.fetched = "failed"
                                            THEN import.stage.desired ELSE @]
  OBVIOUS
<1>13. PICK t5 : t5 = IF import.stage.restoring THEN Restore(t4) ELSE t4
  OBVIOUS
<1>14. PICK t6 : t6 = Document(t5)
  OBVIOUS
<1>15. PICK K : K = IF t1.saved = rows.saved THEN {} ELSE {t2.saved} \cap {t2.art, t2.local.object, t2.local.fallback}
  OBVIOUS
<1>16. PICK B2 : B2 = IF clear THEN Cleared(t1) ELSE {}
  OBVIOUS
<1>17. PICK B3 : B3 = B2 \cup (IF staged THEN ReplacedBy(t2) ELSE {})
  OBVIOUS
<1>18. PICK B5 : B5 = B3 \cup (IF import.stage.restoring THEN Restored(t4) ELSE {})
  OBVIOUS
<1>19. PICK B6 : B6 = B5 \cup Unlayered(t6)
  OBVIOUS
<1>20. PICK D : D = disowned \cup (K \ {0})
  OBVIOUS
<1>21. PICK imported \in Nat : imported = IF FileImported THEN 1 ELSE 0
  OBVIOUS
<1>22. Begin("persist", Titled(Layer(t6, made + new + 1)), new + imported, B6, K)
  BY ZenonT(40), <1>5, <1>6, <1>7, <1>8, <1>9, <1>10, <1>11, <1>12, <1>13, <1>14, <1>15, <1>16, <1>17, <1>18, <1>19, <1>21
  DEF Persist
<1>23. /\ TableSound(t2, D, B2, made) /\ t2 \in Tables /\ Slots(t2) \subseteq {0} \cup Slots(rows)
       /\ B2 \subseteq {0} \cup Slots(rows) /\ K \subseteq {0} \cup Slots(rows)
  <2>1. /\ TableSound(t2, D, B2, made) /\ Slots(t2) \subseteq {0} \cup Slots(rows)
        /\ B2 \subseteq {0} \cup Slots(rows) /\ K \subseteq {0} \cup Slots(rows)
    <3>1. /\ TableSound(t2, disowned \cup (K \ {0}), B2, made) /\ Slots(t2) \subseteq {0} \cup Slots(rows)
          /\ B2 \subseteq {0} \cup Slots(rows) /\ K \subseteq {0} \cup Slots(rows)
      <4>1. CaptureClear(rows, capturing, clear, t1, t2, B2, K)
        BY <1>9, <1>10, <1>15, <1>16 DEF CaptureClear
      <4>2. rows \in Tables /\ made \in Nat /\ TableSound(rows, disowned, {}, made)
        BY <1>1
      <4> QED
        BY <4>1, <4>2, CaptureClearStage
    <3> QED
      BY <3>1, <1>20
  <2> QED
    BY <2>1 DEF TableSound
<1>24. PICK N : N = {0} \cup Slots(rows) \cup ((made + 1)..(made + new))
  OBVIOUS
<1>25. /\ TableSound(t3, D, B3, made + new) /\ t3 \in Tables /\ Slots(t3) \subseteq N /\ B3 \subseteq {0} \cup Slots(rows)
  <2>1. CASE staged
    <3>1. B2 \subseteq 0..made
      BY <1>1, <1>23
    <3>2. /\ TableSound(t3, D, B2 \cup ReplacedBy(t2), made + 1) /\ Slots(t3) \subseteq {0, made + 1} \cup Slots(t2)
          /\ ReplacedBy(t2) \subseteq Slots(t2)
      BY <1>1, <1>11, <1>23, <2>1, <3>1, ProviderStage
    <3>3. made + 1 \in (made + 1)..(made + new) /\ new = 1 /\ B3 = B2 \cup ReplacedBy(t2)
      BY <1>1, <1>6, <1>17, <2>1
    <3> QED
      BY <1>23, <1>24, <3>2, <3>3 DEF TableSound
  <2>2. CASE ~staged
    <3>1. new = 0 /\ t3 = t2 /\ B3 = B2 /\ made + new = made
      BY <1>1, <1>6, <1>11, <1>17, <2>2
    <3> QED
      BY <1>23, <1>24, <3>1
  <2> QED
    BY <2>1, <2>2
<1>26. /\ TableSound(t4, D, B3, made + new) /\ t4 \in Tables /\ Slots(t4) \subseteq N
  <2>1. PICK r \in MaybeId : r = IF import.stage.intent /\ import.fetched = "failed"
                                 THEN import.stage.desired ELSE t3.retry
    BY <1>4, <1>25, TableColumns
  <2>2. t4 = [t3 EXCEPT !.retry = r]
    BY <1>12, <1>25, <2>1 DEF Tables
  <2>3. SameSlots(t4, t3)
    BY <1>25, <2>1, <2>2 DEF SameSlots, Tables
  <2>4. TableSound(t4, D, B3, made + new) /\ Slots(t4) = Slots(t3)
    BY <1>25, <2>3, SameSound
  <2> QED
    BY <1>25, <2>4 DEF TableSound
<1>27. made + new \in Nat /\ N \subseteq 0..(made + new)
  BY <1>1, <1>24
<1>28. /\ TableSound(t5, D, B5, made + new) /\ t5 \in Tables /\ Slots(t5) \subseteq N /\ B5 \subseteq N
  <2>1. CASE import.stage.restoring
    <3>1. /\ TableSound(t5, D, B3 \cup Restored(t4), made + new) /\ Slots(t5) \subseteq {0} \cup Slots(t4)
          /\ Restored(t4) \subseteq Slots(t4)
      BY <1>13, <1>26, <1>27, <2>1, RestoreStage
    <3>2. B5 = B3 \cup Restored(t4)
      BY <1>18, <2>1
    <3> QED
      BY <1>24, <1>25, <1>26, <3>1, <3>2 DEF TableSound
  <2>2. CASE ~import.stage.restoring
    <3>1. t5 = t4 /\ B5 = B3
      BY <1>13, <1>18, <2>2
    <3> QED
      BY <1>24, <1>25, <1>26, <3>1
  <2> QED
    BY <2>1, <2>2
<1>29. /\ TableSound(t6, D, B5, made + new) /\ t6 \in Tables /\ Slots(t6) \subseteq N
  <2>1. SameSlots(t6, t5)
    BY <1>1, <1>2, <1>14, <1>28, DocumentSlots
  <2>2. TableSound(t6, D, B5, made + new) /\ Slots(t6) = Slots(t5)
    BY <1>28, <2>1, SameSound
  <2> QED
    BY <1>28, <2>2 DEF TableSound
<1>30. PICK t7 : t7 = Layer(t6, made + new + 1)
  OBVIOUS
<1>31. /\ TableSound(t7, D, B6, made + new + imported) /\ t7 \in Tables
       /\ Slots(t7) \subseteq N \cup (IF FileImported THEN {made + new + 1} ELSE {})
       /\ Unlayered(t6) \subseteq N
  <2>1. PICK n \in Nat : n = made + new
    BY <1>27
  <2>2. B5 \subseteq 0..n /\ t7 = Layer(t6, n + 1) /\ TableSound(t6, D, B5, n)
    BY <1>27, <1>28, <1>29, <1>30, <2>1
  <2>3. /\ TableSound(t7, D, B5 \cup Unlayered(t6), n + IF FileImported THEN 1 ELSE 0)
        /\ Slots(t7) \subseteq {0} \cup Slots(t6) \cup (IF FileImported THEN {n + 1} ELSE {})
        /\ Unlayered(t6) \subseteq Slots(t6)
    BY <1>1, <1>2, <1>29, <2>2, LayerStage
  <2>4. TableSound(t7, D, B6, made + new + imported)
    BY <1>19, <1>21, <2>1, <2>3
  <2>5. 0 \in N
    BY <1>24
  <2> QED
    BY <1>29, <2>1, <2>3, <2>4, <2>5 DEF TableSound
<1>32. PICK t8 : t8 = Titled(t7)
  OBVIOUS
<1>33. TableSound(t8, D, B6, made + new + imported) /\ Slots(t8) = Slots(t7)
  <2>1. SameSlots(t8, t7)
    BY <1>1, <1>2, <1>31, <1>32, TitledSlots
  <2> QED
    BY <1>31, <2>1, SameSound
<1>34. PICK fresh \in Nat : fresh = new + imported
  OBVIOUS
<1>35. TableSound(t8, disowned \cup (K \ {0}), B6 \ {0}, made + fresh)
  <2>1. made + new + imported = made + fresh
    BY <1>1, <1>34
  <2>2. TableSound(t8, D, B6, made + fresh)
    BY <1>33, <2>1
  <2> QED
    BY <1>20, <2>2 DEF TableSound, Sound
<1>36. Slots(t8) \subseteq {0} \cup Slots(rows) \cup ((made + 1)..(made + fresh))
  <2>1. ((made + 1)..(made + new)) \subseteq (made + 1)..(made + fresh)
    BY <1>1, <1>34
  <2>2. FileImported => made + new + 1 \in (made + 1)..(made + fresh)
    BY <1>1, <1>21, <1>34
  <2> QED
    BY <1>24, <1>31, <1>33, <2>1, <2>2
<1>37. B6 \subseteq 0..(made + fresh) /\ K \subseteq 0..(made + fresh)
  <2>1. N \subseteq 0..(made + fresh) /\ {0} \cup Slots(rows) \subseteq 0..(made + fresh)
    BY <1>1, <1>27, <1>34
  <2> QED
    BY <1>19, <1>23, <1>28, <1>31, <2>1
<1>38. Begin("persist", t8, fresh, B6, K)
  BY <1>22, <1>30, <1>32, <1>34
<1> QED
  BY <1>2, <1>35, <1>36, <1>37, <1>38, BeginStep

\* A transaction in progress is a record of its own.
LEMMA WriteTyped ==
  ASSUME ArtworkInduction
  PROVE  /\ write.at = "none" => write = NoWrite
         /\ write.at \in {"cache", "persist", "owner", "committed"} =>
              /\ write \in Writes /\ write.after \in Tables
              /\ write.created \subseteq 1..made /\ write.obsolete \subseteq 1..made /\ write.taken \subseteq 1..made
         /\ NoWrite.at = "none"
<1>1. NoWrite.at = "none"
  BY DEF NoWrite
<1>2. write = NoWrite \/ write \in Writes
  BY DEF ArtworkInduction
<1>3. write \in Writes => write.at \in {"cache", "persist", "owner", "committed"} /\ write.after \in Tables
  BY DEF Writes
<1>4. write # NoWrite => write.created \cup write.obsolete \cup write.taken \subseteq 1..made
  BY DEF ArtworkInduction, ArtworkTypeOK
<1> QED
  BY <1>1, <1>2, <1>3, <1>4

\* The type of the import follows from the record it is.
ImportOK == import \in {NoImport} \cup Imports

\* A step of a scan that touches at most the rows' other columns.
LEMMA ScanOnlyStep ==
  ASSUME ArtworkInduction, SameSlots(rows', rows), UNCHANGED <<objects, made, write, disowned>>,
         ImportOK', steps' \in 0..MaxArtSteps, write.at = "cache" => import'.at = "caching"
  PROVE  ArtworkInduction'
<1>1. /\ made' = made /\ objects' = objects /\ disowned' = disowned /\ write' = write
      /\ rows' \in Tables /\ Slots(rows') = Slots(rows)
  BY DEF SameSlots, Slots
<1>2. import' = NoImport \/ /\ import'.at \in {"started", "caching", "enriched", "persisting"}
                            /\ import'.provider \in MaybeId /\ import'.poster \in BOOLEAN
  BY DEF ImportOK, Imports
<1>3. ArtworkTypeOK'
  BY <1>1, <1>2 DEF ArtworkInduction, ArtworkTypeOK
<1>4. PICK B : B = IF write.at = "committed" THEN write.obsolete ELSE {}
  OBVIOUS
<1>5. TableSound(rows, disowned, B, made) /\ Slots(rows) \subseteq {0} \cup objects \cup disowned
  BY <1>4 DEF ArtworkInduction, Committed
<1>6. TableSound(rows', disowned, B, made)
  BY <1>5, SameSound
<1>7. Committed'
  BY <1>1, <1>4, <1>5, <1>6 DEF Committed, Slots
<1>8. Pending'
  BY <1>1 DEF ArtworkInduction, Pending, Slots
<1> QED
  BY <1>1, <1>3, <1>7, <1>8 DEF ArtworkInduction, ImportOK

\* A transaction ends without publishing: what it wrote is gone, or is nobody's.
LEMMA EndStep ==
  ASSUME ArtworkInduction, SameSlots(rows', rows), UNCHANGED <<made, disowned>>, write' = NoWrite,
         objects' \subseteq objects, \A x \in Slots(rows) : x # 0 /\ x \notin disowned => x \in objects',
         ImportOK', steps' \in 0..MaxArtSteps
  PROVE  ArtworkInduction'
<1>1. /\ made' = made /\ disowned' = disowned /\ rows' \in Tables /\ Slots(rows') = Slots(rows) /\ write'.at = "none"
  BY WriteTyped DEF SameSlots, Slots
<1>2. import' = NoImport \/ /\ import'.at \in {"started", "caching", "enriched", "persisting"}
                            /\ import'.provider \in MaybeId /\ import'.poster \in BOOLEAN
  BY DEF ImportOK, Imports
<1>3. ArtworkTypeOK'
  BY <1>1, <1>2 DEF ArtworkInduction, ArtworkTypeOK
<1>4. TableSound(rows, disowned, {}, made)
  BY RowsSound DEF TableSound, ArtworkInduction, Committed
<1>5. TableSound(rows', disowned, {}, made)
  BY <1>4, SameSound
<1>6. Committed'
  BY <1>1, <1>5 DEF Committed, Slots
<1>7. Pending'
  BY <1>1 DEF Pending
<1> QED
  BY <1>1, <1>3, <1>6, <1>7 DEF ArtworkInduction, ImportOK

\* A transaction is committed.
LEMMA PublishStep ==
  ASSUME ArtworkInduction, write.at \in {"cache", "persist", "owner"}, Publish,
         UNCHANGED <<objects, made>>, ImportOK', steps' \in 0..MaxArtSteps
  PROVE  ArtworkInduction'
<1>1. PICK w : w = [write EXCEPT !.at = "committed"]
  OBVIOUS
<1>2. write \in Writes /\ write.after \in Tables /\ write.taken \subseteq 1..made
      /\ write.created \cup write.obsolete \cup write.taken \subseteq 1..made
  BY WriteTyped
<1>3. /\ w \in Writes /\ w.at = "committed" /\ w.after = write.after /\ w.created = write.created
      /\ w.obsolete = write.obsolete /\ w.taken = write.taken
  BY <1>1, <1>2 DEF Writes
<1>4. /\ write' = w /\ rows' = write.after /\ disowned' = disowned \cup write.taken
      /\ objects' = objects /\ made' = made
  BY <1>1 DEF Publish
<1>5. import' = NoImport \/ /\ import'.at \in {"started", "caching", "enriched", "persisting"}
                            /\ import'.provider \in MaybeId /\ import'.poster \in BOOLEAN
  BY DEF ImportOK, Imports
<1>6. ArtworkTypeOK'
  BY <1>2, <1>3, <1>4, <1>5 DEF ArtworkInduction, ArtworkTypeOK
<1>7. /\ TableSound(write.after, disowned \cup write.taken, write.obsolete, made)
      /\ Slots(write.after) \subseteq {0} \cup objects \cup disowned \cup write.taken
  BY DEF ArtworkInduction, Pending
<1>8. Committed'
  BY <1>3, <1>4, <1>7 DEF Committed, Slots
<1>9. Pending'
  BY <1>3, <1>4 DEF Pending
<1> QED
  BY <1>3, <1>4, <1>6, <1>8, <1>9 DEF ArtworkInduction, ImportOK

\* What a transaction that fails before its commit removes has no owner.
LEMMA WithdrawnUnowned ==
  ASSUME ArtworkInduction, write.at \in {"cache", "persist", "owner"}, objects' = objects \ write.created
  PROVE  objects' \subseteq objects /\ \A x \in Slots(rows) : x # 0 /\ x \notin disowned => x \in objects'
<1>1. Slots(rows) \subseteq {0} \cup objects \cup disowned
  BY RowsSound
<1>2. \A x \in Slots(rows) : x \notin write.created
  BY DEF ArtworkInduction, Pending
<1> QED
  BY <1>1, <1>2

\* A transaction ends: committed, failed, its obsolete files removed, or the process dies.
LEMMA SettlesStep ==
  ASSUME ArtworkInduction, steps' = steps,
         \/ CacheCommits \/ CacheFails \/ PersistCommits \/ PersistFails
         \/ OwnerCommits \/ OwnerFails \/ RemoveObsolete \/ CrashArtwork
  PROVE  ArtworkInduction'
<1>0. /\ ImportOK /\ steps' \in 0..MaxArtSteps /\ rows \in Tables /\ SameSlots(rows, rows)
      /\ \A m \in {NoImport} : m \in {NoImport} \cup Imports
  BY RowsSound DEF ArtworkInduction, ArtworkTypeOK, ImportOK, SameSlots
<1>1. write.at = "cache" => import \in Imports
  <2>1. NoImport.at = "none"
    BY DEF NoImport
  <2> QED
    BY <2>1 DEF ArtworkInduction
<1>2. \A v \in BOOLEAN : Kept(rows, v) \in BOOLEAN
  BY <1>0, TableColumns DEF Kept, Fields
<1>3. CASE CacheCommits
  <2>1. write.at = "cache" /\ Publish /\ objects' = objects /\ made' = made
    BY <1>3 DEF CacheCommits
  <2>2. PICK p \in BOOLEAN : p = Kept(rows, TRUE)
    BY <1>2
  <2>3. import' = [import EXCEPT !.at = "enriched", !.poster = p]
    BY <1>3, <2>2 DEF CacheCommits
  <2>4. import' \in Imports
    BY <1>1, <2>1, <2>2, <2>3 DEF Imports
  <2> QED
    BY <1>0, <2>1, <2>4, PublishStep DEF ImportOK
<1>4. CASE CacheFails
  <2>1. write.at = "cache" /\ write' = NoWrite /\ objects' = objects \ write.created /\ made' = made /\ disowned' = disowned
    BY <1>4 DEF CacheFails
  <2>2. PICK p \in BOOLEAN : p = Kept(rows, FALSE)
    BY <1>2
  <2>3. import' = [import EXCEPT !.at = "enriched", !.poster = p]
    BY <1>4, <2>2 DEF CacheFails
  <2>4. import' \in Imports /\ import.provider \in MaybeId
    BY <1>1, <2>1, <2>2, <2>3 DEF Imports
  <2>5. rows' = [rows EXCEPT !.retry = import.provider]
    BY <1>4 DEF CacheFails
  <2>6. SameSlots(rows', rows)
    BY <1>0, <2>4, <2>5 DEF SameSlots, Tables
  <2>7. objects' \subseteq objects /\ \A x \in Slots(rows) : x # 0 /\ x \notin disowned => x \in objects'
    BY <2>1, WithdrawnUnowned
  <2> QED
    BY <1>0, <2>1, <2>4, <2>6, <2>7, EndStep DEF ImportOK
<1>5. CASE PersistCommits \/ OwnerCommits
  <2>1. write.at \in {"persist", "owner"} /\ Publish /\ objects' = objects /\ made' = made /\ ImportOK'
    BY <1>0, <1>5 DEF PersistCommits, OwnerCommits, ImportOK
  <2> QED
    BY <1>0, <2>1, PublishStep
<1>6. CASE PersistFails \/ OwnerFails
  <2>1. /\ write.at \in {"persist", "owner"} /\ write' = NoWrite /\ objects' = objects \ write.created
        /\ made' = made /\ disowned' = disowned /\ rows' = rows /\ ImportOK'
    BY <1>0, <1>6 DEF PersistFails, OwnerFails, Withdraw, ImportOK
  <2>2. objects' \subseteq objects /\ \A x \in Slots(rows) : x # 0 /\ x \notin disowned => x \in objects'
    BY <2>1, WithdrawnUnowned
  <2>3. SameSlots(rows', rows)
    BY <1>0, <2>1
  <2> QED
    BY <1>0, <2>1, <2>2, <2>3, EndStep
<1>7. CASE RemoveObsolete
  <2>1. /\ write.at = "committed" /\ write' = NoWrite /\ objects' = objects \ write.obsolete
        /\ made' = made /\ disowned' = disowned /\ rows' = rows /\ ImportOK'
    BY <1>0, <1>7 DEF RemoveObsolete, ImportOK
  <2>2. TableSound(rows, disowned, write.obsolete, made) /\ Slots(rows) \subseteq {0} \cup objects \cup disowned
    BY <2>1 DEF ArtworkInduction, Committed
  <2>3. \A x \in Slots(rows) : x \in write.obsolete => x = 0 \/ x \in disowned
    BY <2>2 DEF TableSound, Sound, Slots
  <2>4. objects' \subseteq objects /\ \A x \in Slots(rows) : x # 0 /\ x \notin disowned => x \in objects'
    BY <2>1, <2>2, <2>3
  <2>5. SameSlots(rows', rows)
    BY <1>0, <2>1
  <2> QED
    BY <1>0, <2>1, <2>4, <2>5, EndStep
<1>8. CASE CrashArtwork
  <2>1. /\ write' = NoWrite /\ import' = NoImport /\ objects' = objects
        /\ made' = made /\ disowned' = disowned /\ rows' = rows
    BY <1>8 DEF CrashArtwork
  <2>2. objects' \subseteq objects /\ \A x \in Slots(rows) : x # 0 /\ x \notin disowned => x \in objects'
    BY <2>1, RowsSound
  <2>3. SameSlots(rows', rows) /\ ImportOK'
    BY <1>0, <2>1 DEF ImportOK
  <2> QED
    BY <1>0, <2>1, <2>2, <2>3, EndStep
<1> QED
  BY <1>3, <1>4, <1>5, <1>6, <1>7, <1>8

\* The collection removes only what no row names (cleanupArtworkObjectsLocked).
LEMMA CleanupStep ==
  ASSUME ArtworkInduction, steps' = steps, NEW batch \in SUBSET objects, CleanupArtworkObjects(batch)
  PROVE  ArtworkInduction'
<1>1. /\ write.at = "none" /\ rows' = rows /\ made' = made /\ write' = write /\ import' = import /\ disowned' = disowned
      /\ objects' = objects \ (batch \ References(rows))
  BY DEF CleanupArtworkObjects
<1>2. write' = NoWrite
  BY <1>1, WriteTyped
<1>3. Slots(rows) \subseteq {0} \cup objects \cup disowned /\ rows \in Tables
  BY RowsSound
<1>4. objects' \subseteq objects /\ \A x \in Slots(rows) : x # 0 /\ x \notin disowned => x \in objects'
  BY <1>1, <1>3 DEF References, Slots, NoObject
<1>5. SameSlots(rows', rows) /\ ImportOK' /\ steps' \in 0..MaxArtSteps
  BY <1>1, <1>3 DEF SameSlots, ImportOK, ArtworkInduction, ArtworkTypeOK
<1> QED
  BY <1>1, <1>2, <1>4, <1>5, EndStep

\* What a scan goes back to or asks for is one of the stages it can be at.
LEMMA IntentTyped ==
  ASSUME ArtworkInduction, NEW nfo \in NFOs, NEW complete
  PROVE  Intent(nfo, complete) \in Stages
<1>1. rows.nfo \in NFORows /\ rows.provider \in MaybeId /\ rows.poster \in BOOLEAN
  BY RowsSound, TableColumns
<1>2. rows.nfo.fallback \in MaybeId
  BY <1>1 DEF NFORows
<1>3. PICK d \in MaybeId : d = IF nfo \in ProviderIds THEN nfo ELSE rows.nfo.fallback
  BY <1>2 DEF MaybeId
<1>4. PICK r \in BOOLEAN : r = (nfo \notin ProviderIds)
  OBVIOUS
<1>5. PICK p \in MaybeId, q \in BOOLEAN : p = rows.provider /\ q = rows.poster
  BY <1>1
<1>6. [intent |-> TRUE, desired |-> d, restoring |-> r, prior |-> p, priorPoster |-> q] \in Stages
  BY DEF Stages
<1>7. NoIntent \in Stages
  BY DEF NoIntent, Stages, MaybeId
<1> QED
  BY <1>3, <1>4, <1>5, <1>6, <1>7 DEF Intent

\* The columns a scan reads.
LEMMA PosterTyped ==
  ASSUME ArtworkInduction
  PROVE  /\ rows \in Tables /\ rows.provider \in MaybeId /\ rows.retry \in MaybeId /\ rows.poster \in BOOLEAN
         /\ rows.field.value \in BOOLEAN /\ rows.field.locked \in BOOLEAN /\ SameSlots(rows, rows)
<1>1. rows \in Tables
  BY RowsSound
<1>2. rows.field \in Fields /\ rows.provider \in MaybeId /\ rows.retry \in MaybeId /\ rows.poster \in BOOLEAN
  BY <1>1, TableColumns
<1> QED
  BY <1>1, <1>2 DEF Fields, SameSlots

\* A scan begins: nothing but the import changes.
LEMMA StartImportStep ==
  ASSUME ArtworkInduction, NEW nfo \in NFOs, NEW file \in {"absent", "image", "bad"},
         NEW complete \in BOOLEAN, NEW unchanged \in BOOLEAN,
         StartImport(nfo, file, complete, unchanged), steps' \in 0..MaxArtSteps
  PROVE  ArtworkInduction'
<1>1. PICK stage \in Stages : stage = Intent(nfo, complete)
  BY IntentTyped
<1>2. PICK p \in MaybeId : p = IF stage.intent THEN NoId ELSE rows.provider
  BY PosterTyped DEF MaybeId
<1>3. stage.intent \in BOOLEAN
  BY DEF Stages
<1>4. PICK q \in BOOLEAN :
        q = IF (rows.provider # NoId \/ rows.owner # "none") /\ ~stage.intent THEN rows.poster
            ELSE Kept(rows, unchanged /\ ~stage.intent /\ rows.poster)
  BY <1>3, PosterTyped DEF Kept
<1>5. import' = [at |-> "started", nfo |-> nfo, file |-> file, complete |-> complete, stage |-> stage,
                 provider |-> p, poster |-> q, fetched |-> "none"]
  BY <1>1, <1>2, <1>4 DEF StartImport
<1>6. import' \in Imports
  BY <1>5 DEF Imports
<1>7. UNCHANGED <<rows, objects, made, write, disowned>> /\ write.at # "cache"
  BY DEF StartImport
<1> QED
  BY <1>6, <1>7, PosterTyped, ScanOnlyStep DEF ImportOK

\* An import that began is a record of its own.
LEMMA ImportTyped ==
  ASSUME ArtworkInduction, import.at \in {"started", "caching", "enriched", "persisting"}
  PROVE  import \in Imports
<1>1. NoImport.at = "none"
  BY DEF NoImport
<1> QED
  BY <1>1 DEF ArtworkInduction

\* The rest of a scan's steps but the caching and the plan.
LEMMA EnrichStep ==
  ASSUME ArtworkInduction, steps' = steps,
         \/ EnrichNothing
         \/ \E f \in {"none", "ok", "failed"} : EnrichIdentity(f)
         \/ \E id \in ProviderIds, f \in {"none", "failed"} : EnrichWithout(id, f)
         \/ ImportFails
  PROVE  ArtworkInduction'
<1>0. steps' \in 0..MaxArtSteps
  BY DEF ArtworkInduction, ArtworkTypeOK
<1>1. import.at = "started" => import \in Imports /\ write.at # "cache"
  BY ImportTyped DEF ArtworkInduction
<1>2. CASE EnrichNothing
  <2>1. import \in Imports /\ write.at # "cache"
    BY <1>1, <1>2 DEF EnrichNothing
  <2>2. import' \in Imports
    BY <1>2, <2>1 DEF EnrichNothing, Imports
  <2>3. UNCHANGED <<rows, objects, made, write, disowned>>
    BY <1>2 DEF EnrichNothing
  <2> QED
    BY <1>0, <2>1, <2>2, <2>3, PosterTyped, ScanOnlyStep DEF ImportOK
<1>3. CASE \E f \in {"none", "ok", "failed"} : EnrichIdentity(f)
  <2>1. PICK f \in {"none", "ok", "failed"} : EnrichIdentity(f)
    BY <1>3
  <2>2. import \in Imports /\ write.at # "cache"
    BY <1>1, <2>1 DEF EnrichIdentity
  <2>3. PICK q \in BOOLEAN : q = Kept(rows, f = "ok" /\ ~rows.field.locked)
    BY PosterTyped DEF Kept
  <2>4. PICK g \in {"none", "ok", "failed"} : g = IF rows.field.locked THEN "none" ELSE f
    OBVIOUS
  <2>5. PICK d \in MaybeId : d = import.stage.desired
    BY <2>2 DEF Imports, Stages
  <2>6. import' = [import EXCEPT !.at = "enriched", !.provider = d, !.poster = q, !.fetched = g]
    BY <2>1, <2>3, <2>4, <2>5 DEF EnrichIdentity
  <2>7. import' \in Imports
    BY <2>2, <2>6 DEF Imports
  <2>8. UNCHANGED <<rows, objects, made, write, disowned>>
    BY <2>1 DEF EnrichIdentity
  <2> QED
    BY <1>0, <2>2, <2>7, <2>8, PosterTyped, ScanOnlyStep DEF ImportOK
<1>4. CASE \E id \in ProviderIds, f \in {"none", "failed"} : EnrichWithout(id, f)
  <2>1. PICK id \in ProviderIds, f \in {"none", "failed"} : EnrichWithout(id, f)
    BY <1>4
  <2>2. import \in Imports /\ write.at # "cache" /\ id \in MaybeId
    BY <1>1, <2>1 DEF EnrichWithout, MaybeId
  <2>3. import.poster \in BOOLEAN
    BY <2>2 DEF Imports
  <2>4. PICK q \in BOOLEAN : q = Kept(rows, import.poster)
    BY <2>3, PosterTyped DEF Kept
  <2>5. import' = [import EXCEPT !.at = "enriched", !.provider = id, !.poster = q]
    BY <2>1, <2>4 DEF EnrichWithout
  <2>6. import' \in Imports
    BY <2>2, <2>5 DEF Imports
  <2>7. SameSlots([rows EXCEPT !.retry = id], rows)
    BY <2>2, PosterTyped DEF SameSlots, Tables
  <2>8. SameSlots(rows', rows)
    BY <2>1, <2>7, PosterTyped DEF EnrichWithout
  <2>9. UNCHANGED <<objects, made, write, disowned>>
    BY <2>1 DEF EnrichWithout
  <2> QED
    BY <1>0, <2>2, <2>6, <2>8, <2>9, ScanOnlyStep DEF ImportOK
<1>5. CASE ImportFails
  <2>1. UNCHANGED <<rows, objects, made, write, disowned>> /\ import' = NoImport /\ write.at # "cache"
    BY <1>5 DEF ImportFails
  <2> QED
    BY <1>0, <2>1, PosterTyped, ScanOnlyStep DEF ImportOK
<1> QED
  BY <1>2, <1>3, <1>4, <1>5

\* What is about to be removed does not need to say that it is no object.
LEMMA WithoutNoObject ==
  ASSUME NEW t, NEW D, NEW K, NEW B, NEW n, TableSound(t, D, B, n)
  PROVE  TableSound(t, D \cup (K \ {0}), B \ {0}, n)
<1>1. PICK l, a, o, f, s : l = t.local.row /\ a = t.art /\ o = t.local.object /\ f = t.local.fallback /\ s = t.saved
  OBVIOUS
<1>2. Sound(l, a, o, f, s, D, B)
  BY <1>1 DEF TableSound
<1>3. Sound(l, a, o, f, s, D \cup (K \ {0}), B \ {0})
  BY <1>2 DEF Sound
<1> QED
  BY <1>1, <1>3 DEF TableSound

\* A transaction that writes the provider's artwork over sound rows, which may
\* already have given up the objects of B.
LEMMA BeginProvider ==
  ASSUME ArtworkInduction, NEW kind \in {"cache", "owner"}, NEW t, NEW B,
         TableSound(t, disowned, B, made), B \subseteq 0..made, Slots(t) \subseteq {0} \cup Slots(rows),
         NEW after, SameSlots(after, ProviderArtwork(t, made + 1)),
         NEW obsolete, obsolete = B \cup ReplacedBy(t), Begin(kind, after, 1, obsolete, {}),
         rows' = rows, disowned' = disowned, steps' \in 0..MaxArtSteps,
         import' \in {NoImport} \cup Imports, kind = "cache" => import'.at = "caching"
  PROVE  ArtworkInduction'
<1>1. made \in Nat /\ Slots(rows) \subseteq 0..made
  BY RowsSound
<1>2. t \in Tables
  BY DEF TableSound
<1>3. PICK u : u = ProviderArtwork(t, made + 1)
  OBVIOUS
<1>4. /\ TableSound(u, disowned, obsolete, made + 1) /\ Slots(u) \subseteq {0, made + 1} \cup Slots(t)
      /\ ReplacedBy(t) \subseteq Slots(t)
  BY <1>1, <1>2, <1>3, ProviderStage
<1>5. SameSlots(after, u)
  BY <1>3
<1>6. TableSound(after, disowned, obsolete, made + 1) /\ Slots(after) = Slots(u)
  BY <1>4, <1>5, SameSound
<1>7. PICK K : K = {}
  OBVIOUS
<1>8. TableSound(after, disowned \cup (K \ {0}), obsolete \ {0}, made + 1)
  BY <1>6, WithoutNoObject
<1>9. /\ Slots(after) \subseteq {0} \cup Slots(rows) \cup ((made + 1)..(made + 1))
      /\ obsolete \subseteq 0..(made + 1) /\ K \subseteq 0..(made + 1)
  <2>1. /\ made + 1 \in (made + 1)..(made + 1) /\ 0..made \subseteq 0..(made + 1) /\ 0 \in 0..made
    BY <1>1
  <2> QED
    BY <1>1, <1>4, <1>6, <1>7, <2>1
<1>10. Begin(kind, after, 1, obsolete, K) /\ 1 \in Nat /\ kind \in {"cache", "persist", "owner"}
  BY <1>7
<1> QED
  BY <1>8, <1>9, <1>10, BeginStep

\* A transaction that writes no object.
LEMMA BeginPlain ==
  ASSUME ArtworkInduction, NEW after, NEW obsolete, TableSound(after, disowned, obsolete, made),
         Slots(after) \subseteq {0} \cup Slots(rows), obsolete \subseteq 0..made,
         Begin("owner", after, 0, obsolete, {}),
         rows' = rows, disowned' = disowned, steps' \in 0..MaxArtSteps, import' \in {NoImport} \cup Imports
  PROVE  ArtworkInduction'
<1>1. made \in Nat /\ made + 0 = made
  BY RowsSound
<1>2. PICK K : K = {}
  OBVIOUS
<1>3. TableSound(after, disowned \cup (K \ {0}), obsolete \ {0}, made + 0)
  BY <1>1, WithoutNoObject
<1>4. /\ Slots(after) \subseteq {0} \cup Slots(rows) \cup ((made + 1)..(made + 0))
      /\ obsolete \subseteq 0..(made + 0) /\ K \subseteq 0..(made + 0)
  BY <1>1, <1>2
<1>5. Begin("owner", after, 0, obsolete, K) /\ 0 \in Nat
  BY <1>2
<1> QED
  BY <1>3, <1>4, <1>5, BeginStep

\* A scan caches what the provider sent (cacheArtworkAndClearRetry).
LEMMA CacheStep ==
  ASSUME ArtworkInduction, steps' = steps, NEW id \in ProviderIds, CacheArtworkAndClearRetry(id)
  PROVE  ArtworkInduction'
<1>1. steps' \in 0..MaxArtSteps /\ rows' = rows /\ disowned' = disowned
  BY DEF ArtworkInduction, ArtworkTypeOK, CacheArtworkAndClearRetry
<1>2. import' \in Imports /\ import'.at = "caching"
  <2>1. import \in Imports
    BY ImportTyped DEF CacheArtworkAndClearRetry
  <2>2. import' = [import EXCEPT !.at = "caching", !.provider = id]
    BY DEF CacheArtworkAndClearRetry
  <2> QED
    BY <2>1, <2>2 DEF Imports, MaybeId
<1>3. PICK b \in BOOLEAN : b = (rows.retry = id)
  OBVIOUS
<1>4. PICK r \in MaybeId : r = IF b THEN NoId ELSE rows.retry
  BY PosterTyped DEF MaybeId
<1>5. PICK t : t = [rows EXCEPT !.retry = r]
  OBVIOUS
<1>6. SameSlots(t, rows) /\ t \in Tables /\ t.poster \in BOOLEAN
  BY <1>5, PosterTyped DEF SameSlots, Tables
<1>7. made \in Nat /\ TableSound(rows, disowned, {}, made)
  BY RowsSound DEF TableSound
<1>8. TableSound(t, disowned, {}, made) /\ Slots(t) = Slots(rows)
  BY <1>6, <1>7, SameSound
<1>9. (ShowsLocal(t) <=> ShowsLocal(rows)) /\ ReplacedBy(t) = ReplacedBy(rows)
  BY <1>6 DEF SameSlots, ShowsLocal, ReplacedBy
<1>10. PICK after : after = IF ShowsLocal(rows) THEN AsFallback(t, made + 1)
                            ELSE [t EXCEPT !.art = made + 1, !.poster = @ \/ b]
  OBVIOUS
<1>11. Begin("cache", after, 1, {} \cup ReplacedBy(t), {})
  BY <1>3, <1>4, <1>5, <1>9, <1>10 DEF CacheArtworkAndClearRetry, ReplacedBy
<1>12. SameSlots(after, ProviderArtwork(t, made + 1))
  <2>1. CASE ShowsLocal(rows)
    <3>1. AsFallback(t, made + 1) \in Tables
      BY <1>6, <1>7, AsFallbackSlots DEF HasSlots
    <3> QED
      BY <1>9, <1>10, <2>1, <3>1 DEF ProviderArtwork, SameSlots
  <2>2. CASE ~ShowsLocal(rows)
    <3>1. PICK q \in BOOLEAN : q = (t.poster \/ b)
      BY <1>6
    <3>2. after = [t EXCEPT !.art = made + 1, !.poster = q]
      BY <1>10, <2>2, <3>1
    <3>3. ProviderArtwork(t, made + 1) = [t EXCEPT !.art = made + 1]
      BY <1>9, <2>2 DEF ProviderArtwork
    <3>4. PICK x \in Nat : x = made + 1
      BY <1>7
    <3>5. t \in [art : Nat, local : Locals, saved : Nat, retry : MaybeId, nfo : NFORows, provider : MaybeId,
                 owner : {"none", "match", "unmatch"}, poster : BOOLEAN, field : Fields]
      BY <1>6, TableColumns
    <3>6. after \in Tables
      BY <3>2, <3>4, <3>5, TableColumns
    <3>7. after.art = x /\ after.local = t.local /\ after.saved = t.saved
      BY <3>2, <3>4, <3>5
    <3>8. /\ [t EXCEPT !.art = x].art = x /\ [t EXCEPT !.art = x].local = t.local
          /\ [t EXCEPT !.art = x].saved = t.saved
      BY <3>5
    <3> QED
      BY <3>3, <3>4, <3>6, <3>7, <3>8 DEF SameSlots
  <2> QED
    BY <2>1, <2>2
<1>13. PICK B : B = {}
  OBVIOUS
<1>14. PICK obsolete : obsolete = B \cup ReplacedBy(t)
  OBVIOUS
<1>15. TableSound(t, disowned, B, made) /\ B \subseteq 0..made /\ Begin("cache", after, 1, obsolete, {})
  BY <1>8, <1>11, <1>13, <1>14
<1> QED
  BY <1>1, <1>2, <1>8, <1>12, <1>14, <1>15, BeginProvider

\* The owner edits the poster, or an offer is not taken: no object moves.
LEMMA EditMetadataStep ==
  ASSUME ArtworkInduction, steps' \in 0..MaxArtSteps, NEW source \in {"owner", "local"},
         NEW value \in BOOLEAN, NEW locked \in BOOLEAN, EditMetadata(source, value, locked)
  PROVE  ArtworkInduction'
<1>1. /\ rows' = rows /\ disowned' = disowned /\ import' \in {NoImport} \cup Imports
      /\ made \in Nat /\ TableSound(rows, disowned, {}, made)
  BY RowsSound DEF EditMetadata, ArtworkInduction, TableSound
<1>2. PICK w \in Fields : w = [source |-> source, locked |-> locked, value |-> value]
  BY DEF Fields
<1>3. PICK after : after = [rows EXCEPT !.retry = NoId, !.poster = value, !.field = w]
  OBVIOUS
<1>4. SameSlots(after, rows)
  BY <1>2, <1>3, PosterTyped DEF SameSlots, Tables, Fields, MaybeId
<1>5. PICK B : B = {}
  OBVIOUS
<1>6. TableSound(after, disowned, B, made) /\ Slots(after) = Slots(rows) /\ B \subseteq 0..made
  BY <1>1, <1>4, <1>5, SameSound
<1>7. Begin("owner", after, 0, B, {})
  BY <1>2, <1>3, <1>5 DEF EditMetadata
<1> QED
  BY <1>1, <1>6, <1>7, BeginPlain

\* The owner's choice of an identity, before its artwork: the identity artwork
\* is given up.
Owned(id, fetched) ==
  [rows EXCEPT !.provider = id, !.owner = IF id = NoId THEN "unmatch" ELSE "match",
     !.poster = Kept(rows, FALSE), !.saved = NoObject,
     !.nfo = IF @.row THEN [@ EXCEPT !.fallback = id, !.poster = "blank"] ELSE @,
     !.retry = IF fetched = "failed" THEN id ELSE NoId]
LEMMA OwnedSlots ==
  ASSUME ArtworkInduction, NEW id \in MaybeId, NEW fetched
  PROVE  /\ Owned(id, fetched) \in Tables /\ Owned(id, fetched).art = rows.art
         /\ Owned(id, fetched).local = rows.local /\ Owned(id, fetched).saved = 0
         /\ Owned(id, fetched).poster \in BOOLEAN
<1>1. rows \in [art : Nat, local : Locals, saved : Nat, retry : MaybeId, nfo : NFORows, provider : MaybeId,
                owner : {"none", "match", "unmatch"}, poster : BOOLEAN, field : Fields]
  BY RowsSound, TableColumns
<1>2. PICK p \in BOOLEAN : p = Kept(rows, FALSE)
  BY PosterTyped DEF Kept
<1>3. PICK w \in {"none", "match", "unmatch"} : w = IF id = NoId THEN "unmatch" ELSE "match"
  OBVIOUS
<1>4. PICK r \in MaybeId : r = IF fetched = "failed" THEN id ELSE NoId
  BY DEF MaybeId
<1>5. [rows.nfo EXCEPT !.fallback = id, !.poster = "blank"] \in NFORows
  BY <1>1 DEF NFORows
<1>6. PICK m \in NFORows : m = IF rows.nfo.row THEN [rows.nfo EXCEPT !.fallback = id, !.poster = "blank"] ELSE rows.nfo
  BY <1>1, <1>5
<1>7. PICK u : u = [rows EXCEPT !.provider = id, !.owner = w, !.poster = p, !.saved = 0, !.nfo = m, !.retry = r]
  OBVIOUS
<1>8. Owned(id, fetched) = u
  BY <1>1, <1>2, <1>3, <1>4, <1>6, <1>7 DEF Owned, NoObject
<1>9. u \in Tables
  BY <1>1, <1>7, TableColumns
<1>10. u.art = rows.art /\ u.local = rows.local /\ u.saved = 0 /\ u.poster = p
  BY <1>1, <1>7
<1> QED
  BY <1>8, <1>9, <1>10

\* Giving up the identity artwork keeps the rows sound, and its object nobody's.
LEMMA OwnedSound ==
  ASSUME ArtworkInduction, NEW id \in MaybeId, NEW fetched, NEW t, t = Owned(id, fetched)
  PROVE  TableSound(t, disowned, {rows.saved}, made) /\ Slots(t) \subseteq {0} \cup Slots(rows)
<1>1. PICK l, a, o, f, s : /\ l = rows.local.row /\ a = rows.art /\ o = rows.local.object
                           /\ f = rows.local.fallback /\ s = rows.saved
  OBVIOUS
<1>2. Sound(l, a, o, f, s, disowned, {}) /\ {a, o, f, s} \subseteq 0..made /\ made \in Nat /\ Slots(rows) = {a, o, f, s}
  BY <1>1, RowsSound DEF Slots
<1>3. Sound(l, a, o, f, 0, disowned, {s})
  BY <1>2 DEF Sound
<1>4. HasSlots(t, l, a, o, f, 0)
  BY <1>1, OwnedSlots DEF HasSlots
<1>5. {a, o, f, 0} \subseteq 0..made
  BY <1>2
<1> QED
  BY <1>1, <1>2, <1>3, <1>4, <1>5, SoundSlots

\* The owner matches or unmatches the title (saveMatch, updateMatch).
LEMMA MatchStep ==
  ASSUME ArtworkInduction, steps' \in 0..MaxArtSteps, NEW id \in MaybeId, NEW fetched, Match(id, fetched)
  PROVE  ArtworkInduction'
<1>1. rows' = rows /\ disowned' = disowned /\ import' \in {NoImport} \cup Imports
  BY DEF Match, ArtworkInduction
<1>2. made \in Nat /\ Slots(rows) \subseteq 0..made /\ Slots(rows) = {rows.art, rows.local.object, rows.local.fallback, rows.saved}
  BY RowsSound DEF Slots
<1>3. PICK t : t = Owned(id, fetched)
  OBVIOUS
<1>4. /\ t \in Tables /\ t.art = rows.art /\ t.local = rows.local /\ t.saved = 0 /\ t.poster \in BOOLEAN
      /\ TableSound(t, disowned, {rows.saved}, made) /\ Slots(t) \subseteq {0} \cup Slots(rows)
  BY <1>3, OwnedSlots, OwnedSound
<1>5. (ShowsLocal(t) <=> ShowsLocal(rows)) /\ ReplacedBy(t) = ReplacedBy(rows)
  BY <1>4 DEF ShowsLocal, ReplacedBy
<1>6. PICK after : after = Matched(id, fetched)
  OBVIOUS
<1>7. CASE fetched = "ok"
  <2>1. SameSlots(after, ProviderArtwork(t, made + 1))
    <3>1. CASE ShowsLocal(rows)
      <4>1. AsFallback(t, made + 1) \in Tables
        BY <1>2, <1>4, AsFallbackSlots DEF HasSlots
      <4>2. after = AsFallback(t, made + 1)
        BY <1>3, <1>6, <1>7, <3>1 DEF Matched, Owned
      <4> QED
        BY <1>5, <3>1, <4>1, <4>2 DEF ProviderArtwork, SameSlots
    <3>2. CASE ~ShowsLocal(rows)
      <4>1. PICK x \in Nat : x = made + 1
        BY <1>2
      <4>2. after = [t EXCEPT !.art = x, !.poster = TRUE]
        BY <1>3, <1>6, <1>7, <3>2, <4>1 DEF Matched, Owned
      <4>3. ProviderArtwork(t, made + 1) = [t EXCEPT !.art = x]
        BY <1>5, <3>2, <4>1 DEF ProviderArtwork
      <4>4. t \in [art : Nat, local : Locals, saved : Nat, retry : MaybeId, nfo : NFORows, provider : MaybeId,
                   owner : {"none", "match", "unmatch"}, poster : BOOLEAN, field : Fields]
        BY <1>4, TableColumns
      <4>5. after \in Tables
        BY <4>2, <4>4, TableColumns
      <4>6. after.art = x /\ after.local = t.local /\ after.saved = t.saved
        BY <4>2, <4>4
      <4>7. /\ [t EXCEPT !.art = x].art = x /\ [t EXCEPT !.art = x].local = t.local
            /\ [t EXCEPT !.art = x].saved = t.saved
        BY <4>4
      <4> QED
        BY <4>3, <4>5, <4>6, <4>7 DEF SameSlots
    <3> QED
      BY <3>1, <3>2
  <2>2. PICK B : B = {rows.saved}
    OBVIOUS
  <2>3. PICK obsolete : obsolete = B \cup ReplacedBy(t)
    OBVIOUS
  <2>4. Begin("owner", after, 1, obsolete, {})
    BY <1>5, <1>6, <1>7, <2>2, <2>3 DEF Match, ReplacedBy
  <2>5. TableSound(t, disowned, B, made) /\ B \subseteq 0..made
    BY <1>2, <1>4, <2>2
  <2> QED
    BY <1>1, <1>4, <2>1, <2>3, <2>4, <2>5, BeginProvider
<1>8. CASE fetched # "ok" /\ ShowsLocal(rows)
  <2>1. PICK y : y = [t.local EXCEPT !.fallback = 0, !.value = FALSE]
    OBVIOUS
  <2>2. y \in Locals /\ y.row = t.local.row /\ y.object = t.local.object /\ y.fallback = 0 /\ t.art \in Nat /\ 0 \in Nat
    BY <1>4, <2>1, TableColumns DEF Locals
  <2>3. after = [t EXCEPT !.local.fallback = 0, !.local.value = FALSE]
    BY <1>3, <1>6, <1>8 DEF Matched, Owned, NoObject
  <2>4. after = Updated(t, t.art, y, 0)
    BY <1>4, <2>1, <2>3, TableColumns DEF Tables, Updated
  <2>5. HasSlots(after, y.row, t.art, y.object, y.fallback, 0)
    BY <1>4, <2>2, <2>4, UpdatedSlots
  <2>6. PICK l, a, o, f, s : /\ l = rows.local.row /\ a = rows.art /\ o = rows.local.object
                             /\ f = rows.local.fallback /\ s = rows.saved
    OBVIOUS
  <2>7. HasSlots(after, l, a, o, 0, 0)
    BY <1>4, <2>2, <2>5, <2>6
  <2>8. Sound(l, a, o, f, s, disowned, {})
    BY <2>6, RowsSound
  <2>9. Sound(l, a, o, 0, 0, disowned, {s, f})
    BY <2>8 DEF Sound
  <2>10. {a, o, 0} \subseteq 0..made /\ Slots(rows) = {a, o, f, s}
    BY <1>2, <2>6
  <2>11. TableSound(after, disowned, {s, f}, made) /\ Slots(after) = {a, o, 0}
    BY <2>7, <2>9, <2>10, SoundSlots
  <2>12. {s, f} \subseteq 0..made /\ Slots(after) \subseteq {0} \cup Slots(rows)
    BY <1>2, <2>10, <2>11
  <2>13. Begin("owner", after, 0, {s, f}, {})
    <3>1. {rows.saved} \cup {rows.local.fallback} = {s, f}
      BY <2>6
    <3> QED
      BY <1>6, <1>8, <3>1 DEF Match
  <2> QED
    BY <1>1, <2>11, <2>12, <2>13, BeginPlain
<1>9. CASE fetched # "ok" /\ ~ShowsLocal(rows)
  <2>1. after = t
    BY <1>3, <1>6, <1>9 DEF Matched, Owned
  <2>2. PICK B : B = {rows.saved}
    OBVIOUS
  <2>3. Begin("owner", t, 0, B, {})
    BY <1>6, <1>9, <2>1, <2>2 DEF Match
  <2>4. TableSound(t, disowned, B, made) /\ B \subseteq 0..made
    BY <1>2, <1>4, <2>2
  <2> QED
    BY <1>1, <1>4, <2>3, <2>4, BeginPlain
<1> QED
  BY <1>7, <1>8, <1>9

\* The owner refreshes from the provider: its artwork is shown in place of an
\* object whose field does not say local, and that object is passed over.
LEMMA RefreshStep ==
  ASSUME ArtworkInduction, steps' \in 0..MaxArtSteps, NEW offered, Refresh(offered)
  PROVE  ArtworkInduction'
<1>1. rows' = rows /\ disowned' = disowned /\ import' \in {NoImport} \cup Imports
  BY DEF Refresh, ArtworkInduction
<1>2. /\ made \in Nat /\ Slots(rows) \subseteq 0..made /\ TableSound(rows, disowned, {}, made)
      /\ Slots(rows) = {rows.art, rows.local.object, rows.local.fallback, rows.saved}
  BY RowsSound DEF Slots, TableSound
<1>3. PICK t : t = [rows EXCEPT !.retry = NoId]
  OBVIOUS
<1>4. SameSlots(t, rows) /\ t \in Tables
  BY <1>3, PosterTyped DEF SameSlots, Tables, MaybeId
<1>5. TableSound(t, disowned, {}, made) /\ Slots(t) = Slots(rows)
  BY <1>2, <1>4, SameSound
<1>6. CASE rows.field.locked \/ ~offered
  <2>1. PICK B : B = {}
    OBVIOUS
  <2>2. Begin("owner", t, 0, B, {})
    BY <1>3, <1>6, <2>1 DEF Refresh
  <2>3. TableSound(t, disowned, B, made) /\ B \subseteq 0..made /\ Slots(t) \subseteq {0} \cup Slots(rows)
    BY <1>5, <2>1
  <2> QED
    BY <1>1, <2>2, <2>3, BeginPlain
<1>7. CASE ~(rows.field.locked \/ ~offered) /\ rows.field.source = "local"
  <2>1. ShowsLocal(rows) /\ Begin("owner", AsFallback(t, made + 1), 1, {rows.local.fallback}, {})
    BY <1>3, <1>7 DEF Refresh
  <2>2. ShowsLocal(t) /\ ReplacedBy(t) = {rows.local.fallback}
    BY <1>4, <2>1 DEF SameSlots, ShowsLocal, ReplacedBy
  <2>3. PICK after : after = AsFallback(t, made + 1)
    OBVIOUS
  <2>4. SameSlots(after, ProviderArtwork(t, made + 1))
    <3>1. after \in Tables
      <4>1. PICK x \in Nat : x = made + 1
        BY <1>2
      <4>2. HasSlots(AsFallback(t, x), t.local.row, t.local.object, t.local.object, x, t.saved)
        BY <1>4, AsFallbackSlots
      <4> QED
        BY <2>3, <4>1, <4>2 DEF HasSlots
    <3> QED
      BY <2>2, <2>3, <3>1 DEF ProviderArtwork, SameSlots
  <2>5. PICK B : B = {}
    OBVIOUS
  <2>6. PICK obsolete : obsolete = B \cup ReplacedBy(t)
    OBVIOUS
  <2>7. /\ TableSound(t, disowned, B, made) /\ B \subseteq 0..made /\ Slots(t) \subseteq {0} \cup Slots(rows)
        /\ Begin("owner", after, 1, obsolete, {})
    BY <1>5, <2>1, <2>2, <2>3, <2>5, <2>6
  <2> QED
    BY <1>1, <2>4, <2>6, <2>7, BeginProvider
<1>8. CASE ~(rows.field.locked \/ ~offered) /\ rows.field.source # "local"
  <2>1. PICK x \in Nat : x = made + 1
    BY <1>2
  <2>2. PICK w \in Fields : w = [source |-> "provider", locked |-> FALSE, value |-> TRUE]
    BY DEF Fields
  <2>3. PICK after : after = [t EXCEPT !.art = x, !.poster = TRUE, !.field = w]
    OBVIOUS
  <2>4. PICK K : K = IF rows.local.row THEN {rows.local.object} ELSE {}
    OBVIOUS
  <2>5. Begin("owner", after, 1, {rows.art}, K)
    BY <1>3, <1>8, <2>1, <2>2, <2>3, <2>4 DEF Refresh
  <2>6. PICK l, a, o, f, s : /\ l = rows.local.row /\ a = rows.art /\ o = rows.local.object
                             /\ f = rows.local.fallback /\ s = rows.saved
    OBVIOUS
  <2>7. HasSlots(after, l, x, o, f, s)
    <3>1. t \in [art : Nat, local : Locals, saved : Nat, retry : MaybeId, nfo : NFORows, provider : MaybeId,
                 owner : {"none", "match", "unmatch"}, poster : BOOLEAN, field : Fields]
      BY <1>4, TableColumns
    <3>2. after \in Tables
      BY <2>1, <2>3, <3>1, TableColumns
    <3>3. after.art = x /\ after.local = t.local /\ after.saved = t.saved
      BY <2>3, <3>1
    <3> QED
      BY <1>4, <2>6, <3>2, <3>3 DEF SameSlots, HasSlots
  <2>8. Sound(l, a, o, f, s, disowned, {}) /\ {a, o, f, s} \subseteq 0..made /\ Slots(rows) = {a, o, f, s}
    BY <1>2, <2>6, RowsSound
  <2>9. x \notin {0, a, o, f, s} /\ {0, x, a, o, f, s} \subseteq 0..x
    BY <1>2, <2>1, <2>8
  <2>10. PICK D : D = disowned \cup (K \ {0})
    OBVIOUS
  <2>11. disowned \subseteq D /\ (l => o \in D \/ o = 0)
    BY <2>4, <2>6, <2>10
  <2>12. Sound(l, x, o, f, s, D, {a} \ {0})
    BY <2>8, <2>9, <2>11 DEF Sound
  <2>13. TableSound(after, D, {a} \ {0}, x) /\ Slots(after) = {x, o, f, s}
    BY <2>7, <2>9, <2>12, SoundSlots
  <2>14. TableSound(after, disowned \cup (K \ {0}), {a} \ {0}, made + 1)
    BY <2>1, <2>10, <2>13
  <2>15. /\ Slots(after) \subseteq {0} \cup Slots(rows) \cup ((made + 1)..(made + 1))
         /\ {a} \subseteq 0..(made + 1) /\ K \subseteq 0..(made + 1)
    <3>1. x \in (made + 1)..(made + 1)
      BY <1>2, <2>1
    <3> QED
      BY <2>1, <2>4, <2>6, <2>8, <2>9, <2>13, <3>1
  <2>16. Begin("owner", after, 1, {a}, K) /\ 1 \in Nat
    BY <2>5, <2>6
  <2> QED
    BY <1>1, <2>14, <2>15, <2>16, BeginStep
<1> QED
  BY <1>6, <1>7, <1>8

\* The invariant holds of the first state.
LEMMA ArtworkStarts ==
  ASSUME ArtworkInit
  PROVE  ArtworkInduction
<1>1. NoId \in MaybeId /\ made = 0 /\ objects = {} /\ disowned = {}
  BY DEF MaybeId, ArtworkInit
<1>2. NoLocal \in Locals /\ NoNFO \in NFORows /\ NoField \in Fields
  BY <1>1 DEF NoLocal, NoNFO, NoField, NoObject, Locals, NFORows, Fields
<1>3. PICK y \in Locals, m \in NFORows, w \in Fields : y = NoLocal /\ m = NoNFO /\ w = NoField
  BY <1>2
<1>4. rows = [art |-> 0, local |-> y, saved |-> 0, retry |-> NoId, nfo |-> m,
              provider |-> NoId, owner |-> "none", poster |-> FALSE, field |-> w]
  BY <1>3 DEF ArtworkInit, NewTitle, NoObject
<1>5. rows \in Tables
  BY <1>1, <1>4, TableColumns
<1>6. ~y.row /\ y.object = 0 /\ y.fallback = 0
  BY <1>3 DEF NoLocal, NoObject
<1>7. HasSlots(rows, FALSE, 0, 0, 0, 0)
  BY <1>4, <1>5, <1>6 DEF HasSlots
<1>8. Slots(rows) = {0} /\ {0} \subseteq 0..0
  BY <1>7 DEF HasSlots, Slots
<1>9. TableSound(rows, {}, {}, 0) /\ Slots(rows) = {0}
  BY <1>7, <1>8 DEF HasSlots, TableSound, Sound
<1>10. write = NoWrite /\ import = NoImport /\ write.at = "none"
  BY DEF ArtworkInit, NoWrite
<1>11. ArtworkTypeOK
  BY <1>1, <1>5, <1>10, ArtworkAssumption DEF ArtworkTypeOK, ArtworkInit
<1> QED
  BY <1>1, <1>9, <1>10, <1>11 DEF ArtworkInduction, Committed, Pending

\* The objects, the rows and the transaction stay in step, whatever a scan, the
\* owner, the collection and a crash do, in whatever order.
LEMMA ArtworkInduct == ArtworkSpec => []ArtworkInduction
<1>1. ArtworkInit => ArtworkInduction
  BY ArtworkStarts
<1>2. ArtworkInduction /\ [ArtworkNext]_artworkVars => ArtworkInduction'
  <2> SUFFICES ASSUME ArtworkInduction, [ArtworkNext]_artworkVars
               PROVE  ArtworkInduction'
    OBVIOUS
  <2>1. CASE UNCHANGED artworkVars
    BY <2>1 DEF artworkVars, ArtworkInduction, ArtworkTypeOK, Committed, Pending
  <2>2. CASE steps < MaxArtSteps /\ steps' = steps + 1 /\ Begins
    <3>1. steps' \in 0..MaxArtSteps
      BY <2>2, ArtworkAssumption DEF ArtworkInduction, ArtworkTypeOK
    <3>2. CASE \E nfo \in NFOs, file \in {"absent", "image", "bad"}, complete, unchanged \in BOOLEAN :
                 StartImport(nfo, file, complete, unchanged)
      BY <3>1, <3>2, StartImportStep
    <3>3. CASE \E id \in ProviderIds, f \in {"none", "ok", "failed"} : Match(id, f)
      BY <3>1, <3>3, MatchStep DEF MaybeId
    <3>4. CASE Unmatch
      BY <3>1, <3>4, MatchStep DEF Unmatch, MaybeId
    <3>5. CASE \E offered \in BOOLEAN : Refresh(offered)
      BY <3>1, <3>5, RefreshStep
    <3>6. CASE \E source \in {"owner", "local"}, value, locked \in BOOLEAN : EditMetadata(source, value, locked)
      BY <3>1, <3>6, EditMetadataStep
    <3> QED
      BY <2>2, <3>2, <3>3, <3>4, <3>5, <3>6 DEF Begins, NFOs
  <2>3. CASE UNCHANGED steps /\ Proceeds
    <3>1. steps' = steps /\ steps' \in 0..MaxArtSteps
      BY <2>3 DEF ArtworkInduction, ArtworkTypeOK
    <3>2. CASE \/ EnrichNothing \/ ImportFails
               \/ \E f \in {"none", "ok", "failed"} : EnrichIdentity(f)
               \/ \E id \in ProviderIds, f \in {"none", "failed"} : EnrichWithout(id, f)
      BY <3>1, <3>2, EnrichStep
    <3>3. CASE \E id \in ProviderIds : CacheArtworkAndClearRetry(id)
      BY <3>1, <3>3, CacheStep
    <3>4. CASE Persist
      BY <3>1, <3>4, PersistStep
    <3>5. CASE \/ CacheCommits \/ CacheFails \/ PersistCommits \/ PersistFails
               \/ OwnerCommits \/ OwnerFails \/ RemoveObsolete \/ CrashArtwork
      BY <3>1, <3>5, SettlesStep
    <3>6. CASE \E batch \in SUBSET objects : CleanupArtworkObjects(batch)
      BY <3>1, <3>6, CleanupStep
    <3> QED
      BY <2>3, <3>2, <3>3, <3>4, <3>5, <3>6 DEF Proceeds
  <2> QED
    BY <2>1, <2>2, <2>3 DEF ArtworkNext
<1> QED
  BY <1>1, <1>2, PTL DEF ArtworkSpec

\* Every poster that a committed row names has its file, and the local artwork
\* is the one shown while its field says local, for every number of films,
\* objects and steps (the writers under artworkMu, cleanupArtworkObjectsLocked).
THEOREM ArtworkCorrect == ArtworkSpec => []ArtworkInv
<1>1. ArtworkInduction => ArtworkInv
  <2> SUFFICES ASSUME ArtworkInduction
               PROVE  ArtworkInv
    OBVIOUS
  <2>1. ArtworkTypeOK
    BY DEF ArtworkInduction
  <2>2. ReferencesKept
    BY RowsSound DEF ReferencesKept, References, Slots, NoObject
  <2>3. LocalVisible
    <3>1. PICK l, a, o, f, s : /\ l = rows.local.row /\ a = rows.art /\ o = rows.local.object
                               /\ f = rows.local.fallback /\ s = rows.saved
      OBVIOUS
    <3>2. Sound(l, a, o, f, s, disowned, {})
      BY <3>1, RowsSound
    <3> QED
      BY <3>1, <3>2 DEF Sound, LocalVisible
  <2> QED
    BY <2>1, <2>2, <2>3 DEF ArtworkInv
<1> QED
  BY <1>1, ArtworkInduct, PTL

-----------------------------------------------------------------------------
(* The library scan.                                                         *)

\* The types of the tables and of what a scan, a page, a proof and a playback hold.
Ids == Places \X Contents \X Nat
Rows == [place : Places, content : Contents, token : Nat, born : Nat, title : TitleIds,
         present : BOOLEAN, selected : BOOLEAN]
Items == [place : Places, content : Contents, token : Nat, available : BOOLEAN]
LocationStates == {"none", "available", "unknown", "unavailable", "review_required"}
LocationRows == [library : Libraries \cup {Gone}, root : Roots \cup {Gone}, state : LocationStates,
                 review : SUBSET Ids, pending : Nat, revision : Nat]
Previews == [revision : Nat, root : Roots \cup {Gone}, sources : SUBSET Ids]
Pages == [location : Locations, id : Nat, review : SUBSET Ids]
SourceProofs == [title : TitleIds, place : Places, root : Roots, content : Contents, token : Nat, found : Nat]
SourceKeys == [title : TitleIds, place : Places, root : Roots, content : Contents, token : Nat,
               opened : Contents \cup {Gone}]
Founds == [place : Places, token : Nat]
Results == [place : Places, token : Nat, content : Contents]
RemovalReviews == [location : Locations, missing : SUBSET Ids]
Phases == {"idle", "walking", "inspected", "committed"}
ScanStates == [phase : Phases, id : Nat, libraries : SUBSET (Libraries \cup {Gone}), retry : SUBSET Places,
               todo : SUBSET Locations, found : SUBSET Founds, protected : SUBSET Locations,
               completed : SUBSET Locations, unavailable : SUBSET Locations, reviews : SUBSET RemovalReviews,
               results : SUBSET Results, failures : SUBSET Places]

DiskTyped ==
  /\ writes \in Nat /\ online \subseteq Roots
  /\ disk \in [DOMAIN FirstDisk -> [content : Contents \cup {Gone}, token : 0..writes]]
TablesTyped ==
  /\ files \in SUBSET Rows
  /\ DOMAIN titles \subseteq TitleIds /\ titles \in [DOMAIN titles -> Items]
  /\ \A f \in files : f.title \in DOMAIN titles
OwnersTyped ==
  /\ locations \in [Locations -> LocationRows]
  /\ preview \in [Locations -> Previews]
  /\ page \in {NoPage} \cup Pages
  /\ skipped \subseteq Places
PlaybackTyped ==
  /\ proof \in {NoProof} \cup SourceProofs
  /\ admitted \in {NoKey} \cup SourceKeys
ScanTyped == scan \in ScanStates /\ scans \in Nat /\ (scan.phase = "idle" => scan = NoScan)

\* A token is of one content only: the file that has it, if there is one, holds it.
Vouched(c, t) == t \in 1..writes /\ \A d \in DOMAIN disk : disk[d].token = t => disk[d].content = c

\* Existing files have distinct tokens, and whatever the catalog, a scan, a proof or a playback
\* knows of a token is true.
TokensTrue ==
  /\ \A d \in DOMAIN disk : disk[d].content = Gone <=> disk[d].token = 0
  /\ \A d, e \in DOMAIN disk : disk[d].token = disk[e].token => d = e \/ disk[d].token = 0
FilesTrue == \A f \in files : Vouched(f.content, f.token)
ScanTrue == /\ \A f \in scan.found : f.token \in 1..writes
            /\ \A r \in scan.results : Vouched(r.content, r.token)
ProofTrue == proof = NoProof \/ Vouched(proof.content, proof.found)
KeyTrue == admitted = NoKey \/ (Vouched(admitted.content, admitted.token) /\ admitted.opened \in {Gone, admitted.content})

\* The ids of the rows.
RowIds == {PhysicalId(f) : f \in files}

\* A review names rows of its own location, present ones but for what a scan skipped.
IdsHeld(l, ids) == \A i \in ids : i \in RowIds /\ i[1][1] = l
IdsShown(l, ids) == \A i \in ids : i[1] \in PresentAt(l) \cup skipped
ReviewsHeld ==
  /\ \A l \in Locations : IdsHeld(l, locations[l].review)
  /\ \A l \in Locations : locations[l].state = "review_required" =>
       locations[l].review # {} /\ IdsShown(l, locations[l].review)
  /\ \A r \in scan.reviews : IdsHeld(r.location, r.missing) /\ r.missing # {} /\ IdsShown(r.location, r.missing)

\* A page that names the pending review of its location shows it; a running scan's id is new.
PagesCurrent ==
  /\ page.id <= scans /\ \A l \in Locations : locations[l].pending <= scans
  /\ scan.phase # "idle" => scan.id = scans /\ page.id < scans /\ \A l \in Locations : locations[l].pending < scans
  /\ page # NoPage =>
       LET l == page.location
       IN  locations[l].state = "review_required" /\ locations[l].pending = page.id => page.review = locations[l].review

\* A location that was walked is protected or completed; where something was found, and where not.
FoundAt(l) == \E f \in scan.found : f.place[1] = l
Walked ==
  /\ scan.todo \subseteq Registered
  /\ \A l \in Registered : l \in scan.todo \/ l \in scan.protected \/ l \in scan.completed
  /\ \A l \in Locations : l \in scan.protected => l \notin scan.todo /\ l \notin scan.completed
  /\ \A l \in scan.completed : l \notin scan.todo /\ Requested(l) /\ scan.retry = {} /\ (ActiveSources(l) = {} \/ FoundAt(l))
  /\ \A l \in scan.unavailable : l \in scan.protected /\ ~FoundAt(l)
  /\ \A r \in scan.reviews : r.location \in scan.protected /\ scan.retry = {}
  /\ \A f \in scan.found : /\ Requested(f.place[1])
                           /\ f.place[1] \in scan.completed \/ (f.place[1] \in scan.protected /\ f.place \in scan.retry)
  /\ \A f, g \in scan.found : f.place = g.place => f = g
WalkOK == scan.phase \in {"walking", "inspected"} => Walked

\* Every file found is a result or a failure, and so is every file a retry asked for.
InspectOK ==
  scan.phase = "inspected" =>
    /\ scan.todo = {}
    /\ \A r \in scan.results : \E f \in scan.found : f.place = r.place
    /\ \A r, s \in scan.results : r.place = s.place => r = s
    /\ \A r \in scan.results : r.place \notin scan.failures
    /\ \A k \in scan.retry : k \in scan.failures \/ \E r \in scan.results : r.place = k

\* What the disk bears out, and what the tables and the scan say of each other.
CatalogTruth == DiskTyped /\ PlaybackTyped /\ TokensTrue /\ FilesTrue /\ ScanTrue /\ ProofTrue /\ KeyTrue
CatalogTables ==
  /\ TablesTyped /\ OwnersTyped /\ ScanTyped /\ UniqueSources(files) /\ AvailableHasSource
  /\ ReviewsHeld /\ PagesCurrent /\ WalkOK /\ InspectOK
CatalogInduction == CatalogTruth /\ CatalogTables

\* A place is a location and a path, both numbers.
LEMMA PlaceIs ==
  \A a \in Places : /\ a = <<a[1], a[2]>> /\ a[1] \in Locations /\ a[2] \in Paths
                    /\ a[1] \in Nat /\ a[2] \in Nat
<1>1. \A a \in Places : a = <<a[1], a[2]>> /\ a[1] \in Locations /\ a[2] \in Paths
  BY DEF Places
<1>2. \A l \in Locations : l \in Nat
  BY CatalogAssumption
<1>3. \A p \in Paths : p \in Nat
  BY CatalogAssumption
<1> QED
  BY <1>1, <1>2, <1>3

\* The order of places is strict and total: among any of them one is first.
LEMMA FirstIn ==
  ASSUME NEW S \in SUBSET Places, S # {}
  PROVE  First(S) \in S
<1> DEFINE T == {a[1] : a \in S}
<1>1. T \in SUBSET Nat /\ T # {}
  BY PlaceIs
<1>2. PICK i \in T : \A m \in T : i <= m
  BY <1>1, LeastExists
<1> DEFINE U == {a[2] : a \in {b \in S : b[1] = i}}
<1>3. U \in SUBSET Nat /\ U # {}
  BY PlaceIs
<1>4. PICK j \in U : \A m \in U : j <= m
  BY <1>3, LeastExists
<1>5. PICK a \in S : a[1] = i /\ a[2] = j
  BY <1>4
<1>6. \A b \in S \ {a} : Before(a, b)
  <2> SUFFICES ASSUME NEW b \in S, b # a PROVE Before(a, b)
    OBVIOUS
  <2>1. /\ a = <<a[1], a[2]>> /\ b = <<b[1], b[2]>>
        /\ a[1] \in Nat /\ a[2] \in Nat /\ b[1] \in Nat /\ b[2] \in Nat
    BY PlaceIs
  <2>2. a[1] <= b[1]
    BY <1>2, <1>5
  <2>3. CASE b[1] = a[1]
    <3>1. b[2] \in U
      BY <2>3, <1>5
    <3>2. a[2] <= b[2]
      BY <3>1, <1>4, <1>5
    <3>3. a[2] # b[2]
      BY <2>1, <2>3
    <3> QED
      BY <2>1, <2>3, <3>2, <3>3 DEF Before
  <2>4. CASE b[1] # a[1]
    BY <2>1, <2>2, <2>4 DEF Before
  <2> QED
    BY <2>3, <2>4
<1> QED
  BY <1>6 DEF First

\* What persist compares a new file with: the present row of its place if there is one, else a row of it.
LEMMA KnownIs ==
  ASSUME TablesTyped, UniqueSources(files), DiskTyped, FilesTrue, NEW k
  PROVE  /\ Known(k) = {} => \A f \in files : f.place # k
         /\ \A old \in Known(k) : /\ old \in files /\ old.place = k /\ Known(k) = {old}
                                  /\ \A g \in files : g.place = k /\ g.present => g = old
<1> DEFINE table == {f \in files : f.place = k}
           Newest(f) == \A g \in table \ {f} : f.present \/ (~g.present /\ g.token <= f.token)
           chosen == CHOOSE f \in table : Newest(f)
<1>1. Known(k) = IF table = {} THEN {} ELSE {chosen}
  BY DEF Known
<1>2. CASE table = {}
  BY <1>1, <1>2
<1>3. CASE table # {}
  <2>1. \E f \in table : Newest(f)
    <3>1. CASE \E f \in table : f.present
      BY <3>1
    <3>2. CASE \A f \in table : ~f.present
      <4> DEFINE T == {writes - f.token : f \in table}
      <4>1. \A f \in table : f.token \in Nat /\ f.token <= writes /\ writes \in Nat
        BY DEF FilesTrue, Vouched, DiskTyped
      <4>2. T \in SUBSET Nat /\ T # {}
        BY <4>1, <1>3
      <4>3. PICK n \in T : \A m \in T : n <= m
        BY <4>2, LeastExists
      <4>4. PICK f \in table : n = writes - f.token
        BY <4>3
      <4>5. \A g \in table : g.token <= f.token
        <5> SUFFICES ASSUME NEW g \in table PROVE g.token <= f.token
          OBVIOUS
        <5>1. writes - f.token <= writes - g.token
          BY <4>3, <4>4
        <5> QED
          BY <5>1, <4>1
      <4> QED
        BY <4>5, <3>2
    <3> QED
      BY <3>1, <3>2
  <2>2. chosen \in table /\ Newest(chosen)
    BY <2>1
  <2> HIDE DEF chosen
  <2>3. \A g \in files : g.place = k /\ g.present => g = chosen
    <3> SUFFICES ASSUME NEW g \in files, g.place = k, g.present, g # chosen PROVE FALSE
      OBVIOUS
    <3>1. chosen.present
      BY <2>2
    <3> QED
      BY <3>1, <2>2 DEF UniqueSources
  <2> QED
    BY <1>1, <1>3, <2>2, <2>3
<1> QED
  BY <1>2, <1>3

\* The rows and the scan do not change with the disk, a proof being read or a playback.
LEMMA TablesKept ==
  ASSUME CatalogTables, UNCHANGED <<locations, files, titles, scan, scans, ownerVars>>
  PROVE  CatalogTables'
<1>1. /\ locations' = locations /\ files' = files /\ titles' = titles /\ scan' = scan /\ scans' = scans
      /\ preview' = preview /\ page' = page /\ skipped' = skipped
  BY DEF ownerVars
<1>2. TablesTyped' /\ OwnersTyped' /\ ScanTyped'
  BY <1>1 DEF CatalogTables, TablesTyped, OwnersTyped, ScanTyped
<1>3. UniqueSources(files)' /\ AvailableHasSource'
  BY <1>1 DEF CatalogTables, UniqueSources, AvailableHasSource
<1>4. ReviewsHeld' /\ PagesCurrent'
  BY <1>1 DEF CatalogTables, ReviewsHeld, PagesCurrent, IdsHeld, IdsShown, RowIds, PhysicalId, PresentAt, ActiveSources
<1>5. WalkOK' /\ InspectOK'
  BY <1>1 DEF CatalogTables, WalkOK, InspectOK, Walked, Registered, Requested, ActiveSources, FoundAt
<1> QED
  BY <1>2, <1>3, <1>4, <1>5 DEF CatalogTables

\* A change of the disk: one file at most is rewritten or removed.
DiskChange ==
  /\ writes' = writes + 1 /\ writes \in Nat /\ online' \subseteq Roots
  /\ disk' \in [DOMAIN FirstDisk -> [content : Contents \cup {Gone}, token : 0..writes']]
  /\ \A d \in DOMAIN FirstDisk : \/ disk'[d] = disk[d]
                                 \/ disk'[d].token = writes + 1 /\ disk'[d].content # Gone
                                 \/ disk'[d].token = 0 /\ disk'[d].content = Gone
  /\ \A d, e \in DOMAIN FirstDisk : disk'[d] # disk[d] /\ disk'[e] # disk[e] => d = e
  /\ UNCHANGED <<locations, files, titles, scan, scans, ownerVars, playVars>>

\* What is vouched for stays true: a write draws a new token, a removal leaves none.
LEMMA DiskStep ==
  ASSUME CatalogInduction, DiskNext
  PROVE  CatalogInduction'
<1> USE DEF CatalogInduction
<1>1. DiskChange
  <2>0. /\ writes \in Nat /\ online \subseteq Roots /\ DOMAIN disk = DOMAIN FirstDisk
        /\ disk \in [DOMAIN FirstDisk -> [content : Contents \cup {Gone}, token : 0..writes]]
        /\ disk \in [DOMAIN FirstDisk -> [content : Contents \cup {Gone}, token : 0..(writes + 1)]]
    BY DEF CatalogTruth, DiskTyped
  <2>1. ASSUME NEW d \in DOMAIN disk, NEW c \in Contents, WriteFile(d, c) PROVE DiskChange
    <3>1. [content |-> c, token |-> writes + 1] \in [content : Contents \cup {Gone}, token : 0..(writes + 1)]
      BY <2>0
    <3>2. Gone # c
      BY CatalogAssumption
    <3> QED
      BY <2>0, <2>1, <3>1, <3>2 DEF WriteFile, DiskChange
  <2>2. ASSUME NEW d \in DOMAIN disk, RemoveFile(d) PROVE DiskChange
    <3>1. NoFile \in [content : Contents \cup {Gone}, token : 0..(writes + 1)] /\ NoFile.token = 0 /\ NoFile.content = Gone
      BY <2>0 DEF NoFile
    <3> QED
      BY <2>0, <2>2, <3>1 DEF RemoveFile, DiskChange
  <2>3. ASSUME NEW r \in Roots, Mount(r) PROVE DiskChange
    BY <2>0, <2>3 DEF Mount, DiskChange
  <2> QED
    BY <2>1, <2>2, <2>3 DEF DiskNext
<1> USE DEF DiskChange
<1>2. DOMAIN disk = DOMAIN FirstDisk /\ DOMAIN disk' = DOMAIN FirstDisk
  BY <1>1 DEF CatalogTruth, DiskTyped
<1>3. \A d \in DOMAIN FirstDisk : disk[d].token \in 0..writes
  BY DEF CatalogTruth, DiskTyped
<1>4. TokensTrue'
  <2>1. ASSUME NEW d \in DOMAIN FirstDisk PROVE disk'[d].content = Gone <=> disk'[d].token = 0
    BY <1>1, <1>2 DEF CatalogTruth, TokensTrue
  <2>2. ASSUME NEW d \in DOMAIN FirstDisk, NEW e \in DOMAIN FirstDisk, disk'[d].token = disk'[e].token, disk'[d].token # 0
        PROVE  d = e
    <3>1. CASE disk'[d] = disk[d] /\ disk'[e] = disk[e]
      BY <2>2, <3>1, <1>2 DEF CatalogTruth, TokensTrue
    <3>2. CASE disk'[d] # disk[d] /\ disk'[e] # disk[e]
      BY <3>2, <1>1
    <3>3. CASE disk'[d] # disk[d] /\ disk'[e] = disk[e]
      BY <3>3, <2>2, <1>1, <1>3
    <3>4. CASE disk'[d] = disk[d] /\ disk'[e] # disk[e]
      BY <3>4, <2>2, <1>1, <1>3
    <3> QED
      BY <3>1, <3>2, <3>3, <3>4
  <2> QED
    BY <2>1, <2>2, <1>2 DEF TokensTrue
<1>5. ASSUME NEW c, NEW t, Vouched(c, t) PROVE Vouched(c, t)'
  <2>1. t \in 1..writes /\ t \in 1..writes'
    BY <1>5, <1>1 DEF Vouched
  <2>2. ASSUME NEW d \in DOMAIN FirstDisk, disk'[d].token = t PROVE disk'[d].content = c
    BY <2>1, <2>2, <1>1, <1>2, <1>5 DEF Vouched
  <2> QED
    BY <2>1, <2>2, <1>2 DEF Vouched
<1>6. FilesTrue' /\ ScanTrue' /\ ProofTrue' /\ KeyTrue'
  <2>1. files' = files /\ scan' = scan /\ proof' = proof /\ admitted' = admitted
    BY <1>1 DEF playVars
  <2>2. FilesTrue'
    BY <2>1, <1>5 DEF CatalogTruth, FilesTrue
  <2>3. ScanTrue'
    <3>1. \A t \in 1..writes : t \in 1..writes'
      BY <1>1
    <3> QED
      BY <2>1, <1>5, <3>1 DEF CatalogTruth, ScanTrue
  <2>4. ProofTrue'
    BY <2>1, <1>5 DEF CatalogTruth, ProofTrue
  <2>5. KeyTrue'
    BY <2>1, <1>5 DEF CatalogTruth, KeyTrue
  <2> QED
    BY <2>2, <2>3, <2>4, <2>5
<1>7. CatalogTables'
  BY <1>1, TablesKept
<1>8. DiskTyped' /\ PlaybackTyped'
  BY <1>1 DEF CatalogTruth, DiskTyped, PlaybackTyped, playVars
<1> QED
  BY <1>4, <1>6, <1>7, <1>8 DEF CatalogTruth

\* What is on the disk vouches for itself, and a token that is vouched for names its content.
LEMMA FileVouched ==
  ASSUME DiskTyped, TokensTrue, NEW r, NEW p
  PROVE  /\ FileAt(r, p).content # Gone => Vouched(FileAt(r, p).content, FileAt(r, p).token)
         /\ FileAt(r, p).content \in Contents \cup {Gone} /\ FileAt(r, p).token \in Nat
         /\ FileAt(r, p).content = Gone => FileAt(r, p).token = 0
         /\ \A c, t : Vouched(c, t) /\ FileAt(r, p).token = t => FileAt(r, p).content = c
<1>1. CASE <<r, p>> \in DOMAIN disk
  <2> DEFINE d == <<r, p>>
  <2>0. d \in DOMAIN FirstDisk /\ disk \in [DOMAIN FirstDisk -> [content : Contents \cup {Gone}, token : 0..writes]] /\ writes \in Nat
    BY <1>1 DEF DiskTyped
  <2>1. FileAt(r, p) = disk[d] /\ disk[d].token \in 0..writes /\ disk[d].content \in Contents \cup {Gone}
    BY <1>1, <2>0 DEF FileAt
  <2>2. ASSUME disk[d].content # Gone PROVE Vouched(disk[d].content, disk[d].token)
    <3>1. disk[d].token # 0
      BY <1>1, <2>2 DEF TokensTrue
    <3>2. disk[d].token \in 1..writes
      BY <2>1, <2>0, <3>1
    <3> QED
      BY <1>1, <3>1, <3>2 DEF TokensTrue, Vouched
  <2>3. ASSUME NEW c, NEW t, Vouched(c, t), disk[d].token = t PROVE disk[d].content = c
    BY <1>1, <2>3 DEF Vouched
  <2>4. disk[d].content = Gone => disk[d].token = 0
    BY <1>1 DEF TokensTrue
  <2> QED
    BY <2>0, <2>1, <2>2, <2>3, <2>4
<1>2. CASE <<r, p>> \notin DOMAIN disk
  BY <1>2 DEF FileAt, NoFile, Vouched
<1> QED
  BY <1>1, <1>2

\* A proof is of the bytes that were read.
LEMMA ReadProofStep ==
  ASSUME CatalogInduction, NEW t \in DOMAIN titles, ReadProof(t)
  PROVE  CatalogInduction'
<1> USE DEF CatalogInduction
<1> DEFINE item == titles[t]
           root == locations[item.place[1]].root
           file == FileAt(root, item.place[2])
<1>1. /\ proof' = [title |-> t, place |-> item.place, root |-> root, content |-> item.content,
                   token |-> item.token, found |-> file.token]
      /\ root \in online /\ file.content = item.content
      /\ disk' = disk /\ online' = online /\ writes' = writes /\ files' = files /\ scan' = scan /\ admitted' = admitted
      /\ UNCHANGED <<locations, files, titles, scan, scans, ownerVars>>
  BY DEF ReadProof, At, Readable, DigestMatches, mediaVars
<1>2. /\ t \in TitleIds /\ item \in Items /\ online \subseteq Roots
      /\ item.place \in Places /\ item.content \in Contents /\ item.token \in Nat
  BY DEF CatalogTables, CatalogTruth, TablesTyped, Items, DiskTyped
<1>3. Gone \notin Contents
  BY CatalogAssumption
<1>4. Vouched(item.content, file.token) /\ file.token \in Nat
  BY <1>1, <1>2, <1>3, FileVouched DEF CatalogTruth
<1>5. proof' \in SourceProofs
  BY <1>1, <1>2, <1>4 DEF SourceProofs
<1>6. ProofTrue'
  BY <1>1, <1>4 DEF ProofTrue, Vouched
<1>7. DiskTyped' /\ TokensTrue' /\ FilesTrue' /\ ScanTrue' /\ KeyTrue' /\ PlaybackTyped'
  BY <1>1, <1>5 DEF CatalogTruth, DiskTyped, TokensTrue, FilesTrue, ScanTrue, KeyTrue, PlaybackTyped, Vouched
<1> QED
  BY <1>1, <1>6, <1>7, TablesKept DEF CatalogTruth

\* A key names the bytes of the source it was taken from.
LEMMA AdmitStep ==
  ASSUME CatalogInduction, NEW f \in files, Admit(f)
  PROVE  CatalogInduction'
<1> USE DEF CatalogInduction
<1> DEFINE root == locations[f.place[1]].root
<1>1. /\ admitted' = [title |-> f.title, place |-> f.place, root |-> root, content |-> f.content,
                      token |-> f.token, opened |-> Gone]
      /\ root \in online
      /\ disk' = disk /\ online' = online /\ writes' = writes /\ files' = files /\ scan' = scan /\ proof' = proof
      /\ UNCHANGED <<locations, files, titles, scan, scans, ownerVars>>
  BY DEF Admit, Opens, mediaVars
<1>2. f \in Rows /\ online \subseteq Roots
  BY DEF CatalogTables, CatalogTruth, TablesTyped, DiskTyped
<1>3. admitted' \in SourceKeys
  BY <1>1, <1>2 DEF SourceKeys, Rows
<1>4. KeyTrue'
  BY <1>1 DEF CatalogTruth, KeyTrue, FilesTrue, Vouched
<1>5. DiskTyped' /\ TokensTrue' /\ FilesTrue' /\ ScanTrue' /\ ProofTrue' /\ PlaybackTyped'
  BY <1>1, <1>3 DEF CatalogTruth, DiskTyped, TokensTrue, FilesTrue, ScanTrue, ProofTrue, PlaybackTyped, Vouched
<1> QED
  BY <1>1, <1>4, <1>5, TablesKept DEF CatalogTruth

\* What is opened has the token of the key, so it has its content.
LEMMA OpenSourceStep ==
  ASSUME CatalogInduction, OpenSource
  PROVE  CatalogInduction'
<1> USE DEF CatalogInduction
<1> DEFINE file == FileAt(admitted.root, admitted.place[2])
<1>1. /\ admitted # NoKey /\ admitted' = [admitted EXCEPT !.opened = file.content]
      /\ file.token = admitted.token
      /\ disk' = disk /\ online' = online /\ writes' = writes /\ files' = files /\ scan' = scan /\ proof' = proof
      /\ UNCHANGED <<locations, files, titles, scan, scans, ownerVars>>
  BY DEF OpenSource, Opens, mediaVars
<1>2. admitted \in SourceKeys /\ Vouched(admitted.content, admitted.token)
  BY <1>1 DEF CatalogTruth, PlaybackTyped, KeyTrue
<1>3. file.content = admitted.content
  BY <1>1, <1>2, FileVouched DEF CatalogTruth
<1>4. /\ admitted' \in SourceKeys /\ admitted'.content = admitted.content /\ admitted'.token = admitted.token
      /\ admitted'.opened = admitted.content
  BY <1>1, <1>2, <1>3 DEF SourceKeys
<1>5. KeyTrue'
  BY <1>1, <1>2, <1>4 DEF KeyTrue, Vouched
<1>6. DiskTyped' /\ TokensTrue' /\ FilesTrue' /\ ScanTrue' /\ ProofTrue' /\ PlaybackTyped'
  BY <1>1, <1>4 DEF CatalogTruth, DiskTyped, TokensTrue, FilesTrue, ScanTrue, ProofTrue, PlaybackTyped, Vouched
<1> QED
  BY <1>1, <1>5, <1>6, TablesKept DEF CatalogTruth

\* A review stays held and shown while its rows keep their ids and stay present, or are skipped.
LEMMA ReviewsKept ==
  ASSUME ReviewsHeld, locations' = locations, scan'.reviews = scan.reviews,
         RowIds \subseteq RowIds', \A l \in Locations : PresentAt(l) \cup skipped \subseteq (PresentAt(l) \cup skipped)',
         ScanTyped
  PROVE  ReviewsHeld'
<1>1. \A l \in Locations : \A ids : IdsHeld(l, ids) => IdsHeld(l, ids)'
  BY DEF IdsHeld
<1>2. \A l \in Locations : \A ids : IdsShown(l, ids) => IdsShown(l, ids)'
  BY DEF IdsShown
<1>3. \A r \in scan.reviews : r.location \in Locations
  BY DEF ScanTyped, ScanStates, RemovalReviews
<1> QED
  BY <1>1, <1>2, <1>3 DEF ReviewsHeld

\* A refreshed proof changes the token of one present row and nothing else of it.
LEMMA SaveProofStep ==
  ASSUME CatalogInduction, SaveProof
  PROVE  CatalogInduction'
<1> USE DEF CatalogInduction
<1> DEFINE row == {f \in files : f.place = proof.place /\ f.present}
           refreshed == scan.phase = "idle" /\ ProofCurrent /\ \E f \in row : f.content = proof.content /\ f.token = proof.token
<1>1. /\ proof # NoProof /\ proof' = NoProof
      /\ disk' = disk /\ online' = online /\ writes' = writes /\ admitted' = admitted
      /\ locations' = locations /\ scan' = scan /\ scans' = scans /\ preview' = preview /\ page' = page /\ skipped' = skipped
      /\ UNCHANGED <<locations, scan, scans, ownerVars>>
  BY DEF SaveProof, mediaVars, ownerVars
<1>2. proof \in SourceProofs /\ Vouched(proof.content, proof.found) /\ proof.found \in Nat
  BY <1>1 DEF CatalogTruth, PlaybackTyped, ProofTrue, SourceProofs
<1>3. DiskTyped' /\ TokensTrue' /\ ScanTrue' /\ KeyTrue' /\ PlaybackTyped' /\ ProofTrue'
  BY <1>1 DEF CatalogTruth, DiskTyped, TokensTrue, ScanTrue, KeyTrue, PlaybackTyped, ProofTrue, Vouched
<1>4. CASE ~refreshed
  <2>1. files' = files /\ titles' = titles
    BY <1>4 DEF SaveProof
  <2>2. FilesTrue'
    BY <2>1, <1>1 DEF CatalogTruth, FilesTrue, Vouched
  <2> QED
    BY <1>1, <1>3, <2>1, <2>2, TablesKept DEF CatalogTruth
<1>5. CASE refreshed
  <2>1. PICK f \in row : f.content = proof.content
    BY <1>5
  <2>2. row = {f}
    BY <2>1 DEF CatalogTables, UniqueSources
  <2> DEFINE u == [f EXCEPT !.token = proof.found]
  <2>3. f \in files /\ f.present /\ f \in Rows
    BY <2>1 DEF CatalogTables, TablesTyped
  <2>4. /\ u \in Rows /\ u.token = proof.found /\ u.place = f.place /\ u.content = f.content /\ u.born = f.born
        /\ u.title = f.title /\ u.present
    BY <2>3, <1>2 DEF Rows
  <2>5. files' = (files \ {f}) \cup {u} /\ titles' = [titles EXCEPT ![proof.title].token = proof.found]
    <3>1. {[g EXCEPT !.token = proof.found] : g \in row} = {u}
      BY <2>2
    <3> QED
      BY <1>5, <2>2, <3>1 DEF SaveProof
  <2> HIDE DEF u
  <2>6. TablesTyped'
    <3>1. files' \in SUBSET Rows
      BY <2>4, <2>5 DEF CatalogTables, TablesTyped
    <3>2. DOMAIN titles' = DOMAIN titles
      BY <2>5
    <3>3. titles' \in [DOMAIN titles -> Items]
      <4>1. titles \in [DOMAIN titles -> Items]
        BY DEF CatalogTables, TablesTyped
      <4>2. \A x \in Items : [x EXCEPT !.token = proof.found] \in Items
        BY <1>2 DEF Items
      <4> QED
        BY <4>1, <4>2, <2>5
    <3>4. \A g \in files' : g.title \in DOMAIN titles
      BY <2>3, <2>4, <2>5 DEF CatalogTables, TablesTyped
    <3> QED
      BY <3>1, <3>2, <3>3, <3>4 DEF CatalogTables, TablesTyped
  <2>7. FilesTrue'
    BY <2>1, <2>4, <2>5, <1>1, <1>2 DEF CatalogTruth, FilesTrue, Vouched
  <2>8. UniqueSources(files)'
    BY <2>3, <2>4, <2>5 DEF CatalogTables, UniqueSources
  <2>9. AvailableHasSource'
    <3>1. \A t \in DOMAIN titles : titles'[t].available = titles[t].available
      <4>1. titles \in [DOMAIN titles -> Items]
        BY DEF CatalogTables, TablesTyped
      <4>2. \A x \in Items : [x EXCEPT !.token = proof.found].available = x.available
        BY DEF Items
      <4> QED
        BY <4>1, <4>2, <2>5
    <3>2. DOMAIN titles' = DOMAIN titles
      BY <2>5
    <3> QED
      BY <3>1, <3>2, <2>3, <2>4, <2>5 DEF CatalogTables, AvailableHasSource
  <2>10. RowIds \subseteq RowIds' /\ \A l \in Locations : PresentAt(l) \subseteq PresentAt(l)'
    BY <2>3, <2>4, <2>5 DEF RowIds, PhysicalId, PresentAt, ActiveSources
  <2>11. ReviewsHeld'
    <3>1. \A l \in Locations : PresentAt(l) \cup skipped \subseteq (PresentAt(l) \cup skipped)'
      BY <2>10, <1>1
    <3> QED
      BY <3>1, <2>10, <1>1, ReviewsKept DEF CatalogTables
  <2>12. WalkOK' /\ InspectOK' /\ OwnersTyped' /\ ScanTyped' /\ PagesCurrent'
    <3>1. scan'.phase = "idle"
      BY <1>1, <1>5
    <3>2. WalkOK' /\ InspectOK'
      BY <3>1 DEF WalkOK, InspectOK
    <3>3. OwnersTyped' /\ ScanTyped' /\ PagesCurrent'
      BY <1>1 DEF CatalogTables, OwnersTyped, ScanTyped, PagesCurrent
    <3> QED
      BY <3>2, <3>3
  <2> QED
    BY <1>3, <2>6, <2>7, <2>8, <2>9, <2>11, <2>12 DEF CatalogTruth, CatalogTables
<1> QED
  BY <1>4, <1>5
\* What dropping the rows in gone and reselecting their titles makes of one row.
Unmarked(gone, f) == IF f \in gone THEN [f EXCEPT !.present = FALSE, !.selected = FALSE] ELSE f
Marked(touched, f) ==
  IF f.title \in touched THEN [f EXCEPT !.selected = f.present /\ IsPrimary(f, titles'[f.title])] ELSE f

\* Dropping rows and reselecting their titles leaves every row its id, every other row present, and

\* every available title a source.
LEMMA ReselectKeeps ==
  ASSUME TablesTyped, UniqueSources(files), AvailableHasSource, NEW gone \in SUBSET files,
         Reselect(Dropped(gone), {f.title : f \in gone})
  PROVE  /\ TablesTyped' /\ UniqueSources(files)' /\ AvailableHasSource'
         /\ \A u \in files' : \E f \in files : u.content = f.content /\ u.token = f.token
         /\ RowIds \subseteq RowIds'
         /\ \A f \in files : f.present /\ f \notin gone => f.place \in PresentAt(f.place[1])'
<1> DEFINE touched == {f.title : f \in gone}
           table == Dropped(gone)
           M(f) == Marked(touched, Unmarked(gone, f))
<1>1. table = {Unmarked(gone, f) : f \in files} /\ files' = {Marked(touched, h) : h \in table}
  BY DEF Dropped, Reselect, Unmarked, Marked
<1>2. \A f \in files : /\ Unmarked(gone, f) \in Rows
                       /\ Unmarked(gone, f).place = f.place /\ Unmarked(gone, f).content = f.content
                       /\ Unmarked(gone, f).token = f.token /\ Unmarked(gone, f).born = f.born
                       /\ Unmarked(gone, f).title = f.title
                       /\ Unmarked(gone, f).present = (f.present /\ f \notin gone)
  BY DEF TablesTyped, Rows, Unmarked
<1>3. \A h \in Rows : /\ Marked(touched, h) \in Rows
                      /\ Marked(touched, h).place = h.place /\ Marked(touched, h).content = h.content
                      /\ Marked(touched, h).token = h.token /\ Marked(touched, h).born = h.born
                      /\ Marked(touched, h).title = h.title /\ Marked(touched, h).present = h.present
  <2> SUFFICES ASSUME NEW h \in Rows
               PROVE  /\ Marked(touched, h) \in Rows
                      /\ Marked(touched, h).place = h.place /\ Marked(touched, h).content = h.content
                      /\ Marked(touched, h).token = h.token /\ Marked(touched, h).born = h.born
                      /\ Marked(touched, h).title = h.title /\ Marked(touched, h).present = h.present
    OBVIOUS
  <2>1. PICK b : b = (h.present /\ IsPrimary(h, titles'[h.title]))
    OBVIOUS
  <2>2. b \in BOOLEAN
    BY <2>1 DEF IsPrimary
  <2>3. Marked(touched, h) = IF h.title \in touched THEN [h EXCEPT !.selected = b] ELSE h
    BY <2>1 DEF Marked
  <2> QED
    BY <2>2, <2>3 DEF Rows
<1>4. \A f \in files : /\ M(f) \in Rows /\ M(f).place = f.place /\ M(f).content = f.content
                       /\ M(f).token = f.token /\ M(f).born = f.born /\ M(f).title = f.title
                       /\ M(f).present = (f.present /\ f \notin gone)
  BY <1>2, <1>3
<1>5. files' = {M(f) : f \in files}
  BY <1>1
<1> HIDE DEF M
<1>6. \A t \in DOMAIN titles : Alternates(table, t) # {} => First({g.place : g \in Alternates(table, t)}) \in {g.place : g \in Alternates(table, t)}
  <2> SUFFICES ASSUME NEW t \in DOMAIN titles, Alternates(table, t) # {}
               PROVE  First({g.place : g \in Alternates(table, t)}) \in {g.place : g \in Alternates(table, t)}
    OBVIOUS
  <2>1. {g.place : g \in Alternates(table, t)} \in SUBSET Places
    BY <1>1, <1>2 DEF Alternates, Rows
  <2>2. {g.place : g \in Alternates(table, t)} # {}
    OBVIOUS
  <2> QED
    BY <2>1, <2>2, FirstIn
<1>7. \A t \in DOMAIN titles : /\ Reselected(table, t) \in Items
                               /\ Reselected(table, t).available => Alternates(table, t) # {}
  <2> SUFFICES ASSUME NEW t \in DOMAIN titles
               PROVE  Reselected(table, t) \in Items /\ (Reselected(table, t).available => Alternates(table, t) # {})
    OBVIOUS
  <2> DEFINE chosen == CHOOSE f \in Alternates(table, t) : f.place = First({g.place : g \in Alternates(table, t)})
             kept == \E f \in Alternates(table, t) : IsPrimary(f, titles[t])
  <2>1. titles[t] \in Items
    BY DEF TablesTyped
  <2>2. [titles[t] EXCEPT !.available = TRUE] \in Items /\ [titles[t] EXCEPT !.available = FALSE] \in Items
        /\ ~[titles[t] EXCEPT !.available = FALSE].available
    BY <2>1 DEF Items
  <2>3. Alternates(table, t) # {} => chosen \in Rows
    <3>1. SUFFICES ASSUME Alternates(table, t) # {} PROVE chosen \in Rows
      OBVIOUS
    <3>2. \E f \in Alternates(table, t) : f.place = First({g.place : g \in Alternates(table, t)})
      BY <3>1, <1>6
    <3>3. chosen \in Alternates(table, t)
      BY <3>2
    <3> QED
      BY <3>3, <1>1, <1>2 DEF Alternates
  <2>4. Alternates(table, t) # {} =>
          [place |-> chosen.place, content |-> chosen.content, token |-> chosen.token, available |-> TRUE] \in Items
    BY <2>3 DEF Rows, Items
  <2>5. Reselected(table, t) = IF kept THEN [titles[t] EXCEPT !.available = TRUE]
                              ELSE IF Alternates(table, t) = {} THEN [titles[t] EXCEPT !.available = FALSE]
                              ELSE [place |-> chosen.place, content |-> chosen.content, token |-> chosen.token, available |-> TRUE]
    BY DEF Reselected
  <2> QED
    BY <2>2, <2>4, <2>5
<1>8. titles' = [t \in DOMAIN titles |-> IF t \in touched THEN Reselected(table, t) ELSE titles[t]]
  BY DEF Reselect
<1>9. TablesTyped'
  <2>1. titles' \in [DOMAIN titles -> Items] /\ DOMAIN titles' = DOMAIN titles
    BY <1>7, <1>8 DEF TablesTyped
  <2>2. files' \in SUBSET Rows /\ \A u \in files' : u.title \in DOMAIN titles
    BY <1>4, <1>5 DEF TablesTyped
  <2> QED
    BY <2>1, <2>2 DEF TablesTyped
<1>10. UniqueSources(files)'
  <2> SUFFICES ASSUME NEW u \in files', NEW v \in files', u.present, v.present, u.place = v.place PROVE u = v
    BY DEF UniqueSources
  <2>1. PICK f \in files : u = M(f)
    BY <1>5
  <2>2. PICK g \in files : v = M(g)
    BY <1>5
  <2>3. f.present /\ g.present /\ f.place = g.place
    BY <2>1, <2>2, <1>4
  <2>4. f = g
    BY <2>3 DEF UniqueSources
  <2> QED
    BY <2>1, <2>2, <2>4
<1>11. AvailableHasSource'
  <2> SUFFICES ASSUME NEW t \in DOMAIN titles, titles'[t].available
               PROVE  \E u \in files' : u.title = t /\ u.present
    BY <1>8 DEF AvailableHasSource
  <2>1. CASE t \in touched
    <3>1. PICK h \in table : h.title = t /\ h.present
      BY <2>1, <1>7, <1>8 DEF Alternates
    <3>2. Marked(touched, h) \in files' /\ h \in Rows
      BY <1>1, <1>2
    <3> QED
      BY <3>1, <3>2, <1>3
  <2>2. CASE t \notin touched
    <3>1. PICK f \in files : f.title = t /\ f.present
      BY <2>2, <1>8 DEF AvailableHasSource
    <3>2. f \notin gone
      BY <3>1, <2>2
    <3> QED
      BY <3>1, <3>2, <1>4, <1>5
  <2> QED
    BY <2>1, <2>2
<1>12. RowIds \subseteq RowIds'
  BY <1>4, <1>5 DEF RowIds, PhysicalId
<1>13. \A f \in files : f.present /\ f \notin gone => f.place \in PresentAt(f.place[1])'
  BY <1>4, <1>5 DEF PresentAt, ActiveSources
<1> QED
  BY <1>4, <1>5, <1>9, <1>10, <1>11, <1>12, <1>13

\* The owner's confirmed change of a location drops rows of that location only and ends its review.
LEMMA OwnerDrops ==
  ASSUME CatalogInduction, NEW l \in Locations, NEW gone \in SUBSET files, \A f \in gone : f.place[1] = l,
         Reselect(Dropped(gone), {f.title : f \in gone}), scan.phase = "idle",
         NEW new \in LocationRows, new.state # "review_required", new.review \subseteq locations[l].review, new.pending = 0,
         locations' = [locations EXCEPT ![l] = new], preview' \in [Locations -> Previews],
         UNCHANGED <<page, skipped, scan, scans, mediaVars, playVars>>
  PROVE  CatalogInduction'
<1> USE DEF CatalogInduction
<1>1. /\ disk' = disk /\ online' = online /\ writes' = writes /\ proof' = proof /\ admitted' = admitted
      /\ page' = page /\ skipped' = skipped /\ scan' = scan /\ scans' = scans
  BY DEF mediaVars, playVars
<1>2. /\ TablesTyped' /\ UniqueSources(files)' /\ AvailableHasSource'
      /\ \A u \in files' : \E f \in files : u.content = f.content /\ u.token = f.token
      /\ RowIds \subseteq RowIds'
      /\ \A f \in files : f.present /\ f \notin gone => f.place \in PresentAt(f.place[1])'
  BY ReselectKeeps DEF CatalogTables
<1>3. locations \in [Locations -> LocationRows]
  BY DEF CatalogTables, OwnersTyped
<1>4. locations'[l] = new /\ \A k \in Locations \ {l} : locations'[k] = locations[k]
  BY <1>3
<1>5. CatalogTruth'
  <2>1. FilesTrue'
    BY <1>1, <1>2 DEF CatalogTruth, FilesTrue, Vouched
  <2> QED
    BY <1>1, <2>1 DEF CatalogTruth, DiskTyped, TokensTrue, ScanTrue, ProofTrue, KeyTrue, PlaybackTyped, Vouched
<1>6. OwnersTyped' /\ ScanTyped'
  BY <1>1, <1>3 DEF CatalogTables, OwnersTyped, ScanTyped
<1>7. ReviewsHeld'
  <2>1. scan.reviews = {}
    BY DEF CatalogTables, ScanTyped, NoScan
  <2>2. \A k, ids : IdsHeld(k, ids) => IdsHeld(k, ids)'
    BY <1>2 DEF IdsHeld
  <2>3. ASSUME NEW k \in Locations PROVE IdsHeld(k, locations[k].review)'
    <3>1. PICK ids : ids = locations'[k].review
      OBVIOUS
    <3>2. IdsHeld(k, locations[k].review)
      BY DEF CatalogTables, ReviewsHeld
    <3>3. ids \subseteq locations[k].review
      BY <3>1, <1>4
    <3>4. IdsHeld(k, ids)
      BY <3>2, <3>3 DEF IdsHeld
    <3> QED
      BY <3>1, <3>4, <2>2
  <2>4. ASSUME NEW k \in Locations, locations'[k].state = "review_required"
        PROVE  locations'[k].review # {} /\ IdsShown(k, locations[k].review)'
    <3>1. k # l /\ locations'[k] = locations[k]
      BY <2>4, <1>4
    <3>2. locations[k].review # {} /\ IdsShown(k, locations[k].review)
      BY <2>4, <3>1 DEF CatalogTables, ReviewsHeld
    <3>3. PresentAt(k) \subseteq PresentAt(k)'
      BY <3>1, <1>2 DEF PresentAt, ActiveSources
    <3>4. \A ids : IdsShown(k, ids) => IdsShown(k, ids)'
      BY <3>3, <1>1 DEF IdsShown
    <3>5. PICK ids : ids = locations[k].review
      OBVIOUS
    <3> QED
      BY <3>1, <3>2, <3>4, <3>5
  <2> QED
    BY <2>1, <2>3, <2>4, <1>1 DEF ReviewsHeld
<1>8. PagesCurrent'
  <2>1. scans \in Nat /\ 0 <= scans
    BY DEF CatalogTables, ScanTyped
  <2>2. page = NoPage \/ page.location \in Locations
    BY DEF CatalogTables, OwnersTyped, Pages
  <2> QED
    BY <1>1, <1>4, <2>1, <2>2 DEF CatalogTables, PagesCurrent
<1>9. WalkOK' /\ InspectOK'
  BY <1>1 DEF WalkOK, InspectOK
<1> QED
  BY <1>2, <1>5, <1>6, <1>7, <1>8, <1>9 DEF CatalogTables

\* The owner confirms the pending review.
LEMMA ConfirmRemovalsStep ==
  ASSUME CatalogInduction, ConfirmRemovals
  PROVE  CatalogInduction'
<1> USE DEF CatalogInduction
<1> DEFINE l == page.location
           gone == {f \in files : PhysicalId(f) \in locations[l].review}
           new == [locations[l] EXCEPT !.state = "available", !.review = {}, !.pending = 0]
<1>1. /\ page # NoPage /\ scan.phase = "idle" /\ Reselect(Dropped(gone), {f.title : f \in gone})
      /\ locations' = [locations EXCEPT ![l].state = "available", ![l].review = {}, ![l].pending = 0]
      /\ preview' = preview /\ UNCHANGED <<page, skipped, scan, scans, mediaVars, playVars>>
  BY DEF ConfirmRemovals
<1>2. l \in Locations /\ locations[l] \in LocationRows /\ preview \in [Locations -> Previews]
  BY <1>1 DEF CatalogTables, OwnersTyped, Pages
<1>3. locations' = [locations EXCEPT ![l] = new]
  BY <1>1, <1>2
<1>4. new \in LocationRows /\ new.state = "available" /\ new.review = {} /\ new.pending = 0
  BY <1>2 DEF LocationRows, LocationStates
<1>5. \A f \in gone : f.place[1] = l
  BY <1>2 DEF CatalogTables, ReviewsHeld, IdsHeld, PhysicalId
<1>6. gone \in SUBSET files
  OBVIOUS
<1> HIDE DEF gone, l, new
<1> QED
  BY <1>1, <1>2, <1>3, <1>4, <1>5, <1>6, OwnerDrops

\* The owner confirms the change or the removal of a location.
LEMMA ConfirmLocationChangeStep ==
  ASSUME CatalogInduction, NEW l \in Locations, ConfirmLocationChange(l)
  PROVE  CatalogInduction'
<1> USE DEF CatalogInduction
<1> DEFINE gone == ActiveSources(l)
           new == LocationAfter(l)
<1>1. /\ scan.phase = "idle" /\ Reselect(Dropped(gone), {f.title : f \in gone})
      /\ locations' = [locations EXCEPT ![l] = new]
      /\ preview' = (IF preview[l].root = Gone THEN [preview EXCEPT ![l] = NoPreview] ELSE preview)
      /\ UNCHANGED <<page, skipped, scan, scans, mediaVars, playVars>>
  BY DEF ConfirmLocationChange
<1>2. locations[l] \in LocationRows /\ preview \in [Locations -> Previews] /\ preview[l] \in Previews
  BY DEF CatalogTables, OwnersTyped
<1>3. NoPreview \in Previews /\ NoLocation \in LocationRows
  BY DEF NoPreview, Previews, NoLocation, LocationRows, LocationStates
<1>4. new \in LocationRows /\ new.state # "review_required" /\ new.review \subseteq locations[l].review /\ new.pending = 0
  <2>1. CASE preview[l].root = Gone
    BY <1>3, <2>1 DEF LocationAfter, NoLocation
  <2>2. CASE preview[l].root # Gone
    <3> DEFINE r == preview[l].root
    <3>1. r \in Roots \cup {Gone}
      BY <1>2 DEF Previews
    <3>2. new = [locations[l] EXCEPT !.root = r, !.revision = @ + 1, !.state = "unknown", !.pending = 0]
      BY <2>2 DEF LocationAfter
    <3> HIDE DEF r, new
    <3>3. PICK n : n = locations[l].revision + 1
      OBVIOUS
    <3>4. n \in Nat
      BY <1>2, <3>3 DEF LocationRows
    <3>5. new = [locations[l] EXCEPT !.root = r, !.revision = n, !.state = "unknown", !.pending = 0]
      BY <3>2, <3>3
    <3> QED
      BY <1>2, <3>1, <3>4, <3>5 DEF LocationRows, LocationStates
  <2> QED
    BY <2>1, <2>2
<1>5. preview' \in [Locations -> Previews]
  BY <1>1, <1>2, <1>3
<1>6. gone \in SUBSET files /\ \A f \in gone : f.place[1] = l
  BY DEF ActiveSources
<1> HIDE DEF gone, new
<1> QED
  BY <1>1, <1>4, <1>5, <1>6, OwnerDrops

\* Loading a review or previewing a change touches the owner's page and the previews only.
LEMMA OwnerLooks ==
  ASSUME CatalogInduction, preview' \in [Locations -> Previews], page' \in {NoPage} \cup Pages, PagesCurrent',
         UNCHANGED <<locations, files, titles, scan, scans, mediaVars, playVars, skipped>>
  PROVE  CatalogInduction'
<1> USE DEF CatalogInduction
<1>1. /\ disk' = disk /\ online' = online /\ writes' = writes /\ proof' = proof /\ admitted' = admitted
      /\ skipped' = skipped /\ scan' = scan /\ scans' = scans /\ locations' = locations /\ files' = files /\ titles' = titles
  BY DEF mediaVars, playVars
<1>2. CatalogTruth'
  BY <1>1 DEF CatalogTruth, DiskTyped, TokensTrue, FilesTrue, ScanTrue, ProofTrue, KeyTrue, PlaybackTyped, Vouched
<1>3. TablesTyped' /\ OwnersTyped' /\ ScanTyped'
  BY <1>1 DEF CatalogTables, TablesTyped, OwnersTyped, ScanTyped
<1>4. UniqueSources(files)' /\ AvailableHasSource'
  BY <1>1 DEF CatalogTables, UniqueSources, AvailableHasSource
<1>5. ReviewsHeld'
  BY <1>1 DEF CatalogTables, ReviewsHeld, IdsHeld, IdsShown, RowIds, PhysicalId, PresentAt, ActiveSources
<1>6. WalkOK' /\ InspectOK'
  BY <1>1 DEF CatalogTables, WalkOK, InspectOK, Walked, Registered, Requested, ActiveSources, FoundAt
<1> QED
  BY <1>2, <1>3, <1>4, <1>5, <1>6 DEF CatalogTables

\* A page shows the pending review of the moment it is loaded.
LEMMA LoadReviewStep ==
  ASSUME CatalogInduction, NEW l \in Locations, LoadReview(l)
  PROVE  CatalogInduction'
<1>1. /\ page' = [location |-> l, id |-> locations[l].pending, review |-> locations[l].review]
      /\ UNCHANGED <<locations, preview, files, titles, scan, scans, mediaVars, playVars, skipped>>
  BY DEF LoadReview
<1>2. locations[l] \in LocationRows /\ preview \in [Locations -> Previews]
  BY DEF CatalogInduction, CatalogTables, OwnersTyped
<1>3. page' \in Pages
  BY <1>1, <1>2 DEF Pages, LocationRows
<1>4. PagesCurrent'
  BY <1>1 DEF CatalogInduction, CatalogTables, PagesCurrent
<1> QED
  BY <1>1, <1>2, <1>3, <1>4, OwnerLooks

\* A preview of a location change promises nothing.
LEMMA PreviewStep ==
  ASSUME CatalogInduction, NEW l \in Locations,
         CancelLocationChange(l) \/ \E r \in Roots \cup {Gone} : PreviewLocationChange(l, r)
  PROVE  CatalogInduction'
<1>0. locations[l] \in LocationRows /\ preview \in [Locations -> Previews]
  BY DEF CatalogInduction, CatalogTables, OwnersTyped
<1>1. /\ preview' \in [Locations -> Previews]
      /\ UNCHANGED <<locations, page, files, titles, scan, scans, mediaVars, playVars, skipped>>
  <2>1. CASE CancelLocationChange(l)
    <3>1. NoPreview \in Previews
      BY DEF NoPreview, Previews
    <3> QED
      BY <1>0, <2>1, <3>1 DEF CancelLocationChange
  <2>2. ASSUME NEW r \in Roots \cup {Gone}, PreviewLocationChange(l, r)
        PROVE  /\ preview' \in [Locations -> Previews]
               /\ UNCHANGED <<locations, page, files, titles, scan, scans, mediaVars, playVars, skipped>>
    <3>1. {PhysicalId(f) : f \in ActiveSources(l)} \in SUBSET Ids
      BY DEF CatalogInduction, CatalogTables, TablesTyped, Rows, ActiveSources, PhysicalId, Ids
    <3>2. [revision |-> locations[l].revision, root |-> r, sources |-> {PhysicalId(f) : f \in ActiveSources(l)}] \in Previews
      BY <1>0, <3>1 DEF LocationRows, Previews
    <3> QED
      BY <1>0, <2>2, <3>2 DEF PreviewLocationChange
  <2> QED
    BY <2>1, <2>2
<1>2. page' \in {NoPage} \cup Pages /\ PagesCurrent'
  BY <1>1 DEF CatalogInduction, CatalogTables, OwnersTyped, PagesCurrent
<1> QED
  BY <1>1, <1>2, OwnerLooks

\* A new location has a new id, which no page names, and neither files nor a review.
LEMMA AddLocationStep ==
  ASSUME CatalogInduction, NEW l \in Locations, NEW library \in Libraries, NEW r \in Roots, AddLibraryLocation(l, library, r)
  PROVE  CatalogInduction'
<1> USE DEF CatalogInduction
<1> DEFINE new == [NoLocation EXCEPT !.library = library, !.root = r, !.state = "unknown", !.revision = 1]
<1>1. /\ disk' = disk /\ online' = online /\ writes' = writes /\ proof' = proof /\ admitted' = admitted
      /\ skipped' = skipped /\ scan' = scan /\ scans' = scans /\ files' = files /\ titles' = titles
      /\ preview' = preview /\ page' = page
      /\ scan.phase = "idle" /\ l # page.location /\ locations' = [locations EXCEPT ![l] = new]
  BY DEF AddLibraryLocation, mediaVars, playVars
<1>2. new \in LocationRows /\ new.state = "unknown" /\ new.review = {} /\ new.pending = 0
  BY DEF LocationRows, LocationStates, NoLocation
<1> HIDE DEF new
<1>3. locations \in [Locations -> LocationRows]
  BY DEF CatalogTables, OwnersTyped
<1>4. locations'[l] = new /\ \A k \in Locations \ {l} : locations'[k] = locations[k]
  BY <1>1, <1>3
<1>5. CatalogTruth'
  BY <1>1 DEF CatalogTruth, DiskTyped, TokensTrue, FilesTrue, ScanTrue, ProofTrue, KeyTrue, PlaybackTyped, Vouched
<1>6. TablesTyped' /\ OwnersTyped' /\ ScanTyped'
  BY <1>1, <1>2, <1>3 DEF CatalogTables, TablesTyped, OwnersTyped, ScanTyped
<1>7. UniqueSources(files)' /\ AvailableHasSource'
  BY <1>1 DEF CatalogTables, UniqueSources, AvailableHasSource
<1>8. ReviewsHeld'
  <2>1. \A k, ids : (IdsHeld(k, ids) => IdsHeld(k, ids)') /\ (IdsShown(k, ids) => IdsShown(k, ids)')
    BY <1>1 DEF IdsHeld, IdsShown, RowIds, PhysicalId, PresentAt, ActiveSources
  <2>2. scan.reviews = {}
    BY <1>1 DEF CatalogTables, ScanTyped, NoScan
  <2>3. \A k : IdsHeld(k, {})
    BY DEF IdsHeld
  <2>4. ASSUME NEW k \in Locations PROVE IdsHeld(k, locations[k].review)'
    BY <1>2, <1>4, <2>1, <2>3 DEF CatalogTables, ReviewsHeld
  <2>5. ASSUME NEW k \in Locations, locations'[k].state = "review_required"
        PROVE  locations'[k].review # {} /\ IdsShown(k, locations[k].review)'
    BY <1>2, <1>4, <2>1, <2>5 DEF CatalogTables, ReviewsHeld
  <2> QED
    BY <1>1, <2>2, <2>4, <2>5 DEF ReviewsHeld
<1>9. PagesCurrent'
  <2>1. scans \in Nat /\ 0 <= scans
    BY DEF CatalogTables, ScanTyped
  <2>2. page = NoPage \/ page.location \in Locations
    BY DEF CatalogTables, OwnersTyped, Pages
  <2> QED
    BY <1>1, <1>2, <1>4, <2>1, <2>2 DEF CatalogTables, PagesCurrent
<1>10. WalkOK' /\ InspectOK'
  BY <1>1 DEF WalkOK, InspectOK
<1> QED
  BY <1>5, <1>6, <1>7, <1>8, <1>9, <1>10 DEF CatalogTables

\* A step of the scan that leaves the tables alone keeps what does not speak of the scan.
LEMMA ScanMoves ==
  ASSUME CatalogInduction, UNCHANGED <<locations, files, titles, mediaVars, ownerVars, playVars>>,
         ScanTyped', ScanTrue', PagesCurrent', WalkOK', InspectOK',
         \A r \in scan'.reviews : IdsHeld(r.location, r.missing) /\ r.missing # {} /\ IdsShown(r.location, r.missing)
  PROVE  CatalogInduction'
<1> USE DEF CatalogInduction
<1>1. /\ disk' = disk /\ online' = online /\ writes' = writes /\ proof' = proof /\ admitted' = admitted
      /\ skipped' = skipped /\ locations' = locations /\ files' = files /\ titles' = titles
      /\ preview' = preview /\ page' = page
  BY DEF mediaVars, playVars, ownerVars
<1>2. CatalogTruth'
  BY <1>1 DEF CatalogTruth, DiskTyped, TokensTrue, FilesTrue, ProofTrue, KeyTrue, PlaybackTyped, Vouched
<1>3. TablesTyped' /\ OwnersTyped'
  BY <1>1 DEF CatalogTables, TablesTyped, OwnersTyped
<1>4. UniqueSources(files)' /\ AvailableHasSource'
  BY <1>1 DEF CatalogTables, UniqueSources, AvailableHasSource
<1>5. ReviewsHeld'
  <2>1. \A k, ids : (IdsHeld(k, ids) => IdsHeld(k, ids)') /\ (IdsShown(k, ids) => IdsShown(k, ids)')
    BY <1>1 DEF IdsHeld, IdsShown, RowIds, PhysicalId, PresentAt, ActiveSources
  <2> QED
    BY <1>1, <2>1 DEF CatalogTables, ReviewsHeld
<1> QED
  BY <1>2, <1>3, <1>4, <1>5 DEF CatalogTables

\* Every scan that ends early leaves no trace of itself.
LEMMA StopScanStep ==
  ASSUME CatalogInduction, StopScan
  PROVE  CatalogInduction'
<1>1. /\ scan' = NoScan /\ scans' = scans /\ UNCHANGED <<locations, files, titles, mediaVars, ownerVars, playVars>>
      /\ page' = page /\ locations' = locations
  BY DEF StopScan, ownerVars
<1>2. ScanTyped'
  BY <1>1 DEF CatalogInduction, CatalogTables, ScanTyped, NoScan, ScanStates, Phases
<1>3. ScanTrue' /\ WalkOK' /\ InspectOK' /\ scan'.reviews = {}
  BY <1>1 DEF ScanTrue, WalkOK, InspectOK, NoScan
<1>4. PagesCurrent'
  BY <1>1 DEF CatalogInduction, CatalogTables, PagesCurrent, NoScan
<1> QED
  BY <1>1, <1>2, <1>3, <1>4, ScanMoves

\* A scan starts with every registered location still to walk, and a new id.
LEMMA StartScanStep ==
  ASSUME CatalogInduction, NEW q \in Requests, StartScan(q.libraries, q.retry)
  PROVE  CatalogInduction'
<1>1. q.libraries \in SUBSET (Libraries \cup {Gone}) /\ q.retry \in SUBSET Places
  <2>1. locations \in [Locations -> LocationRows]
    BY DEF CatalogInduction, CatalogTables, OwnersTyped
  <2>2. \A k \in Places : k[1] \in Locations
    BY DEF Places
  <2>3. \A k \in Places : locations[k[1]].library \in Libraries \cup {Gone}
    BY <2>1, <2>2 DEF LocationRows
  <2> QED
    BY <2>3 DEF Requests
<1> DEFINE new == [NoScan EXCEPT !.phase = "walking", !.id = scans + 1, !.libraries = q.libraries, !.retry = q.retry,
                                 !.todo = Registered]
<1>2. /\ scan' = new /\ scans' = scans + 1 /\ UNCHANGED <<locations, files, titles, mediaVars, ownerVars, playVars>>
      /\ page' = page /\ locations' = locations /\ files' = files
  BY DEF StartScan, ownerVars
<1>3. scans \in Nat /\ scans + 1 \in Nat
  BY DEF CatalogInduction, CatalogTables, ScanTyped
<1>4. new \in ScanStates
  BY <1>1, <1>3 DEF NoScan, ScanStates, Phases, Registered
<1>5. /\ new.phase = "walking" /\ new.id = scans + 1 /\ new.todo = Registered /\ new.found = {} /\ new.protected = {}
      /\ new.completed = {} /\ new.unavailable = {} /\ new.reviews = {} /\ new.results = {}
  BY DEF NoScan
<1> HIDE DEF new
<1>6. ScanTyped' /\ ScanTrue' /\ InspectOK'
  BY <1>2, <1>3, <1>4, <1>5 DEF ScanTyped, ScanTrue, InspectOK
<1>7. Registered' = Registered
  BY <1>2 DEF Registered
<1>8. WalkOK'
  BY <1>2, <1>5, <1>7 DEF WalkOK, Walked
<1>9. PagesCurrent'
  <2>1. page.id \in Nat /\ \A l \in Locations : locations[l].pending \in Nat
    BY DEF CatalogInduction, CatalogTables, OwnersTyped, NoPage, Pages, LocationRows
  <2> QED
    BY <1>2, <1>3, <1>5, <2>1 DEF CatalogInduction, CatalogTables, PagesCurrent
<1> QED
  BY <1>2, <1>5, <1>6, <1>8, <1>9, ScanMoves

\* One row at most is present at a place, and the places of a location are finitely many.
LEMMA ActivesFinite ==
  ASSUME TablesTyped, UniqueSources(files), NEW l
  PROVE  IsFiniteSet(ActiveSources(l))
<1>1. IsFiniteSet(Places)
  BY CatalogAssumption, FS_Product DEF Places
<1> DEFINE at == [f \in ActiveSources(l) |-> f.place]
<1>2. at \in [ActiveSources(l) -> Places]
  BY DEF TablesTyped, Rows, ActiveSources
<1>3. at \in Injection(ActiveSources(l), Places)
  <2>1. \A f, g \in ActiveSources(l) : at[f] = at[g] => f = g
    BY DEF UniqueSources, ActiveSources
  <2> QED
    BY <1>2, <2>1 DEF Injection, IsInjective
<1> QED
  BY <1>1, <1>3, FS_Injection

\* A location whose every file is missing is never taken for complete.
LEMMA NothingListed ==
  ASSUME NEW S, IsFiniteSet(S), S # {}
  PROVE  SuspiciousRemoval(Cardinality(S), Cardinality(S), Cardinality({}))
<1>1. Cardinality(S) \in Nat /\ Cardinality(S) # 0 /\ Cardinality({}) = 0
  BY FS_CardinalityType, FS_EmptySet
<1> QED
  BY <1>1 DEF SuspiciousRemoval

\* What the walk of one location adds to the scan, whichever way it ends.
WalkedTo(l) ==
  LET listed == {<<l, p>> : p \in Listed(l)}
      missing == {f \in ActiveSources(l) : f.place \notin listed}
      new == [location |-> l, missing |-> {PhysicalId(f) : f \in missing}]
      Seen(wanted) == {[place |-> k, token |-> At(k).token] : k \in wanted}
      Same(fields) == \A n \in {"protected", "completed", "unavailable", "reviews", "found"} \ fields : scan'[n] = scan[n]
      Protects == scan'.protected = scan.protected \cup {l}
  IN  \/ ~Requested(l) /\ Protects /\ Same({"protected"})
      \/ Requested(l) /\ Protects /\ scan'.unavailable = scan.unavailable \cup {l} /\ Same({"protected", "unavailable"})
      \/ Requested(l) /\ Protects /\ scan.retry # {} /\ scan'.found = scan.found \cup Seen(listed \cap scan.retry)
           /\ Same({"protected", "found"})
      \/ Requested(l) /\ Protects /\ scan.retry = {} /\ missing # {} /\ scan'.reviews = scan.reviews \cup {new}
           /\ Same({"protected", "reviews"})
      \/ Requested(l) /\ scan.retry = {} /\ (ActiveSources(l) # {} => listed # {})
           /\ scan'.completed = scan.completed \cup {l} /\ scan'.found = scan.found \cup Seen(listed)
           /\ Same({"completed", "found"})

\* The walk of one location does one of these.
LEMMA WalkCases ==
  ASSUME CatalogInduction, NEW l \in Locations, WalkRoot(l)
  PROVE  /\ WalkedTo(l)
         /\ scan'.todo = scan.todo \ {l} /\ scan'.phase = scan.phase /\ scan'.id = scan.id
         /\ scan'.libraries = scan.libraries /\ scan'.retry = scan.retry /\ scan'.results = scan.results
         /\ scan'.failures = scan.failures /\ scan' = [n \in DOMAIN scan |-> scan'[n]]
<1> DEFINE listed == {<<l, p>> : p \in Listed(l)}
           wanted == IF scan.retry = {} THEN listed ELSE listed \cap scan.retry
           missing == {f \in ActiveSources(l) : f.place \notin listed}
           seen == {[place |-> k, token |-> At(k).token] : k \in wanted}
           left == [scan EXCEPT !.todo = @ \ {l}]
           new == [location |-> l, missing |-> {PhysicalId(f) : f \in missing}]
           suspicious == SuspiciousRemoval(Cardinality(ActiveSources(l)), Cardinality(missing), Cardinality(listed))
<1>1. scan \in ScanStates
  BY DEF CatalogInduction, CatalogTables, ScanTyped
<1>2. scan' = IF ~Requested(l) THEN [left EXCEPT !.protected = @ \cup {l}]
              ELSE IF ~Readable(l) THEN [left EXCEPT !.protected = @ \cup {l}, !.unavailable = @ \cup {l}]
              ELSE IF scan.retry # {} THEN [left EXCEPT !.protected = @ \cup {l}, !.found = @ \cup seen]
              ELSE IF suspicious THEN [left EXCEPT !.protected = @ \cup {l}, !.reviews = @ \cup {new}]
              ELSE [left EXCEPT !.completed = @ \cup {l}, !.found = @ \cup seen]
  BY DEF WalkRoot
<1>3. suspicious => missing # {}
  <2>1. Cardinality({}) = 0
    BY FS_EmptySet
  <2> QED
    BY <2>1 DEF SuspiciousRemoval
<1>4. ~suspicious /\ ActiveSources(l) # {} => listed # {}
  <2>1. SUFFICES ASSUME ActiveSources(l) # {}, listed = {} PROVE suspicious
    OBVIOUS
  <2>2. missing = ActiveSources(l)
    BY <2>1
  <2>3. IsFiniteSet(ActiveSources(l))
    BY ActivesFinite DEF CatalogInduction, CatalogTables
  <2> QED
    BY <2>1, <2>2, <2>3, NothingListed
<1> HIDE DEF suspicious, seen, new, missing, listed
<1>5. CASE ~Requested(l)
  BY <1>1, <1>2, <1>5 DEF WalkedTo, ScanStates
<1>6. CASE Requested(l) /\ ~Readable(l)
  BY <1>1, <1>2, <1>6 DEF WalkedTo, ScanStates
<1>7. CASE Requested(l) /\ Readable(l) /\ scan.retry # {}
  BY <1>1, <1>2, <1>7 DEF WalkedTo, ScanStates, seen, listed
<1>8. CASE Requested(l) /\ Readable(l) /\ scan.retry = {} /\ suspicious
  BY <1>1, <1>2, <1>3, <1>8 DEF WalkedTo, ScanStates, new, missing, listed
<1>9. CASE Requested(l) /\ Readable(l) /\ scan.retry = {} /\ ~suspicious
  BY <1>1, <1>2, <1>4, <1>9 DEF WalkedTo, ScanStates, seen, listed
<1> QED
  BY <1>5, <1>6, <1>7, <1>8, <1>9

\* A walked location is protected or completed, and what it lists is what the disk holds.
LEMMA WalkRootStep ==
  ASSUME CatalogInduction, NEW l \in Locations, WalkRoot(l)
  PROVE  CatalogInduction'
<1> DEFINE listed == {<<l, p>> : p \in Listed(l)}
           missing == {f \in ActiveSources(l) : f.place \notin listed}
           new == [location |-> l, missing |-> {PhysicalId(f) : f \in missing}]
           Seen(wanted) == {[place |-> k, token |-> At(k).token] : k \in wanted}
<1>1. /\ scan.phase = "walking" /\ l \in scan.todo /\ scans' = scans
      /\ UNCHANGED <<locations, files, titles, mediaVars, ownerVars, playVars>>
      /\ locations' = locations /\ files' = files /\ page' = page /\ writes' = writes /\ disk' = disk
  BY DEF WalkRoot, mediaVars, ownerVars
<1>2. /\ scan'.todo = scan.todo \ {l} /\ scan'.phase = scan.phase /\ scan'.id = scan.id
      /\ scan'.libraries = scan.libraries /\ scan'.retry = scan.retry /\ scan'.results = scan.results
      /\ scan'.failures = scan.failures /\ scan' = [n \in DOMAIN scan |-> scan'[n]]
  BY WalkCases
<1>3. scan \in ScanStates
  BY DEF CatalogInduction, CatalogTables, ScanTyped
<1>4. \A k \in listed : /\ k \in Places /\ k[1] = l /\ At(k).token \in Nat /\ At(k).token \in 1..writes
  <2> SUFFICES ASSUME NEW p \in Listed(l), NEW k, k = <<l, p>>
               PROVE  k \in Places /\ k[1] = l /\ At(k).token \in Nat /\ At(k).token \in 1..writes
    OBVIOUS
  <2>1. p \in Paths /\ At(k).content # Gone
    BY DEF Listed
  <2>2. k \in Places /\ k[1] = l
    BY <2>1 DEF Places
  <2>3. Vouched(At(k).content, At(k).token) /\ At(k).token \in Nat
    BY <2>1, FileVouched DEF At, CatalogInduction, CatalogTruth
  <2> QED
    BY <2>2, <2>3 DEF Vouched
<1>5. /\ \A wanted : wanted \subseteq listed => Seen(wanted) \in SUBSET Founds
      /\ \A wanted : wanted \subseteq listed => \A f \in Seen(wanted) : f.token \in 1..writes /\ f.place \in wanted /\ f.place[1] = l
      /\ \A wanted : \A f, g \in Seen(wanted) : f.place = g.place => f = g
  BY <1>4 DEF Founds
<1>6. Seen(listed) = {} => listed = {}
  OBVIOUS
<1>7. new \in RemovalReviews /\ IdsHeld(l, new.missing) /\ IdsShown(l, new.missing) /\ new.location = l
      /\ (missing # {} => new.missing # {})
  <2>1. {PhysicalId(f) : f \in missing} \in SUBSET Ids
    BY DEF CatalogInduction, CatalogTables, TablesTyped, Rows, ActiveSources, PhysicalId, Ids
  <2>2. new \in RemovalReviews
    BY <2>1 DEF RemovalReviews
  <2>3. IdsHeld(l, new.missing) /\ IdsShown(l, new.missing)
    BY DEF IdsHeld, IdsShown, RowIds, PhysicalId, ActiveSources, PresentAt
  <2> QED
    BY <2>2, <2>3
<1>8. WalkedTo(l)
  BY WalkCases
<1>9. /\ scan'.found \in SUBSET Founds /\ scan'.protected \in SUBSET Locations /\ scan'.completed \in SUBSET Locations
      /\ scan'.unavailable \in SUBSET Locations /\ scan'.reviews \in SUBSET RemovalReviews
      /\ \A f \in scan'.found \ scan.found : f.token \in 1..writes /\ f.place[1] = l
      /\ \A r \in scan'.reviews \ scan.reviews : r = new /\ missing # {}
  <2>1. /\ Seen(listed) \in SUBSET Founds /\ Seen(listed \cap scan.retry) \in SUBSET Founds
        /\ \A f \in Seen(listed) \cup Seen(listed \cap scan.retry) : f.token \in 1..writes /\ f.place[1] = l
    BY <1>5
  <2>2. /\ scan.found \in SUBSET Founds /\ scan.protected \in SUBSET Locations /\ scan.completed \in SUBSET Locations
        /\ scan.unavailable \in SUBSET Locations /\ scan.reviews \in SUBSET RemovalReviews
    BY <1>3 DEF ScanStates
  <2> HIDE DEF Seen, listed, new, missing
  <2> QED
    BY <1>7, <1>8, <2>1, <2>2 DEF WalkedTo, Seen, listed, new, missing
<1>10. ScanTyped'
  <2>1. DOMAIN scan = {"phase", "id", "libraries", "retry", "todo", "found", "protected", "completed", "unavailable",
                       "reviews", "results", "failures"}
    BY <1>3 DEF ScanStates
  <2>2. scan' = [phase |-> scan'.phase, id |-> scan'.id, libraries |-> scan'.libraries, retry |-> scan'.retry,
                 todo |-> scan'.todo, found |-> scan'.found, protected |-> scan'.protected,
                 completed |-> scan'.completed, unavailable |-> scan'.unavailable, reviews |-> scan'.reviews,
                 results |-> scan'.results, failures |-> scan'.failures]
    BY <1>2, <2>1
  <2>3. scan' \in ScanStates
    BY <1>2, <1>3, <1>9, <2>2 DEF ScanStates
  <2> QED
    BY <1>1, <1>2, <2>3 DEF ScanTyped, CatalogInduction, CatalogTables
<1>11. ScanTrue'
  BY <1>1, <1>2, <1>9 DEF ScanTrue, Vouched, CatalogInduction, CatalogTruth
<1>12. PagesCurrent'
  BY <1>1, <1>2 DEF PagesCurrent, CatalogInduction, CatalogTables
<1>13. InspectOK'
  BY <1>1, <1>2 DEF InspectOK
<1>14. \A r \in scan'.reviews : IdsHeld(r.location, r.missing) /\ r.missing # {} /\ IdsShown(r.location, r.missing)
  <2> SUFFICES ASSUME NEW r \in scan'.reviews
               PROVE  IdsHeld(r.location, r.missing) /\ r.missing # {} /\ IdsShown(r.location, r.missing)
    OBVIOUS
  <2>1. CASE r \in scan.reviews
    BY <2>1 DEF CatalogInduction, CatalogTables, ReviewsHeld
  <2>2. CASE r \notin scan.reviews
    <3>1. r = new /\ missing # {}
      BY <2>2, <1>9
    <3> HIDE DEF new, missing
    <3> QED
      BY <3>1, <1>7
  <2> QED
    BY <2>1, <2>2
<1>15. WalkOK'
  <2>1. Walked
    BY <1>1 DEF WalkOK, CatalogInduction, CatalogTables
  <2>2. l \notin scan.protected /\ l \notin scan.completed
    BY <1>1, <2>1 DEF Walked
  <2>3. ~FoundAt(l)
    BY <2>1, <2>2 DEF Walked, FoundAt
  <2>4. /\ Registered' = Registered /\ (\A k : Requested(k)' = Requested(k))
        /\ (\A k : ActiveSources(k)' = ActiveSources(k))
    BY <1>1, <1>2 DEF Registered, Requested, ActiveSources
  <2>5. /\ \/ scan'.protected = scan.protected \cup {l} /\ scan'.completed = scan.completed
           \/ scan'.protected = scan.protected /\ scan'.completed = scan.completed \cup {l}
        /\ scan.found \subseteq scan'.found
        /\ scan.unavailable \subseteq scan'.unavailable
    BY <1>8 DEF WalkedTo
  <2>6. \A k \in scan'.completed : k \in scan.completed \/ (k = l /\ Requested(l) /\ scan.retry = {} /\ (ActiveSources(l) = {} \/ FoundAt(l)'))
    <3> SUFFICES ASSUME l \in scan'.completed
                 PROVE  Requested(l) /\ scan.retry = {} /\ (ActiveSources(l) = {} \/ FoundAt(l)')
      BY <2>5
    <3>1. /\ Requested(l) /\ scan.retry = {} /\ (ActiveSources(l) # {} => listed # {})
          /\ scan'.found = scan.found \cup Seen(listed)
      BY <2>2, <1>8 DEF WalkedTo
    <3>2. listed # {} => \E f \in Seen(listed) : f.place[1] = l
      BY <1>5, <1>6
    <3> QED
      BY <3>1, <3>2 DEF FoundAt
  <2>7. \A k \in scan'.unavailable : k \in scan.unavailable \/ (k = l /\ l \in scan'.protected /\ scan'.found = scan.found)
    BY <1>8 DEF WalkedTo
  <2>8. \A r \in scan'.reviews : r \in scan.reviews \/ (r.location = l /\ l \in scan'.protected /\ scan.retry = {})
    BY <1>8 DEF WalkedTo
  <2>9. \A f \in scan'.found : \/ f \in scan.found
                               \/ /\ f.place[1] = l /\ Requested(l)
                                  /\ l \in scan'.completed \/ (l \in scan'.protected /\ f.place \in scan.retry)
    <3>1. listed \cap scan.retry \subseteq listed
      OBVIOUS
    <3>2. \A f \in Seen(listed) : f.place[1] = l
      BY <1>5
    <3>3. \A f \in Seen(listed \cap scan.retry) : f.place[1] = l /\ f.place \in scan.retry
      BY <1>5, <3>1
    <3> HIDE DEF Seen
    <3> QED
      BY <1>8, <3>2, <3>3 DEF WalkedTo, Seen
  <2>10. \A f, g \in scan'.found : f.place = g.place => f = g
    <3>1. \E wanted : scan'.found \subseteq scan.found \cup Seen(wanted) /\ wanted \subseteq listed
      BY <1>8 DEF WalkedTo
    <3>2. PICK wanted : scan'.found \subseteq scan.found \cup Seen(wanted) /\ wanted \subseteq listed
      BY <3>1
    <3>3. \A f \in Seen(wanted) : f.place[1] = l
      BY <1>5, <3>2
    <3>4. \A f, g \in Seen(wanted) : f.place = g.place => f = g
      BY <1>5
    <3>5. \A f \in scan.found : f.place[1] # l
      BY <2>3 DEF FoundAt
    <3>6. \A f, g \in scan.found : f.place = g.place => f = g
      BY <2>1 DEF Walked
    <3> HIDE DEF Seen
    <3> QED
      BY <3>2, <3>3, <3>4, <3>5, <3>6
  <2>11. \A k : FoundAt(k)' => FoundAt(k) \/ k = l
    BY <2>9 DEF FoundAt
  <2>12. \A k : FoundAt(k) => FoundAt(k)'
    BY <2>5 DEF FoundAt
  <2> HIDE DEF listed, missing, new, Seen
  <2>13. /\ scan'.todo \subseteq Registered
         /\ \A k \in Registered : k \in scan'.todo \/ k \in scan'.protected \/ k \in scan'.completed
         /\ \A k \in Locations : k \in scan'.protected => k \notin scan'.todo /\ k \notin scan'.completed
    BY <1>2, <2>1, <2>2, <2>5 DEF Walked
  <2>14. \A k \in scan'.completed : k \notin scan'.todo /\ Requested(k)' /\ scan'.retry = {} /\ (ActiveSources(k)' = {} \/ FoundAt(k)')
    BY <1>2, <2>1, <2>4, <2>6, <2>12 DEF Walked
  <2>15. \A k \in scan'.unavailable : k \in scan'.protected /\ ~FoundAt(k)'
    <3> SUFFICES ASSUME NEW k \in scan'.unavailable PROVE k \in scan'.protected /\ ~FoundAt(k)'
      OBVIOUS
    <3>1. CASE k \in scan.unavailable
      <4>1. k \in scan.protected /\ ~FoundAt(k)
        BY <3>1, <2>1 DEF Walked
      <4> QED
        BY <4>1, <2>2, <2>5, <2>11
    <3>2. CASE k = l /\ l \in scan'.protected /\ scan'.found = scan.found
      BY <3>2, <2>3 DEF FoundAt
    <3> QED
      BY <3>1, <3>2, <2>7
  <2>16. \A r \in scan'.reviews : r.location \in scan'.protected /\ scan'.retry = {}
    BY <1>2, <2>1, <2>5, <2>8 DEF Walked
  <2>17. \A f \in scan'.found : /\ Requested(f.place[1])'
                                /\ f.place[1] \in scan'.completed \/ (f.place[1] \in scan'.protected /\ f.place \in scan'.retry)
    BY <1>2, <2>1, <2>4, <2>5, <2>9 DEF Walked
  <2>18. Walked'
    BY <2>4, <2>10, <2>13, <2>14, <2>15, <2>16, <2>17 DEF Walked
  <2> QED
    BY <2>18 DEF WalkOK
<1> QED
  BY <1>1, <1>10, <1>11, <1>12, <1>13, <1>14, <1>15, ScanMoves

\* The row a file is compared with is one row.
LEMMA KnownOne ==
  ASSUME CatalogInduction, NEW k, NEW old \in Known(k)
  PROVE  old \in files /\ old.place = k /\ (CHOOSE o \in Known(k) : TRUE) = old
<1>1. old \in files /\ old.place = k /\ Known(k) = {old}
  BY KnownIs DEF CatalogInduction, CatalogTruth, CatalogTables
<1> QED
  BY <1>1

\* Every file found becomes a result that the disk or a row vouches for, or a failure.
LEMMA InspectStep ==
  ASSUME CatalogInduction, NEW broken, Inspect(broken)
  PROVE  CatalogInduction'
<1> DEFINE unchanged == {f \in scan.found : \E old \in Known(f.place) : old.token = f.token}
           good == {f \in scan.found : f.place \notin broken /\ (f \in unchanged \/ Inspected(f))}
           unseen == {k \in scan.retry : \A f \in scan.found : f.place # k}
           R(f) == [place |-> f.place, token |-> f.token,
                    content |-> IF f \in unchanged THEN (CHOOSE old \in Known(f.place) : TRUE).content
                                ELSE At(f.place).content]
           results == {R(f) : f \in good}
           failures == {f.place : f \in scan.found \ good} \cup unseen
<1>1. /\ scan.phase = "walking" /\ scan.todo = {} /\ scans' = scans
      /\ scan' = [scan EXCEPT !.phase = "inspected", !.results = results, !.failures = failures]
      /\ UNCHANGED <<locations, files, titles, mediaVars, ownerVars, playVars>>
      /\ locations' = locations /\ files' = files /\ page' = page /\ writes' = writes /\ disk' = disk
  BY DEF Inspect, mediaVars, ownerVars
<1>2. scan \in ScanStates
  BY DEF CatalogInduction, CatalogTables, ScanTyped
<1>3. \A f \in scan.found : f.place \in Places /\ f.token \in Nat /\ f.token \in 1..writes
  BY <1>2 DEF ScanStates, Founds, CatalogInduction, CatalogTruth, ScanTrue
<1>4. \A f \in good : R(f) \in Results /\ Vouched(R(f).content, R(f).token)
  <2>1. ASSUME NEW f \in unchanged PROVE R(f) \in Results /\ Vouched(R(f).content, R(f).token)
    <3>1. PICK old \in Known(f.place) : old.token = f.token
      BY <2>1
    <3>2. old \in files /\ (CHOOSE o \in Known(f.place) : TRUE) = old
      BY <3>1, KnownOne
    <3>3. R(f) = [place |-> f.place, token |-> f.token, content |-> old.content]
      BY <2>1, <3>2
    <3>4. old.content \in Contents /\ Vouched(old.content, f.token)
      BY <3>1, <3>2 DEF CatalogInduction, CatalogTruth, CatalogTables, FilesTrue, TablesTyped, Rows
    <3> QED
      BY <3>3, <3>4, <1>3 DEF Results
  <2>2. ASSUME NEW f \in good, f \notin unchanged PROVE R(f) \in Results /\ Vouched(R(f).content, R(f).token)
    <3>1. f \notin unchanged /\ f \in scan.found /\ At(f.place).token = f.token
      BY <2>2 DEF Inspected
    <3>2. R(f) = [place |-> f.place, token |-> f.token, content |-> At(f.place).content]
      BY <3>1
    <3>3. f.token # 0
      BY <1>3, <3>1
    <3>4. At(f.place).content \in Contents /\ Vouched(At(f.place).content, f.token)
      BY <3>1, <3>3, FileVouched DEF At, CatalogInduction, CatalogTruth
    <3> QED
      BY <3>1, <3>2, <3>4, <1>3 DEF Results
  <2> QED
    BY <2>1, <2>2
<1>5. \A f : R(f).place = f.place
  OBVIOUS
<1>6. results \in SUBSET Results /\ failures \in SUBSET Places
  <2>1. failures \in SUBSET Places
    BY <1>2, <1>3 DEF ScanStates
  <2> HIDE DEF R
  <2> QED
    BY <1>4, <2>1
<1> HIDE DEF R
<1>7. Walked
  BY <1>1 DEF CatalogInduction, CatalogTables, WalkOK
<1>8. \A f, g \in scan.found : f.place = g.place => f = g
  BY <1>7 DEF Walked
<1>9. /\ \A r \in results : \E f \in scan.found : f.place = r.place
      /\ \A r, s \in results : r.place = s.place => r = s
      /\ \A r \in results : r.place \notin failures
      /\ \A k \in scan.retry : k \in failures \/ \E r \in results : r.place = k
  <2>1. \A r \in results : \E f \in scan.found : f.place = r.place
    BY <1>5
  <2>2. \A r, s \in results : r.place = s.place => r = s
    BY <1>5, <1>8
  <2>3. ASSUME NEW f \in good, f.place \in failures PROVE FALSE
    <3>1. f \in scan.found
      OBVIOUS
    <3>2. f.place \notin unseen
      BY <3>1
    <3>3. PICK g \in scan.found \ good : g.place = f.place
      BY <2>3, <3>2
    <3> QED
      BY <3>1, <3>3, <1>8
  <2>4. \A r \in results : r.place \notin failures
    BY <2>3, <1>5
  <2>5. ASSUME NEW k \in scan.retry, k \notin failures PROVE \E r \in results : r.place = k
    <3>1. PICK f \in scan.found : f.place = k
      BY <2>5
    <3>2. f \in good
      BY <2>5, <3>1
    <3> QED
      BY <3>1, <3>2, <1>5
  <2> QED
    BY <2>1, <2>2, <2>4, <2>5
<1> HIDE DEF results, failures, unchanged, good, unseen
<1>10. /\ scan' \in ScanStates /\ scan'.phase = "inspected" /\ scan'.results = results /\ scan'.failures = failures
       /\ scan'.id = scan.id /\ scan'.libraries = scan.libraries /\ scan'.retry = scan.retry /\ scan'.todo = scan.todo
       /\ scan'.found = scan.found /\ scan'.protected = scan.protected /\ scan'.completed = scan.completed
       /\ scan'.unavailable = scan.unavailable /\ scan'.reviews = scan.reviews
  BY <1>1, <1>2, <1>6 DEF ScanStates, Phases
<1>11. ScanTyped' /\ PagesCurrent'
  BY <1>1, <1>10 DEF CatalogInduction, CatalogTables, ScanTyped, PagesCurrent
<1>12. ScanTrue'
  <2>1. \A r \in results : Vouched(r.content, r.token)
    BY <1>4 DEF results
  <2> QED
    BY <1>1, <1>10, <2>1 DEF ScanTrue, Vouched, CatalogInduction, CatalogTruth
<1>13. Walked'
  BY <1>1, <1>7, <1>10 DEF Walked, Registered, Requested, ActiveSources, FoundAt
<1>14. WalkOK' /\ InspectOK'
  BY <1>1, <1>9, <1>10, <1>13 DEF WalkOK, InspectOK
<1>15. \A r \in scan'.reviews : IdsHeld(r.location, r.missing) /\ r.missing # {} /\ IdsShown(r.location, r.missing)
  BY <1>10 DEF CatalogInduction, CatalogTables, ReviewsHeld
<1> QED
  BY <1>1, <1>11, <1>12, <1>14, <1>15, ScanMoves

\* The end of a scan records what it could not read and what the owner must review.
LEMMA RecordStep ==
  ASSUME CatalogInduction, scan.phase # "idle", NEW unavailable, NEW reviews \in SUBSET scan.reviews,
         locations' = Recorded(unavailable, reviews), scan' = NoScan,
         UNCHANGED <<files, titles, scans, mediaVars, ownerVars, playVars>>
  PROVE  CatalogInduction'
<1> USE DEF CatalogInduction
<1>1. /\ disk' = disk /\ online' = online /\ writes' = writes /\ proof' = proof /\ admitted' = admitted
      /\ skipped' = skipped /\ scans' = scans /\ files' = files /\ titles' = titles
      /\ preview' = preview /\ page' = page
  BY DEF mediaVars, playVars, ownerVars
<1>2. scan \in ScanStates /\ locations \in [Locations -> LocationRows] /\ scan.id = scans /\ scans \in Nat
  BY DEF CatalogTables, ScanTyped, OwnersTyped, PagesCurrent
<1> DEFINE new(l) == locations'[l]
           lost(l) == [locations[l] EXCEPT !.state = "unavailable", !.review = {}, !.pending = 0]
<1>3. ASSUME NEW l \in Locations
      PROVE  \/ new(l) = lost(l)
             \/ new(l) = locations[l]
             \/ \E r \in scan.reviews : /\ r.location = l
                                        /\ new(l) = [locations[l] EXCEPT !.state = "review_required", !.pending = scans,
                                                                         !.review = r.missing]
  <2>1. new(l) = IF l \in unavailable THEN lost(l)
                 ELSE IF \E r \in reviews : r.location = l
                      THEN [locations[l] EXCEPT !.state = "review_required", !.pending = scan.id,
                                                !.review = (CHOOSE r \in reviews : r.location = l).missing]
                 ELSE locations[l]
    BY DEF Recorded
  <2> DEFINE r == CHOOSE q \in reviews : q.location = l
  <2>2. CASE l \in unavailable
    BY <2>1, <2>2
  <2>3. CASE l \notin unavailable /\ \E q \in reviews : q.location = l
    <3>1. r \in scan.reviews /\ r.location = l
      BY <2>3
    <3> QED
      BY <2>1, <2>3, <3>1, <1>2
  <2>4. CASE l \notin unavailable /\ ~\E q \in reviews : q.location = l
    BY <2>1, <2>4
  <2> QED
    BY <2>2, <2>3, <2>4
<1>4. ASSUME NEW l \in Locations
      PROVE  /\ new(l) \in LocationRows
             /\ \/ new(l).state = "unavailable" /\ new(l).review = {} /\ new(l).pending = 0
                \/ new(l) = locations[l]
                \/ \E r \in scan.reviews : r.location = l /\ new(l).review = r.missing /\ new(l).pending = scans
  <2>1. locations[l] \in LocationRows
    BY <1>2
  <2>2. lost(l) \in LocationRows /\ lost(l).state = "unavailable" /\ lost(l).review = {} /\ lost(l).pending = 0
    BY <2>1 DEF LocationRows, LocationStates
  <2>3. ASSUME NEW r \in scan.reviews
        PROVE  LET x == [locations[l] EXCEPT !.state = "review_required", !.pending = scans, !.review = r.missing]
               IN  x \in LocationRows /\ x.review = r.missing /\ x.pending = scans
    <3>1. r.missing \in SUBSET Ids
      BY <1>2 DEF ScanStates, RemovalReviews
    <3> QED
      BY <3>1, <2>1, <1>2 DEF LocationRows, LocationStates
  <2>4. CASE new(l) = lost(l)
    BY <2>2, <2>4
  <2>5. CASE new(l) = locations[l]
    BY <2>1, <2>5
  <2>6. CASE \E r \in scan.reviews : /\ r.location = l
                                    /\ new(l) = [locations[l] EXCEPT !.state = "review_required", !.pending = scans,
                                                                     !.review = r.missing]
    <3>1. PICK r \in scan.reviews : /\ r.location = l
                                    /\ new(l) = [locations[l] EXCEPT !.state = "review_required", !.pending = scans,
                                                                     !.review = r.missing]
      BY <2>6
    <3>2. new(l) \in LocationRows /\ new(l).review = r.missing /\ new(l).pending = scans
      BY <3>1, <2>3
    <3> QED
      BY <3>1, <3>2
  <2> QED
    BY <1>3, <2>4, <2>5, <2>6
<1>5. CatalogTruth'
  <2>1. ScanTrue'
    BY <1>1 DEF ScanTrue, NoScan
  <2> QED
    BY <1>1, <2>1 DEF CatalogTruth, DiskTyped, TokensTrue, FilesTrue, ProofTrue, KeyTrue, PlaybackTyped, Vouched
<1>6. TablesTyped' /\ OwnersTyped' /\ ScanTyped'
  <2>1. locations' \in [Locations -> LocationRows]
    BY <1>4 DEF Recorded
  <2>2. ScanTyped'
    BY <1>1 DEF CatalogTables, ScanTyped, NoScan, ScanStates, Phases
  <2> QED
    BY <1>1, <2>1, <2>2 DEF CatalogTables, TablesTyped, OwnersTyped
<1>7. UniqueSources(files)' /\ AvailableHasSource'
  BY <1>1 DEF CatalogTables, UniqueSources, AvailableHasSource
<1>8. ReviewsHeld'
  <2>1. \A k, ids : (IdsHeld(k, ids) => IdsHeld(k, ids)') /\ (IdsShown(k, ids) => IdsShown(k, ids)')
    BY <1>1 DEF IdsHeld, IdsShown, RowIds, PhysicalId, PresentAt, ActiveSources
  <2>2. ASSUME NEW l \in Locations
        PROVE  /\ IdsHeld(l, new(l).review)
               /\ new(l).state = "review_required" => new(l).review # {} /\ IdsShown(l, new(l).review)
    <3>1. CASE new(l).state = "unavailable" /\ new(l).review = {}
      BY <3>1 DEF IdsHeld
    <3>2. CASE new(l) = locations[l]
      BY <3>2 DEF CatalogTables, ReviewsHeld
    <3>3. CASE \E r \in scan.reviews : r.location = l /\ new(l).review = r.missing
      BY <3>3 DEF CatalogTables, ReviewsHeld
    <3> QED
      BY <3>1, <3>2, <3>3, <1>4
  <2>3. ASSUME NEW l \in Locations
        PROVE  /\ IdsHeld(l, locations[l].review)'
               /\ locations'[l].state = "review_required" => locations'[l].review # {} /\ IdsShown(l, locations[l].review)'
    <3>1. PICK ids : ids = locations'[l].review
      OBVIOUS
    <3> QED
      BY <3>1, <2>1, <2>2
  <2>4. scan'.reviews = {}
    BY DEF NoScan
  <2> QED
    BY <2>3, <2>4 DEF ReviewsHeld
<1>9. PagesCurrent'
  <2>1. scan'.phase = "idle"
    BY DEF NoScan
  <2>2. \A l \in Locations : locations[l].pending < scans /\ page.id < scans
    BY DEF CatalogTables, PagesCurrent
  <2>3. \A l \in Locations : locations'[l].pending <= scans
    <3> SUFFICES ASSUME NEW l \in Locations PROVE locations'[l].pending <= scans
      OBVIOUS
    <3>1. locations[l].pending \in Nat
      BY <1>2 DEF LocationRows
    <3> QED
      BY <1>2, <1>4, <2>2, <3>1
  <2>4. ASSUME page # NoPage, locations'[page.location].state = "review_required", locations'[page.location].pending = page.id
        PROVE  page.review = locations'[page.location].review
    <3>1. page.location \in Locations
      BY <2>4 DEF CatalogTables, OwnersTyped, Pages
    <3>2. new(page.location) = locations[page.location]
      <4>1. page.id \in Nat
        BY <2>4 DEF CatalogTables, OwnersTyped, Pages
      <4>2. new(page.location).pending # scans
        BY <1>2, <2>2, <2>4, <3>1, <4>1
      <4> QED
        BY <1>4, <2>4, <3>1, <4>2
    <3> QED
      BY <2>4, <3>1, <3>2 DEF CatalogTables, PagesCurrent
  <2>5. page.id <= scans
    BY DEF CatalogTables, PagesCurrent
  <2> QED
    BY <1>1, <2>1, <2>3, <2>4, <2>5 DEF PagesCurrent
<1>10. WalkOK' /\ InspectOK'
  BY DEF WalkOK, InspectOK, NoScan
<1> QED
  BY <1>5, <1>6, <1>7, <1>8, <1>9, <1>10 DEF CatalogTables

\* The two ends of a scan that reached the catalog, and one that could read nothing.
LEMMA EndScanStep ==
  ASSUME CatalogInduction, FinishScan \/ FailScan
  PROVE  CatalogInduction'
<1>1. CASE FinishScan
  BY <1>1, RecordStep DEF FinishScan
<1>2. CASE FailScan
  <2> DEFINE l == CHOOSE l \in scan.unavailable : \A k \in scan.unavailable : l <= k
  <2>1. locations' = Recorded({l}, {}) /\ scan.phase # "idle" /\ scan' = NoScan
        /\ UNCHANGED <<files, titles, scans, mediaVars, ownerVars, playVars>>
    BY <1>2 DEF FailScan
  <2> HIDE DEF l
  <2> QED
    BY <2>1, RecordStep
<1> QED
  BY <1>1, <1>2

\* The places are finitely many, and a result is told by its place.
LEMMA ResultsFinite ==
  ASSUME CatalogInduction, scan.phase = "inspected"
  PROVE  IsFiniteSet(scan.results)
<1>1. IsFiniteSet(Places)
  BY CatalogAssumption, FS_Product DEF Places
<1> DEFINE at == [r \in scan.results |-> r.place]
<1>2. at \in [scan.results -> Places]
  BY DEF CatalogInduction, CatalogTables, ScanTyped, ScanStates, Results
<1>3. at \in Injection(scan.results, Places)
  <2>1. \A r, s \in scan.results : at[r] = at[s] => r = s
    BY DEF CatalogInduction, CatalogTables, InspectOK
  <2> QED
    BY <1>2, <2>1 DEF Injection, IsInjective
<1> QED
  BY <1>1, <1>3, FS_Injection

\* No result comes before itself, so each has a rank below their number.
LEMMA RankBelow ==
  ASSUME NEW R \in SUBSET Results, IsFiniteSet(R), NEW r \in R
  PROVE  Rank(r, R) \in Nat /\ Rank(r, R) < Cardinality(R) /\ Cardinality(R) \in Nat
<1> DEFINE T == {q \in R : Before(q.place, r.place)}
<1>1. T \in SUBSET R /\ r \notin T
  <2>1. r.place[1] \in Nat /\ r.place[2] \in Nat
    BY PlaceIs DEF Results
  <2> QED
    BY <2>1 DEF Before
<1>2. IsFiniteSet(T) /\ Cardinality(T) <= Cardinality(R) /\ Cardinality(T) # Cardinality(R)
  <2>1. IsFiniteSet(T) /\ Cardinality(T) <= Cardinality(R) /\ (Cardinality(R) = Cardinality(T) => R = T)
    BY <1>1, FS_Subset
  <2> QED
    BY <1>1, <2>1
<1>3. Cardinality(T) \in Nat /\ Cardinality(R) \in Nat
  BY <1>2, FS_CardinalityType
<1> QED
  BY <1>2, <1>3 DEF Rank

\* What one step of reconcileIdentity adds, and g is what is placed after each of the first n steps.
PlacedNext(R, c, i, placed) == placed \cup {Placed(r, placed, c) : r \in {q \in R : Rank(q, R) = i}}
PlacedRun(R, c, n, g) ==
  /\ g = [i \in 0..n |-> g[i]] /\ g[0] = {}
  /\ \A i \in 1..n : g[i] = PlacedNext(R, c, i - 1, g[i - 1])

\* reconcileIdentity runs over any number of files.
LEMMA PlacedRuns ==
  ASSUME NEW R, NEW c
  PROVE  \A n \in Nat : \E g : PlacedRun(R, c, n, g)
<1> DEFINE T == {n \in Nat : ~\E g : PlacedRun(R, c, n, g)}
<1>1. SUFFICES ASSUME T # {} PROVE FALSE
  OBVIOUS
<1>2. PICK n \in T : \A m \in T : n <= m
  BY <1>1, LeastExists
<1>3. n \in Nat /\ ~\E g : PlacedRun(R, c, n, g)
  BY <1>2
<1>4. n # 0
  <2> DEFINE e == [i \in 0..0 |-> {}]
  <2>1. PlacedRun(R, c, 0, e)
    BY DEF PlacedRun
  <2> QED
    BY <2>1, <1>3
<1>5. n - 1 \in Nat /\ n - 1 \notin T
  BY <1>2, <1>3, <1>4
<1>6. PICK h : PlacedRun(R, c, n - 1, h)
  BY <1>5
<1> DEFINE g == [i \in 0..n |-> IF i = n THEN PlacedNext(R, c, n - 1, h[n - 1]) ELSE h[i]]
<1>7. g = [i \in 0..n |-> g[i]] /\ g[0] = {}
  BY <1>6, <1>3, <1>4 DEF PlacedRun
<1>8. \A i \in 1..n : g[i] = PlacedNext(R, c, i - 1, g[i - 1])
  <2> SUFFICES ASSUME NEW i \in 1..n PROVE g[i] = PlacedNext(R, c, i - 1, g[i - 1])
    OBVIOUS
  <2>1. g[i - 1] = h[i - 1]
    BY <1>3
  <2>2. CASE i = n
    BY <2>1, <2>2, <1>3
  <2>3. CASE i # n
    <3>1. i \in 1..(n - 1) /\ g[i] = h[i]
      BY <2>3, <1>3
    <3> QED
      BY <3>1, <2>1, <1>6 DEF PlacedRun
  <2> QED
    BY <2>2, <2>3
<1> HIDE DEF g
<1>9. PlacedRun(R, c, n, g)
  BY <1>7, <1>8 DEF PlacedRun
<1> QED
  BY <1>9, <1>3

\* reconcileIdentity is what some run has placed after the last file.
LEMMA ReconcileRuns ==
  ASSUME NEW R, NEW c, Cardinality(R) \in Nat
  PROVE  \E g : PlacedRun(R, c, Cardinality(R), g) /\ ReconcileIdentity(R, c) = g[Cardinality(R)]
<1> DEFINE k == Cardinality(R)
           Step(f, n) == IF n = 0 THEN {} ELSE PlacedNext(R, c, n - 1, f[n - 1])
           run == CHOOSE f : f = [n \in 0..k |-> Step(f, n)]
<1>1. PICK h : PlacedRun(R, c, k, h)
  BY PlacedRuns
<1>2. h = [n \in 0..k |-> Step(h, n)]
  <2>1. h = [n \in 0..k |-> h[n]]
    BY <1>1 DEF PlacedRun
  <2>2. ASSUME NEW n \in 0..k PROVE h[n] = Step(h, n)
    <3>1. CASE n = 0
      BY <1>1, <3>1 DEF PlacedRun
    <3>2. CASE n # 0
      <4>1. n \in 1..k
        BY <3>2
      <4> QED
        BY <1>1, <3>2, <4>1 DEF PlacedRun
    <3> QED
      BY <3>1, <3>2
  <2> QED
    BY <2>1, <2>2
<1>3. run = [n \in 0..k |-> Step(run, n)]
  BY <1>2
<1>4. ReconcileIdentity(R, c) = run[k]
  BY DEF ReconcileIdentity, PlacedNext
<1> HIDE DEF run
<1>5. PlacedRun(R, c, k, run)
  <2>1. run = [i \in 0..k |-> run[i]]
    BY <1>3
  <2>2. run[0] = {}
    BY <1>3
  <2>3. ASSUME NEW i \in 1..k PROVE run[i] = PlacedNext(R, c, i - 1, run[i - 1])
    <3>1. i \in 0..k /\ i # 0
      OBVIOUS
    <3> QED
      BY <1>3, <3>1
  <2> QED
    BY <2>1, <2>2, <2>3 DEF PlacedRun
<1> QED
  BY <1>4, <1>5

\* A file as it is placed: where it was found, with a title that the catalog or the file itself names.
Sources == [place : Places, content : Contents, token : Nat, title : TitleIds]
PlacedAs(r, s, contradicted) ==
  /\ s \in Sources /\ s.place = r.place /\ s.content = r.content /\ s.token = r.token
  /\ Known(r.place) # {} /\ r.place \notin contradicted => s.title = (CHOOSE old \in Known(r.place) : TRUE).title

\* The title of a placed file is a title: of a known source, of a proven one, or of the file's own.
LEMMA PlacedTyped ==
  ASSUME CatalogInduction, NEW r \in scan.results, NEW placed \in SUBSET Sources, NEW contradicted
  PROVE  PlacedAs(r, Placed(r, placed, contradicted), contradicted)
<1> DEFINE own == <<r.place[2], r.content>>
           proven == Proven(r.content, placed)
           known == CHOOSE old \in Known(r.place) : TRUE
           title == TitleFor(r, placed, contradicted)
<1>1. r \in Results
  BY DEF CatalogInduction, CatalogTables, ScanTyped, ScanStates
<1>2. own \in TitleIds
  BY <1>1, PlaceIs DEF Results, TitleIds
<1>3. proven \subseteq TitleIds
  <2>1. /\ {f.title : f \in {g \in files : g.content = r.content}} \subseteq TitleIds
        /\ {t \in DOMAIN titles : titles[t].content = r.content} \subseteq TitleIds
    BY DEF CatalogInduction, CatalogTables, TablesTyped, Rows
  <2>2. {t \in {s.title : s \in placed} : PrimaryOf(t, placed).content = r.content} \subseteq TitleIds
    BY DEF Sources
  <2> QED
    BY <2>1, <2>2 DEF Proven
<1>4. Known(r.place) # {} => known.title \in TitleIds
  <2>1. Known(r.place) # {} => known \in files
    BY KnownOne
  <2> QED
    BY <2>1 DEF CatalogInduction, CatalogTables, TablesTyped, Rows
<1>5. Cardinality(proven) = 1 => (CHOOSE t \in proven : TRUE) \in TitleIds
  <2>1. proven = {} => Cardinality(proven) = 0
    BY FS_EmptySet
  <2> QED
    BY <1>3, <2>1
<1>6. title = IF Known(r.place) # {} /\ r.place \notin contradicted THEN known.title
              ELSE IF Known(r.place) = {} /\ Cardinality(proven) = 1 THEN CHOOSE t \in proven : TRUE
              ELSE own
  BY DEF TitleFor
<1>7. title \in TitleIds
  BY <1>2, <1>4, <1>5, <1>6
<1>8. Placed(r, placed, contradicted) = [place |-> r.place, content |-> r.content, token |-> r.token, title |-> title]
  BY DEF Placed
<1>9. Known(r.place) # {} /\ r.place \notin contradicted => title = known.title
  BY <1>6
<1> HIDE DEF title, known
<1>10. Placed(r, placed, contradicted) \in Sources
  BY <1>1, <1>7, <1>8 DEF Results, Sources
<1> QED
  BY <1>8, <1>9, <1>10 DEF PlacedAs, known

\* reconcileIdentity places every result, and nothing but results.
LEMMA ReconciledIs ==
  ASSUME CatalogInduction, scan.phase = "inspected", NEW contradicted
  PROVE  LET placed == ReconcileIdentity(scan.results, contradicted)
         IN  /\ \A s \in placed : \E r \in scan.results : PlacedAs(r, s, contradicted)
             /\ \A r \in scan.results : \E s \in placed : PlacedAs(r, s, contradicted)
<1> DEFINE R == scan.results
           k == Cardinality(R)
           From(s) == \E r \in R : PlacedAs(r, s, contradicted)
           After(r, S) == \E s \in S : PlacedAs(r, s, contradicted)
<1>1. IsFiniteSet(R) /\ R \in SUBSET Results
  BY ResultsFinite DEF CatalogInduction, CatalogTables, ScanTyped, ScanStates
<1>2. k \in Nat /\ \A r \in R : Rank(r, R) \in Nat /\ Rank(r, R) < k
  BY <1>1, RankBelow, FS_CardinalityType
<1>3. PICK g : PlacedRun(R, contradicted, k, g) /\ ReconcileIdentity(R, contradicted) = g[k]
  BY <1>2, ReconcileRuns
<1> DEFINE Good(n) == /\ \A s \in g[n] : From(s)
                      /\ \A r \in R : Rank(r, R) < n => After(r, g[n])
<1>4. \A n \in 0..k : Good(n)
  <2> DEFINE T == {n \in 0..k : ~Good(n)}
  <2>1. SUFFICES ASSUME T # {} PROVE FALSE
    OBVIOUS
  <2>2. T \in SUBSET Nat
    BY <1>2
  <2>3. PICK n \in T : \A m \in T : n <= m
    BY <2>1, <2>2, LeastExists
  <2>4. n \in 0..k /\ n \in Nat /\ ~Good(n)
    BY <2>3, <1>2
  <2>5. n # 0
    <3>1. g[0] = {}
      BY <1>3 DEF PlacedRun
    <3>2. \A r \in R : ~(Rank(r, R) < 0)
      BY <1>2
    <3>3. Good(0)
      BY <3>1, <3>2
    <3> QED
      BY <2>4, <3>3
  <2>6. n \in 1..k /\ n - 1 \in 0..k /\ n - 1 < n
    BY <2>4, <2>5, <1>2
  <2>7. n - 1 \notin T
    BY <2>2, <2>3, <2>4, <2>6
  <2>8. Good(n - 1)
    BY <2>6, <2>7
  <2> DEFINE h == g[n - 1]
             new == {Placed(r, h, contradicted) : r \in {q \in R : Rank(q, R) = n - 1}}
  <2>9. g[n] = h \cup new
    BY <1>3, <2>6 DEF PlacedRun, PlacedNext
  <2>10. (\A s \in h : From(s)) /\ \A r \in R : Rank(r, R) < n - 1 => After(r, h)
    BY <2>8
  <2> HIDE DEF h, After, From, Good
  <2>11. h \in SUBSET Sources
    BY <2>10 DEF From, PlacedAs
  <2>12. \A r \in R : PlacedAs(r, Placed(r, h, contradicted), contradicted)
    BY <2>11, PlacedTyped
  <2>13. \A s \in g[n] : From(s)
    BY <2>9, <2>10, <2>12 DEF From
  <2>14. ASSUME NEW r \in R, Rank(r, R) < n PROVE After(r, g[n])
    <3>1. Rank(r, R) < n - 1 \/ Rank(r, R) = n - 1
      BY <2>14, <1>2, <2>4
    <3>2. CASE Rank(r, R) < n - 1
      BY <3>2, <2>9, <2>10 DEF After
    <3>3. CASE Rank(r, R) = n - 1
      BY <3>3, <2>9, <2>12 DEF After
    <3> QED
      BY <3>1, <3>2, <3>3
  <2>15. Good(n)
    BY <2>13, <2>14 DEF Good
  <2> QED
    BY <2>4, <2>15
<1>5. k \in 0..k
  BY <1>2
<1>6. Good(k)
  BY <1>4, <1>5
<1> QED
  BY <1>2, <1>3, <1>6

\* The parts of FilesAfter: the sources a commit writes, the row it writes for each, the rows it leaves
\* and what it makes of them.
SourcesOf(placed) ==
  {[place |-> s.place, content |-> s.content, token |-> s.token, title |-> s.title] : s \in placed}
    \cup {[place |-> f.place, content |-> f.content, token |-> f.token, title |-> f.title] :
             f \in {g \in Carried : titles[g.title].available /\ \A s \in placed : s.place # g.place}}
SameSource(f, s) == PhysicalId(f) = <<s.place, s.content, s.token>>
Written(s, after) ==
  [place |-> s.place, content |-> s.content, token |-> s.token, born |-> s.token, title |-> s.title,
   present |-> TRUE, selected |-> after[s.title].available /\ s.place = after[s.title].place]
ResetBy(placed) == {s.title : s \in SourcesOf(placed)} \cup Unsupported(placed)
Left(placed) == {f \in files : \A s \in SourcesOf(placed) : ~SameSource(f, s)}
LeftAs(placed, f) == IF f.title \in ResetBy(placed) THEN [f EXCEPT !.present = FALSE, !.selected = FALSE] ELSE f

\* FilesAfter in these parts.
LEMMA FilesAfterIs ==
  ASSUME NEW placed, NEW after
  PROVE  FilesAfter(placed, after) = {LeftAs(placed, f) : f \in Left(placed)}
                                       \cup {Written(s, after) : s \in SourcesOf(placed)}
<1>1. {g \in Carried : titles[g.title].available /\ \A s \in placed : s.place # g.place}
        = {g \in {f \in Carried : titles[f.title].available} : \A s \in placed : s.place # g.place}
  OBVIOUS
<1>2. SourcesOf(placed) =
        {[place |-> s.place, content |-> s.content, token |-> s.token, title |-> s.title] : s \in placed}
          \cup {[place |-> f.place, content |-> f.content, token |-> f.token, title |-> f.title] :
                  f \in {g \in {f \in Carried : titles[f.title].available} : \A s \in placed : s.place # g.place}}
  BY <1>1 DEF SourcesOf
<1> QED
  BY <1>2 DEF FilesAfter, SameSource, Written, ResetBy, Left, LeftAs

\* A protected location's present source is carried over, unless a retry found its file; a carried

\* source's file is not a result.
LEMMA CarriedIs ==
  ASSUME CatalogInduction, scan.phase = "inspected"
  PROVE  /\ \A f \in files : f.present /\ f.place[1] \in scan.protected =>
              f \in Carried \/ \E r \in scan.results : r.place = f.place
         /\ \A f \in Carried, r \in scan.results : r.place # f.place
<1>1. /\ \A r \in scan.results : \E f \in scan.found : f.place = r.place
      /\ \A r \in scan.results : r.place \notin scan.failures
      /\ \A k \in scan.retry : k \in scan.failures \/ \E r \in scan.results : r.place = k
  BY DEF CatalogInduction, CatalogTables, InspectOK
<1>2. Walked
  BY DEF CatalogInduction, CatalogTables, WalkOK
<1>3. \A f \in files : f.present /\ f.place[1] \in scan.protected =>
        f \in Carried \/ \E r \in scan.results : r.place = f.place
  BY <1>1 DEF Carried
<1>4. ASSUME NEW f \in Carried, NEW r \in scan.results, r.place = f.place PROVE FALSE
  <2>1. f.place[1] \in scan.protected /\ f.place \notin scan.retry
    BY <1>1, <1>4 DEF Carried
  <2>2. f.place[1] \in Locations
    BY PlaceIs DEF Carried, CatalogInduction, CatalogTables, TablesTyped, Rows
  <2>3. PICK g \in scan.found : g.place = f.place
    BY <1>1, <1>4
  <2>4. f.place[1] \in scan.completed
    BY <1>2, <2>1, <2>3 DEF Walked
  <2> QED
    BY <1>2, <2>1, <2>2, <2>4 DEF Walked
<1> QED
  BY <1>3, <1>4

\* The sources a commit writes are the placed files and the carried sources of available titles.
LEMMA SourcesAre ==
  ASSUME CatalogInduction, scan.phase = "inspected", NEW contradicted,
         NEW placed, placed = ReconcileIdentity(scan.results, contradicted)
  PROVE  /\ placed \subseteq SourcesOf(placed) /\ SourcesOf(placed) \in SUBSET Sources
         /\ \A s \in SourcesOf(placed) :
              \/ s \in placed
              \/ \E f \in Carried : /\ s.place = f.place /\ s.content = f.content /\ s.token = f.token
                                    /\ s.title = f.title /\ titles[f.title].available
         /\ \A f \in Carried : titles[f.title].available =>
              \E s \in SourcesOf(placed) : s.place = f.place /\ s.title = f.title
         /\ \A s \in SourcesOf(placed) : Vouched(s.content, s.token)
<1>1. \A s \in placed : \E r \in scan.results : PlacedAs(r, s, contradicted)
  BY ReconciledIs
<1>2. \A s \in placed : /\ s \in Sources
                        /\ s = [place |-> s.place, content |-> s.content, token |-> s.token, title |-> s.title]
  BY <1>1 DEF PlacedAs, Sources
<1> DEFINE As(s) == [place |-> s.place, content |-> s.content, token |-> s.token, title |-> s.title]
           carried == {g \in Carried : titles[g.title].available /\ \A s \in placed : s.place # g.place}
<1>3. SourcesOf(placed) = {As(s) : s \in placed} \cup {As(f) : f \in carried}
  BY DEF SourcesOf
<1>4. {As(s) : s \in placed} = placed
  BY <1>2
<1>5. \A f \in carried : /\ As(f) \in Sources /\ f \in Carried /\ titles[f.title].available
                         /\ Vouched(As(f).content, As(f).token)
  BY DEF Carried, CatalogInduction, CatalogTruth, CatalogTables, TablesTyped, FilesTrue, Rows, Sources
<1>6. \A s \in placed : Vouched(s.content, s.token)
  BY <1>1 DEF PlacedAs, CatalogInduction, CatalogTruth, ScanTrue
<1>7. \A f \in Carried : titles[f.title].available => f \in carried
  <2>1. \A f \in Carried, s \in placed : s.place # f.place
    BY <1>1, CarriedIs DEF PlacedAs
  <2> QED
    BY <2>1
<1>8. \A f : As(f).place = f.place /\ As(f).content = f.content /\ As(f).token = f.token /\ As(f).title = f.title
  OBVIOUS
<1> HIDE DEF As, carried
<1> QED
  BY <1>2, <1>3, <1>4, <1>5, <1>6, <1>7, <1>8

\* A commit leaves every title an item, and calls none available but by a placed file or by its row.
LEMMA TitlesAfterAre ==
  ASSUME CatalogInduction, scan.phase = "inspected", NEW contradicted,
         NEW placed, placed = ReconcileIdentity(scan.results, contradicted)
  PROVE  /\ TitlesAfter(placed) \in [DOMAIN titles \cup {s.title : s \in placed} -> Items]
         /\ DOMAIN titles \cup {s.title : s \in placed} \subseteq TitleIds
         /\ \A t \in DOMAIN titles \cup {s.title : s \in placed} : TitleAfter(t, placed).available =>
              \/ \E s \in placed : s.title = t
              \/ t \in DOMAIN titles /\ titles[t].available /\ t \notin Unsupported(placed)
<1> DEFINE D == DOMAIN titles \cup {s.title : s \in placed}
<1>1. placed \subseteq Sources
  BY ReconciledIs DEF PlacedAs
<1>2. titles \in [DOMAIN titles -> Items] /\ D \subseteq TitleIds
  BY <1>1 DEF CatalogInduction, CatalogTables, TablesTyped, Sources
<1>3. ASSUME NEW t \in D
      PROVE  /\ TitleAfter(t, placed) \in Items
             /\ TitleAfter(t, placed).available =>
                  \/ \E s \in placed : s.title = t
                  \/ t \in DOMAIN titles /\ titles[t].available /\ t \notin Unsupported(placed)
  <2> DEFINE item == PrimaryOf(t, placed)
             chosen == [place |-> item.place, content |-> item.content, token |-> item.token, available |-> TRUE]
             keeps == t \in DOMAIN titles /\ (titles[t].place \in scan.failures \/ \A s \in placed : s.title # t)
  <2>1. TitleAfter(t, placed) = IF t \in Unsupported(placed) THEN [titles[t] EXCEPT !.available = FALSE]
                                ELSE IF keeps THEN titles[t] ELSE chosen
    BY DEF TitleAfter
  <2>2. CASE t \in Unsupported(placed)
    <3>1. titles[t] \in Items
      BY <1>2, <2>2 DEF Unsupported
    <3>2. [titles[t] EXCEPT !.available = FALSE] \in Items /\ ~[titles[t] EXCEPT !.available = FALSE].available
      BY <3>1 DEF Items
    <3> QED
      BY <2>1, <2>2, <3>2
  <2>3. CASE t \notin Unsupported(placed) /\ keeps
    BY <1>2, <2>1, <2>3
  <2>4. CASE t \notin Unsupported(placed) /\ ~keeps
    <3> DEFINE own == {s \in placed : s.title = t}
               kept == {s \in own : t \in DOMAIN titles /\ s.place = titles[t].place}
    <3>1. own # {}
      BY <2>4
    <3>2. {o.place : o \in own} \in SUBSET Places /\ {o.place : o \in own} # {}
      BY <1>1, <3>1 DEF Sources
    <3>3. First({o.place : o \in own}) \in {o.place : o \in own}
      BY <3>2, FirstIn
    <3>4. \E s \in own : s.place = First({o.place : o \in own})
      BY <3>3
    <3>5. item = IF kept # {} THEN CHOOSE s \in kept : TRUE
                 ELSE CHOOSE s \in own : s.place = First({o.place : o \in own})
      BY DEF PrimaryOf
    <3>6. item \in own
      BY <3>4, <3>5
    <3>7. chosen \in Items
      BY <1>1, <3>6 DEF Sources, Items
    <3> QED
      BY <2>1, <2>4, <3>1, <3>7
  <2> QED
    BY <2>2, <2>3, <2>4
<1> QED
  BY <1>2, <1>3 DEF TitlesAfter

\* The rows a commit leaves are rows, of titles it knows and of bytes that are vouched for; no row loses

\* its id, and every source is present.
LEMMA RowsAfterAre ==
  ASSUME CatalogInduction, scan.phase = "inspected", NEW contradicted,
         NEW placed, placed = ReconcileIdentity(scan.results, contradicted), NEW after,
         NEW table, table = FilesAfter(placed, after)
  PROVE  /\ table \in SUBSET Rows
         /\ \A u \in table : Vouched(u.content, u.token) /\ u.title \in DOMAIN titles \cup {s.title : s \in placed}
         /\ \A f \in files : \E u \in table : PhysicalId(u) = PhysicalId(f)
         /\ \A s \in SourcesOf(placed) : \E u \in table : u.place = s.place /\ u.title = s.title /\ u.present
         /\ \A f \in Left(placed) : f.title \notin ResetBy(placed) => f \in table
<1>1. table = {LeftAs(placed, f) : f \in Left(placed)} \cup {Written(s, after) : s \in SourcesOf(placed)}
  BY FilesAfterIs
<1>2. ASSUME NEW f \in files
      PROVE  LET u == LeftAs(placed, f)
             IN  /\ u \in Rows /\ Vouched(u.content, u.token) /\ u.title \in DOMAIN titles
                 /\ PhysicalId(u) = PhysicalId(f) /\ (f.title \notin ResetBy(placed) => u = f)
  BY DEF LeftAs, PhysicalId, CatalogInduction, CatalogTruth, CatalogTables, TablesTyped, FilesTrue, Rows
<1>3. SourcesOf(placed) \in SUBSET Sources
  BY SourcesAre
<1>4. ASSUME NEW s \in SourcesOf(placed)
      PROVE  LET u == Written(s, after)
             IN  /\ u \in Rows /\ Vouched(u.content, u.token) /\ u.title \in DOMAIN titles \cup {q.title : q \in placed}
                 /\ PhysicalId(u) = <<s.place, s.content, s.token>>
                 /\ u.place = s.place /\ u.title = s.title /\ u.present
  <2>1. s \in Sources /\ Vouched(s.content, s.token)
    BY SourcesAre
  <2>2. s.title \in DOMAIN titles \cup {q.title : q \in placed}
    <3>1. CASE s \in placed
      BY <3>1
    <3>2. CASE \E f \in Carried : s.title = f.title
      BY <3>2 DEF Carried, CatalogInduction, CatalogTables, TablesTyped
    <3> QED
      BY <3>1, <3>2, SourcesAre
  <2>3. PICK b \in BOOLEAN : b = (after[s.title].available /\ s.place = after[s.title].place)
    OBVIOUS
  <2>4. Written(s, after) = [place |-> s.place, content |-> s.content, token |-> s.token, born |-> s.token,
                             title |-> s.title, present |-> TRUE, selected |-> b]
    BY <2>3 DEF Written
  <2> QED
    BY <2>1, <2>2, <2>4 DEF Sources, Rows, PhysicalId
<1>5. \A f \in Left(placed) : f \in files
  BY DEF Left
<1>6. ASSUME NEW f \in files PROVE \E u \in table : PhysicalId(u) = PhysicalId(f)
  <2>1. CASE f \in Left(placed)
    BY <1>1, <1>2, <2>1
  <2>2. CASE f \notin Left(placed)
    <3>1. PICK s \in SourcesOf(placed) : SameSource(f, s)
      BY <2>2 DEF Left
    <3> QED
      BY <1>1, <1>4, <3>1 DEF SameSource
  <2> QED
    BY <2>1, <2>2
<1>7. table \in SUBSET Rows /\ \A u \in table : Vouched(u.content, u.token) /\ u.title \in DOMAIN titles \cup {s.title : s \in placed}
  <2> SUFFICES ASSUME NEW u \in table
               PROVE  u \in Rows /\ Vouched(u.content, u.token) /\ u.title \in DOMAIN titles \cup {s.title : s \in placed}
    OBVIOUS
  <2>1. CASE \E f \in Left(placed) : u = LeftAs(placed, f)
    BY <1>2, <1>5, <2>1
  <2>2. CASE \E s \in SourcesOf(placed) : u = Written(s, after)
    BY <1>4, <2>2
  <2> QED
    BY <1>1, <2>1, <2>2
<1>8. \A s \in SourcesOf(placed) : \E u \in table : u.place = s.place /\ u.title = s.title /\ u.present
  BY <1>1, <1>4
<1>9. \A f \in Left(placed) : f.title \notin ResetBy(placed) => f \in table
  BY <1>1, <1>2, <1>5
<1> QED
  BY <1>6, <1>7, <1>8, <1>9

\* A present source of a protected location stays present, or its title was unavailable and it is skipped.
LEMMA ProtectedStay ==
  ASSUME CatalogInduction, scan.phase = "inspected", NEW contradicted,
         NEW placed, placed = ReconcileIdentity(scan.results, contradicted), NEW after,
         NEW table, table = FilesAfter(placed, after),
         NEW f \in files, f.present, f.place[1] \in scan.protected
  PROVE  \/ \E u \in table : u.place = f.place /\ u.present
         \/ f \in Carried /\ ~titles[f.title].available
<1>1. CASE \E r \in scan.results : r.place = f.place
  <2>1. \E s \in placed : s.place = f.place
    BY <1>1, ReconciledIs DEF PlacedAs
  <2>2. \E s \in SourcesOf(placed) : s.place = f.place
    BY <2>1, SourcesAre
  <2> QED
    BY <2>2, RowsAfterAre
<1>2. CASE f \in Carried /\ titles[f.title].available
  <2>1. \E s \in SourcesOf(placed) : s.place = f.place
    BY <1>2, SourcesAre
  <2> QED
    BY <2>1, RowsAfterAre
<1> QED
  BY <1>1, <1>2, CarriedIs

\* A title that stays available has a present source after the commit: one that is written, or when its

\* primary file failed the one it had, which nothing replaces under another title.
LEMMA AvailableAfter ==
  ASSUME CatalogInduction, scan.phase = "inspected", NEW contradicted,
         NEW placed, placed = ReconcileIdentity(scan.results, contradicted), NEW after,
         contradicted \subseteq {r.place : r \in {s \in scan.results : \E old \in Known(s.place) : old.content # s.content}},
         NEW table, table = FilesAfter(placed, after),
         NEW t \in DOMAIN titles \cup {s.title : s \in placed}, TitleAfter(t, placed).available
  PROVE  \E u \in table : u.title = t /\ u.present
<1>1. CASE \E s \in placed : s.title = t
  BY <1>1, SourcesAre, RowsAfterAre
<1>2. CASE \E f \in Carried : f.title = t /\ titles[t].available
  <2>1. \E s \in SourcesOf(placed) : s.title = t
    BY <1>2, SourcesAre
  <2> QED
    BY <2>1, RowsAfterAre
<1>3. CASE (\A s \in placed : s.title # t) /\ ~\E f \in Carried : f.title = t /\ titles[t].available
  <2>1. t \in DOMAIN titles /\ titles[t].available /\ t \notin Unsupported(placed)
    BY <1>3, TitlesAfterAre
  <2>2. PICK f \in files : f.title = t /\ f.present
    BY <2>1 DEF CatalogInduction, CatalogTables, AvailableHasSource
  <2>3. f \notin Carried
    BY <1>3, <2>1, <2>2
  <2>4. \A s \in SourcesOf(placed) : s.title # t
    BY <1>3, <2>1, SourcesAre
  <2>5. f.title \notin ResetBy(placed)
    BY <2>1, <2>2, <2>4 DEF ResetBy
  <2>6. ASSUME NEW s \in SourcesOf(placed), SameSource(f, s) PROVE FALSE
    <3>1. f.place = s.place /\ f.content = s.content
      BY <2>6 DEF SameSource, PhysicalId
    <3>2. CASE s \in placed
      <4>1. PICK r \in scan.results : PlacedAs(r, s, contradicted)
        BY <3>2, ReconciledIs
      <4>2. r.place = f.place /\ r.content = f.content
        BY <3>1, <4>1 DEF PlacedAs
      <4>3. Known(f.place) # {} /\ \A old \in Known(f.place) : old = f
        BY <2>2, KnownIs DEF CatalogInduction, CatalogTruth, CatalogTables
      <4>4. \A q \in scan.results : q.place = r.place => q = r
        BY DEF CatalogInduction, CatalogTables, InspectOK
      <4>5. f.place \notin contradicted
        BY <4>2, <4>3, <4>4
      <4>6. (CHOOSE old \in Known(f.place) : TRUE) = f
        BY <4>3
      <4>7. s.title = f.title
        BY <4>1, <4>2, <4>3, <4>5, <4>6 DEF PlacedAs
      <4> QED
        BY <4>7, <2>2, <2>4
    <3>3. CASE \E g \in Carried : s.place = g.place
      <4>1. PICK g \in Carried : s.place = g.place
        BY <3>3
      <4>2. g \in files /\ g.present
        BY DEF Carried
      <4>3. g = f
        BY <2>2, <3>1, <4>1, <4>2 DEF CatalogInduction, CatalogTables, UniqueSources
      <4> QED
        BY <2>3, <4>3
    <3> QED
      BY <3>2, <3>3, SourcesAre
  <2>7. f \in Left(placed)
    BY <2>6 DEF Left
  <2>8. f \in table
    BY <2>5, <2>7, RowsAfterAre
  <2> QED
    BY <2>2, <2>8
<1> QED
  BY <1>1, <1>2, <1>3

\* A commit writes what the scan found and keeps what it could not look at.
LEMMA CommitScanStep ==
  ASSUME CatalogInduction, NEW contradicted, CommitScan(contradicted)
  PROVE  CatalogInduction'
<1> DEFINE R == ReconcileIdentity(scan.results, contradicted)
<1>0. PICK placed : placed = R
  OBVIOUS
<1> HIDE DEF R
<1> DEFINE after == TitlesAfter(placed)
           D == DOMAIN titles \cup {s.title : s \in placed}
<1>1. /\ scan.phase = "inspected" /\ titles' = after /\ files' = FilesAfter(placed, after) /\ UniqueSources(files')
      /\ locations' = CompletedLocations /\ scan' = [scan EXCEPT !.phase = "committed"]
      /\ contradicted \subseteq {r.place : r \in {s \in scan.results : \E old \in Known(s.place) : old.content # s.content}}
      /\ skipped' = skipped \cup {f.place : f \in {g \in Carried : ~titles[g.title].available}}
      /\ disk' = disk /\ online' = online /\ writes' = writes /\ proof' = proof /\ admitted' = admitted
      /\ preview' = preview /\ page' = page /\ scans' = scans
  BY <1>0 DEF CommitScan, R, mediaVars, playVars
<1>2. placed = ReconcileIdentity(scan.results, contradicted)
  BY <1>0 DEF R
<1>3. scan \in ScanStates /\ locations \in [Locations -> LocationRows] /\ scan.todo = {} /\ Walked
  BY <1>1 DEF CatalogInduction, CatalogTables, ScanTyped, OwnersTyped, InspectOK, WalkOK
<1>4. /\ scan' \in ScanStates /\ scan'.phase = "committed" /\ scan'.id = scan.id /\ scan'.reviews = scan.reviews
      /\ scan'.found = scan.found /\ scan'.results = scan.results
  BY <1>1, <1>3 DEF ScanStates, Phases
<1>5. TablesTyped'
  <2>1. titles' \in [D -> Items] /\ D \subseteq TitleIds
    BY <1>1, <1>2, TitlesAfterAre
  <2>2. files' \in SUBSET Rows /\ \A u \in files' : u.title \in D
    BY <1>1, <1>2, RowsAfterAre
  <2> HIDE DEF D, after
  <2>3. DOMAIN titles' = D
    BY <2>1
  <2> QED
    BY <2>1, <2>2, <2>3 DEF TablesTyped
<1>6. FilesTrue'
  <2>1. \A u \in files' : Vouched(u.content, u.token)
    BY <1>1, <1>2, RowsAfterAre
  <2> QED
    BY <1>1, <2>1 DEF FilesTrue, Vouched
<1>7. CatalogTruth'
  <2>1. ScanTrue'
    BY <1>1, <1>4 DEF CatalogInduction, CatalogTruth, ScanTrue, Vouched
  <2> QED
    BY <1>1, <1>6, <2>1 DEF CatalogInduction, CatalogTruth, DiskTyped, TokensTrue, ProofTrue, KeyTrue, PlaybackTyped, Vouched
<1>8. ASSUME NEW l \in Locations
      PROVE  /\ locations'[l] \in LocationRows
             /\ \/ l \notin scan.completed /\ locations'[l] = locations[l]
                \/ locations'[l].state = "available" /\ locations'[l].review = {} /\ locations'[l].pending = 0
  <2> DEFINE new == [locations[l] EXCEPT !.state = "available", !.review = {}, !.pending = 0]
  <2>1. locations'[l] = IF l \in scan.completed THEN new ELSE locations[l]
    BY <1>1 DEF CompletedLocations
  <2>2. new \in LocationRows /\ new.state = "available" /\ new.review = {} /\ new.pending = 0
    BY <1>3 DEF LocationRows, LocationStates
  <2> HIDE DEF new
  <2> QED
    BY <1>3, <2>1, <2>2
<1>9. OwnersTyped' /\ ScanTyped'
  <2>1. locations' \in [Locations -> LocationRows]
    BY <1>1, <1>8 DEF CompletedLocations
  <2>2. skipped' \subseteq Places
    BY <1>1 DEF CatalogInduction, CatalogTables, OwnersTyped, TablesTyped, Rows, Carried
  <2> QED
    BY <1>1, <1>4, <2>1, <2>2 DEF CatalogInduction, CatalogTables, OwnersTyped, ScanTyped
<1>10. UniqueSources(files)'
  BY <1>1 DEF UniqueSources
<1>11. AvailableHasSource'
  <2> SUFFICES ASSUME NEW t \in DOMAIN titles', titles'[t].available
               PROVE  \E u \in files' : u.title = t /\ u.present
    BY DEF AvailableHasSource
  <2>1. titles' = [q \in D |-> TitleAfter(q, placed)]
    BY <1>1 DEF TitlesAfter
  <2>2. t \in D /\ TitleAfter(t, placed).available
    BY <2>1
  <2> QED
    BY <1>1, <1>2, <2>2, AvailableAfter
<1>12. ASSUME NEW l \in Locations, l \in scan.protected, NEW ids
       PROVE  IdsShown(l, ids) => IdsShown(l, ids)'
  <2> SUFFICES ASSUME NEW i, i \in PresentAt(l) \cup skipped PROVE i \in (PresentAt(l) \cup skipped)'
    BY DEF IdsShown
  <2>1. CASE i \in skipped
    BY <1>1, <2>1
  <2>2. CASE i \in PresentAt(l)
    <3>1. PICK f \in files : f.present /\ f.place[1] = l /\ i = f.place
      BY <2>2 DEF PresentAt, ActiveSources
    <3>2. CASE \E u \in files' : u.place = f.place /\ u.present
      BY <3>1, <3>2 DEF PresentAt, ActiveSources
    <3>3. CASE f \in Carried /\ ~titles[f.title].available
      BY <1>1, <3>1, <3>3
    <3>4. f.present /\ f.place[1] \in scan.protected
      BY <1>12, <3>1
    <3>5. PICK table : table = files'
      OBVIOUS
    <3>6. table = FilesAfter(placed, after)
      BY <1>1, <3>5
    <3>7. \/ \E u \in table : u.place = f.place /\ u.present
          \/ f \in Carried /\ ~titles[f.title].available
      BY <1>1, <1>2, <3>4, <3>6, ProtectedStay
    <3> QED
      BY <3>2, <3>3, <3>5, <3>7
  <2> QED
    BY <2>1, <2>2
<1>13. ASSUME NEW l, NEW ids, IdsHeld(l, ids) PROVE IdsHeld(l, ids)'
  <2>1. \A f \in files : \E u \in files' : PhysicalId(u) = PhysicalId(f)
    BY <1>1, <1>2, RowsAfterAre
  <2>2. RowIds \subseteq RowIds'
    BY <2>1 DEF RowIds, PhysicalId
  <2> QED
    BY <1>13, <2>2 DEF IdsHeld
<1>14. ReviewsHeld'
  <2>1. ASSUME NEW l \in Locations PROVE IdsHeld(l, locations[l].review)'
    <3>1. PICK ids : ids = locations'[l].review
      OBVIOUS
    <3>2. IdsHeld(l, ids)
      BY <1>8, <3>1 DEF CatalogInduction, CatalogTables, ReviewsHeld, IdsHeld
    <3> QED
      BY <1>13, <3>1, <3>2
  <2>2. ASSUME NEW l \in Locations, locations'[l].state = "review_required"
        PROVE  locations'[l].review # {} /\ IdsShown(l, locations[l].review)'
    <3>1. l \notin scan.completed /\ locations'[l] = locations[l]
      BY <1>8, <2>2
    <3>2. l \in scan.protected
      BY <1>3, <2>2, <3>1 DEF Walked, Registered
    <3>3. PICK ids : ids = locations[l].review
      OBVIOUS
    <3>4. ids # {} /\ IdsShown(l, ids)
      BY <2>2, <3>1, <3>3 DEF CatalogInduction, CatalogTables, ReviewsHeld
    <3>5. IdsShown(l, ids)'
      BY <1>12, <3>2, <3>4
    <3>6. IdsShown(l, locations[l].review)'
      BY <3>1, <3>3, <3>5
    <3> QED
      BY <3>1, <3>3, <3>4, <3>6
  <2>3. ASSUME NEW r \in scan.reviews
        PROVE  IdsHeld(r.location, r.missing)' /\ r.missing # {} /\ IdsShown(r.location, r.missing)'
    <3>1. r.location \in Locations /\ r.location \in scan.protected
      BY <1>3 DEF Walked, ScanStates, RemovalReviews
    <3>2. IdsHeld(r.location, r.missing) /\ r.missing # {} /\ IdsShown(r.location, r.missing)
      BY DEF CatalogInduction, CatalogTables, ReviewsHeld
    <3>3. PICK l \in Locations : l = r.location
      BY <3>1
    <3>4. PICK ids : ids = r.missing
      OBVIOUS
    <3>5. IdsHeld(l, ids)' /\ IdsShown(l, ids)'
      BY <1>12, <1>13, <3>1, <3>2, <3>3, <3>4
    <3> QED
      BY <3>2, <3>3, <3>4, <3>5
  <2>4. ASSUME NEW r \in scan'.reviews
        PROVE  (IdsHeld(r.location, r.missing) /\ r.missing # {} /\ IdsShown(r.location, r.missing))'
    BY <1>4, <2>3
  <2> QED
    BY <2>1, <2>2, <2>4 DEF ReviewsHeld
<1>15. PagesCurrent'
  <2>1. /\ page.id <= scans /\ scan.id = scans /\ page.id < scans
        /\ \A l \in Locations : locations[l].pending < scans
    BY <1>1 DEF CatalogInduction, CatalogTables, PagesCurrent
  <2>2. page.id \in Nat /\ scans \in Nat
    BY DEF CatalogInduction, CatalogTables, OwnersTyped, ScanTyped, Pages, NoPage
  <2>3. 0 < scans
    BY <2>1, <2>2
  <2>4. \A l \in Locations : locations'[l].pending < scans
    BY <1>8, <2>1, <2>3
  <2>5. \A l \in Locations : locations'[l].pending <= scans
    <3> SUFFICES ASSUME NEW l \in Locations PROVE locations'[l].pending <= scans
      OBVIOUS
    <3>1. locations'[l].pending \in Nat
      BY <1>8 DEF LocationRows
    <3> QED
      BY <2>2, <2>4, <3>1
  <2>6. ASSUME page # NoPage, locations'[page.location].state = "review_required", locations'[page.location].pending = page.id
        PROVE  page.review = locations'[page.location].review
    <3>1. page.location \in Locations
      BY <2>6 DEF CatalogInduction, CatalogTables, OwnersTyped, Pages
    <3>2. locations'[page.location] = locations[page.location]
      BY <1>8, <2>6, <3>1
    <3> QED
      BY <2>6, <3>2 DEF CatalogInduction, CatalogTables, PagesCurrent
  <2> QED
    BY <1>1, <1>4, <2>1, <2>4, <2>5, <2>6 DEF PagesCurrent
<1>16. WalkOK' /\ InspectOK'
  BY <1>4 DEF WalkOK, InspectOK
<1> QED
  BY <1>5, <1>7, <1>9, <1>10, <1>11, <1>14, <1>15, <1>16 DEF CatalogInduction, CatalogTables

\* The files first on disk have one place, one content and a token of their own each.
LEMMA FirstFilesAre ==
  ASSUME CatalogInit
  PROVE  /\ DiskTyped /\ TokensTrue
         /\ \A c \in Contents : FirstPlaces(c) \in SUBSET Places
         /\ \A c \in Contents : \A k \in FirstPlaces(c) :
              FirstAt(k).content = c /\ FirstAt(k).token \in Nat /\ Vouched(c, FirstAt(k).token)
<1>1. disk = FirstDisk /\ writes = Cardinality(FirstFiles) /\ online = Roots
  BY DEF CatalogInit
<1>2. Gone \notin Contents
  BY CatalogAssumption
<1>3. writes \in Nat
  BY <1>1, FirstAssumption, FS_CardinalityType
<1>4. /\ FirstDisk \in [DOMAIN FirstDisk -> [content : Contents, token : 1..writes] \cup {NoFile}]
      /\ \A d, e \in FirstFiles : FirstDisk[d].token = FirstDisk[e].token => d = e
  BY <1>1, FirstAssumption
<1>5. \A d \in DOMAIN FirstDisk : /\ FirstDisk[d] \in [content : Contents \cup {Gone}, token : 0..writes]
                                  /\ d \in FirstFiles <=> FirstDisk[d].content # Gone
                                  /\ d \in FirstFiles => FirstDisk[d].content \in Contents /\ FirstDisk[d].token \in 1..writes
                                  /\ FirstDisk[d].content = Gone <=> FirstDisk[d].token = 0
  <2> SUFFICES ASSUME NEW d \in DOMAIN FirstDisk
               PROVE  /\ FirstDisk[d] \in [content : Contents \cup {Gone}, token : 0..writes]
                      /\ d \in FirstFiles <=> FirstDisk[d].content # Gone
                      /\ d \in FirstFiles => FirstDisk[d].content \in Contents /\ FirstDisk[d].token \in 1..writes
                      /\ FirstDisk[d].content = Gone <=> FirstDisk[d].token = 0
    OBVIOUS
  <2>1. d \in FirstFiles <=> FirstDisk[d].content # Gone
    BY DEF FirstFiles
  <2>2. CASE FirstDisk[d] = NoFile
    BY <1>3, <2>1, <2>2 DEF NoFile
  <2>3. CASE FirstDisk[d] \in [content : Contents, token : 1..writes]
    BY <1>2, <1>3, <2>1, <2>3
  <2> QED
    BY <1>4, <2>2, <2>3
<1>6. DiskTyped
  <2>1. FirstDisk = [d \in DOMAIN FirstDisk |-> FirstDisk[d]]
    BY <1>4
  <2>2. FirstDisk \in [DOMAIN FirstDisk -> [content : Contents \cup {Gone}, token : 0..writes]]
    BY <1>5, <2>1
  <2> QED
    BY <1>1, <1>3, <2>2 DEF DiskTyped
<1>7. TokensTrue
  <2>1. ASSUME NEW d \in DOMAIN FirstDisk, NEW e \in DOMAIN FirstDisk, FirstDisk[d].token = FirstDisk[e].token, FirstDisk[d].token # 0
        PROVE  d = e
    <3>1. d \in FirstFiles /\ e \in FirstFiles
      BY <1>5, <2>1
    <3> QED
      BY <1>4, <2>1, <3>1
  <2> QED
    BY <1>1, <1>5, <2>1 DEF TokensTrue
<1>8. ASSUME NEW c \in Contents, NEW k \in FirstPlaces(c)
      PROVE  k \in Places /\ FirstAt(k).content = c /\ FirstAt(k).token \in Nat /\ Vouched(c, FirstAt(k).token)
  <2> DEFINE d == <<FirstLocations[k[1]].root, k[2]>>
  <2>1. /\ k \in (DOMAIN FirstLocations) \X Paths /\ d \in DOMAIN FirstDisk /\ FirstAt(k).content = c
        /\ FirstAt(k) = FirstDisk[d]
    BY DEF FirstPlaces, FirstAt
  <2>2. k \in Places
    BY <2>1, FirstAssumption DEF Places
  <2>3. d \in FirstFiles
    BY <1>2, <1>5, <2>1
  <2>4. FirstDisk[d].token \in 1..writes /\ FirstDisk[d].token # 0
    BY <1>3, <1>5, <2>1, <2>3
  <2>5. \A e \in DOMAIN FirstDisk : FirstDisk[e].token = FirstDisk[d].token => e = d
    BY <1>1, <1>7, <2>1, <2>4 DEF TokensTrue
  <2>6. Vouched(c, FirstDisk[d].token)
    BY <1>1, <2>1, <2>4, <2>5 DEF Vouched
  <2>7. FirstDisk[d].token \in Nat
    BY <1>3, <2>4
  <2> QED
    BY <2>1, <2>2, <2>6, <2>7
<1> QED
  BY <1>6, <1>7, <1>8

\* The catalog of the first scan.
LEMMA CatalogStarts ==
  ASSUME CatalogInit
  PROVE  CatalogInduction
<1> DEFINE row(c, k) == [place |-> k, content |-> c, token |-> FirstAt(k).token, born |-> FirstAt(k).token,
                         title |-> <<FirstPlace(c)[2], c>>, present |-> TRUE, selected |-> k = FirstPlace(c)]
           item(t) == [place |-> FirstPlace(t[2]), content |-> t[2], token |-> FirstAt(FirstPlace(t[2])).token,
                       available |-> TRUE]
           D == {<<FirstPlace(c)[2], c>> : c \in FirstContents}
<1>1. /\ online = Roots /\ scan = NoScan /\ scans = 0 /\ page = NoPage /\ proof = NoProof /\ admitted = NoKey /\ skipped = {}
      /\ locations = [l \in Locations |-> FirstLocation(l)] /\ preview = [l \in Locations |-> NoPreview]
      /\ files = UNION {{row(c, k) : k \in FirstPlaces(c)} : c \in FirstContents}
      /\ titles = [t \in D |-> item(t)]
  BY DEF CatalogInit
<1> HIDE DEF row, item
<1>2. /\ DiskTyped /\ TokensTrue
      /\ \A c \in Contents : FirstPlaces(c) \in SUBSET Places
      /\ \A c \in Contents : \A k \in FirstPlaces(c) :
           FirstAt(k).content = c /\ FirstAt(k).token \in Nat /\ Vouched(c, FirstAt(k).token)
  BY FirstFilesAre
<1>3. \A c \in FirstContents : c \in Contents /\ FirstPlaces(c) \in SUBSET Places /\ FirstPlace(c) \in FirstPlaces(c)
  <2> SUFFICES ASSUME NEW c \in FirstContents
               PROVE  c \in Contents /\ FirstPlaces(c) \in SUBSET Places /\ FirstPlace(c) \in FirstPlaces(c)
    OBVIOUS
  <2>1. c \in Contents /\ FirstPlaces(c) # {} /\ FirstPlaces(c) \in SUBSET Places
    BY <1>2 DEF FirstContents
  <2> QED
    BY <2>1, FirstIn DEF FirstPlace
<1>4. \A f \in files : \E c \in FirstContents : \E k \in FirstPlaces(c) : f = row(c, k)
  BY <1>1
<1>5. \A c \in FirstContents : \A k \in FirstPlaces(c) : row(c, k) \in files
  BY <1>1
<1>6. ASSUME NEW c \in FirstContents, NEW k \in FirstPlaces(c)
      PROVE  /\ row(c, k) \in Rows /\ Vouched(row(c, k).content, row(c, k).token)
             /\ row(c, k).title = <<FirstPlace(c)[2], c>> /\ row(c, k).place = k /\ row(c, k).present
  <2>1. c \in Contents /\ k \in Places /\ FirstAt(k).token \in Nat /\ Vouched(c, FirstAt(k).token) /\ FirstPlace(c) \in Places
    BY <1>2, <1>3
  <2>2. <<FirstPlace(c)[2], c>> \in TitleIds
    BY <2>1, PlaceIs DEF TitleIds
  <2>3. PICK b \in BOOLEAN : b = (k = FirstPlace(c))
    OBVIOUS
  <2>4. row(c, k) = [place |-> k, content |-> c, token |-> FirstAt(k).token, born |-> FirstAt(k).token,
                     title |-> <<FirstPlace(c)[2], c>>, present |-> TRUE, selected |-> b]
    BY <2>3 DEF row
  <2> QED
    BY <2>1, <2>2, <2>4 DEF Rows, row
<1>7. ASSUME NEW t \in D PROVE t \in TitleIds /\ item(t) \in Items /\ \E f \in files : f.title = t /\ f.present
  <2>1. PICK c \in FirstContents : t = <<FirstPlace(c)[2], c>>
    BY <1>7
  <2>2. t[2] = c /\ c \in Contents /\ FirstPlace(c) \in FirstPlaces(c) /\ FirstPlace(c) \in Places
    BY <1>3, <2>1
  <2>3. FirstAt(FirstPlace(c)).token \in Nat
    BY <1>2, <2>2
  <2>4. item(t) \in Items
    BY <2>2, <2>3 DEF Items, item
  <2>5. t \in TitleIds
    BY <2>1, <2>2, PlaceIs DEF TitleIds
  <2>6. row(c, FirstPlace(c)) \in files /\ row(c, FirstPlace(c)).title = t /\ row(c, FirstPlace(c)).present
    BY <1>5, <1>6, <2>1, <2>2
  <2> QED
    BY <2>4, <2>5, <2>6
<1>8. TablesTyped
  <2>1. \A f \in files : f \in Rows /\ f.title \in D
    <3> SUFFICES ASSUME NEW f \in files PROVE f \in Rows /\ f.title \in D
      OBVIOUS
    <3>1. PICK c \in FirstContents : \E k \in FirstPlaces(c) : f = row(c, k)
      BY <1>4
    <3>2. PICK k \in FirstPlaces(c) : f = row(c, k)
      BY <3>1
    <3>3. f \in Rows /\ f.title = <<FirstPlace(c)[2], c>>
      BY <1>6, <3>2
    <3> QED
      BY <3>3
  <2>2. titles \in [D -> Items] /\ DOMAIN titles = D /\ D \subseteq TitleIds
    BY <1>1, <1>7 DEF item
  <2> HIDE DEF D
  <2> QED
    BY <2>1, <2>2 DEF TablesTyped
<1>9. FilesTrue
  BY <1>4, <1>6 DEF FilesTrue
<1>10. UniqueSources(files)
  <2> SUFFICES ASSUME NEW f \in files, NEW g \in files, f.place = g.place PROVE f = g
    BY DEF UniqueSources
  <2>1. PICK c \in FirstContents : \E k \in FirstPlaces(c) : f = row(c, k)
    BY <1>4
  <2>2. PICK k \in FirstPlaces(c) : f = row(c, k)
    BY <2>1
  <2>3. PICK e \in FirstContents : \E j \in FirstPlaces(e) : g = row(e, j)
    BY <1>4
  <2>4. PICK j \in FirstPlaces(e) : g = row(e, j)
    BY <2>3
  <2>5. k = j
    BY <1>6, <2>2, <2>4
  <2>6. c = e
    BY <1>2, <1>3, <2>5
  <2> QED
    BY <2>2, <2>4, <2>5, <2>6
<1>11. AvailableHasSource
  <2>1. DOMAIN titles = D
    BY <1>1
  <2> QED
    BY <1>7, <2>1 DEF AvailableHasSource
<1>12. \A l \in Locations : /\ FirstLocation(l) \in LocationRows /\ FirstLocation(l).state # "review_required"
                            /\ FirstLocation(l).review = {} /\ FirstLocation(l).pending = 0
  <2> SUFFICES ASSUME NEW l \in Locations
               PROVE  /\ FirstLocation(l) \in LocationRows /\ FirstLocation(l).state # "review_required"
                      /\ FirstLocation(l).review = {} /\ FirstLocation(l).pending = 0
    OBVIOUS
  <2>1. CASE l \in DOMAIN FirstLocations
    <3>1. FirstLocations[l].library \in Libraries /\ FirstLocations[l].root \in Roots
      BY <2>1, FirstAssumption
    <3> QED
      BY <2>1, <3>1 DEF FirstLocation, NoLocation, LocationRows, LocationStates
  <2>2. CASE l \notin DOMAIN FirstLocations
    BY <2>2 DEF FirstLocation, NoLocation, LocationRows, LocationStates
  <2> QED
    BY <2>1, <2>2
<1>13. OwnersTyped
  <2>1. NoPreview \in Previews
    BY DEF NoPreview, Previews
  <2>2. locations \in [Locations -> LocationRows]
    BY <1>1, <1>12
  <2>3. preview \in [Locations -> Previews]
    BY <1>1, <2>1
  <2> QED
    BY <1>1, <2>2, <2>3 DEF OwnersTyped
<1>14. ScanTyped /\ ScanTrue /\ WalkOK /\ InspectOK
  BY <1>1 DEF ScanTyped, ScanTrue, WalkOK, InspectOK, NoScan, ScanStates, Phases
<1>15. ReviewsHeld /\ PagesCurrent
  BY <1>1, <1>12 DEF ReviewsHeld, PagesCurrent, IdsHeld, NoScan, NoPage
<1>16. PlaybackTyped /\ ProofTrue /\ KeyTrue
  BY <1>1 DEF PlaybackTyped, ProofTrue, KeyTrue
<1> QED
  BY <1>2, <1>8, <1>9, <1>10, <1>11, <1>13, <1>14, <1>15, <1>16 DEF CatalogInduction, CatalogTruth, CatalogTables

\* What the catalog says of the disk is true in every state, and its tables and its scan agree.
LEMMA CatalogInvariant == CatalogSpec => []CatalogInduction
<1>1. ASSUME CatalogInduction, [CatalogNext]_catalogVars PROVE CatalogInduction'
  <2>1. CASE DiskNext
    BY <1>1, <2>1, DiskStep
  <2>2. CASE ScanNext
    <3>1. CASE \E q \in Requests : StartScan(q.libraries, q.retry)
      BY <1>1, <3>1, StartScanStep
    <3>2. CASE \E l \in Locations : WalkRoot(l)
      BY <1>1, <3>2, WalkRootStep
    <3>3. CASE \E broken \in SUBSET {f.place : f \in scan.found} : Inspect(broken)
      BY <1>1, <3>3, InspectStep
    <3>4. CASE \E contradicted \in SUBSET {r.place : r \in scan.results} : CommitScan(contradicted)
      BY <1>1, <3>4, CommitScanStep
    <3>5. CASE FinishScan \/ FailScan
      BY <1>1, <3>5, EndScanStep
    <3>6. CASE StopScan
      BY <1>1, <3>6, StopScanStep
    <3> QED
      BY <2>2, <3>1, <3>2, <3>3, <3>4, <3>5, <3>6 DEF ScanNext
  <2>3. CASE OwnerNext
    <3>1. CASE \E l \in Locations : LoadReview(l)
      BY <1>1, <3>1, LoadReviewStep
    <3>2. CASE ConfirmRemovals
      BY <1>1, <3>2, ConfirmRemovalsStep
    <3>3. CASE \E l \in Locations : \E b \in Libraries : \E r \in Roots : AddLibraryLocation(l, b, r)
      BY <1>1, <3>3, AddLocationStep
    <3>4. CASE \E l \in Locations : CancelLocationChange(l) \/ \E r \in Roots \cup {Gone} : PreviewLocationChange(l, r)
      BY <1>1, <3>4, PreviewStep
    <3>5. CASE \E l \in Locations : ConfirmLocationChange(l)
      BY <1>1, <3>5, ConfirmLocationChangeStep
    <3> QED
      BY <2>3, <3>1, <3>2, <3>3, <3>4, <3>5 DEF OwnerNext
  <2>4. CASE PlayNext
    <3>1. CASE \E t \in DOMAIN titles : ReadProof(t)
      BY <1>1, <3>1, ReadProofStep
    <3>2. CASE SaveProof
      BY <1>1, <3>2, SaveProofStep
    <3>3. CASE \E f \in files : Admit(f)
      BY <1>1, <3>3, AdmitStep
    <3>4. CASE OpenSource
      BY <1>1, <3>4, OpenSourceStep
    <3> QED
      BY <2>4, <3>1, <3>2, <3>3, <3>4 DEF PlayNext
  <2>5. CASE UNCHANGED catalogVars
    <3>1. /\ disk' = disk /\ online' = online /\ writes' = writes /\ proof' = proof /\ admitted' = admitted
          /\ files' = files /\ scan' = scan /\ UNCHANGED <<locations, files, titles, scan, scans, ownerVars>>
      BY <2>5 DEF catalogVars, ownerVars
    <3>2. CatalogTruth'
      BY <1>1, <3>1 DEF CatalogInduction, CatalogTruth, DiskTyped, TokensTrue, FilesTrue, ScanTrue, ProofTrue, KeyTrue,
                        PlaybackTyped, Vouched
    <3> QED
      BY <1>1, <3>1, <3>2, TablesKept DEF CatalogInduction
  <2> QED
    BY <1>1, <2>1, <2>2, <2>3, <2>4, <2>5 DEF CatalogNext
<1> QED
  BY CatalogStarts, <1>1, PTL DEF CatalogSpec

\* Whatever scans, reviews, moves of locations and changes of the disk did: what viewers are offered has a
\* source, every source's token is of the bytes it claims, and an admitted playback reads those it was
\* admitted for (persist, reselectCatalogSource, refreshSourceProof, OpenSource).
THEOREM CatalogCorrect == CatalogSpec => []CatalogInv
<1>1. CatalogInduction => CatalogInv
  <2> SUFFICES ASSUME CatalogInduction PROVE CatalogInv
    OBVIOUS
  <2>1. CatalogTypeOK
    <3>1. \A l \in Locations : locations[l].root \in Roots \cup {Gone} /\ locations[l].review \subseteq {PhysicalId(f) : f \in files}
      BY DEF CatalogInduction, CatalogTables, OwnersTyped, LocationRows, ReviewsHeld, IdsHeld, RowIds
    <3>2. \A f \in files : f.place \in Places /\ f.content \in Contents /\ f.title \in DOMAIN titles
      BY DEF CatalogInduction, CatalogTables, TablesTyped, Rows
    <3>3. scan.phase \in {"idle", "walking", "inspected", "committed"}
      BY DEF CatalogInduction, CatalogTables, ScanTyped, ScanStates, Phases
    <3> QED
      BY <3>1, <3>2, <3>3 DEF CatalogTypeOK, CatalogInduction, CatalogTruth, CatalogTables, DiskTyped, TablesTyped
  <2>2. ProofHonest
    <3> SUFFICES ASSUME NEW f \in files, NEW root, FileAt(root, f.place[2]).token = f.token
                 PROVE  FileAt(root, f.place[2]).content = f.content
      BY DEF ProofHonest
    <3>1. Vouched(f.content, f.token)
      BY DEF CatalogInduction, CatalogTruth, FilesTrue
    <3> QED
      BY <3>1, FileVouched DEF CatalogInduction, CatalogTruth
  <2>3. PinnedSource
    BY DEF PinnedSource, CatalogInduction, CatalogTruth, KeyTrue, NoKey
  <2> QED
    BY <2>1, <2>2, <2>3 DEF CatalogInv, CatalogInduction, CatalogTables
<1> QED
  BY <1>1, CatalogInvariant, PTL

\* A pending review lists places where the catalog holds a present source, and confirming it settles what the
\* owner was shown (recordRemovalReview, ConfirmLocationChange, persist).
THEOREM ReviewsExact == CatalogSpec => []ReviewExact
<1>1. CatalogInduction => ReviewExact
  <2> SUFFICES ASSUME CatalogInduction, NEW l \in Locations, locations[l].state = "review_required"
               PROVE  /\ locations[l].review # {}
                      /\ {i[1] : i \in locations[l].review} \subseteq PresentAt(l) \cup skipped
    BY DEF ReviewExact
  <2> QED
    BY DEF CatalogInduction, CatalogTables, ReviewsHeld, IdsShown
<1> QED
  BY <1>1, CatalogInvariant, PTL

\* Only a commit leads from an inspected scan to a committed one.
LEMMA CommitsOnly ==
  ASSUME CatalogNext, scan.phase = "inspected", scan'.phase = "committed"
  PROVE  \E contradicted : CommitScan(contradicted)
<1>1. CASE DiskNext
  BY <1>1 DEF DiskNext, WriteFile, RemoveFile, Mount
<1>2. CASE ScanNext
  BY <1>2 DEF ScanNext, StartScan, WalkRoot, Inspect, FinishScan, FailScan, StopScan, NoScan
<1>3. CASE OwnerNext
  BY <1>3 DEF OwnerNext, LoadReview, ConfirmRemovals, AddLibraryLocation, PreviewLocationChange, CancelLocationChange,
              ConfirmLocationChange
<1>4. CASE PlayNext
  BY <1>4 DEF PlayNext, ReadProof, SaveProof, Admit, OpenSource
<1> QED
  BY <1>1, <1>2, <1>3, <1>4 DEF CatalogNext

\* A commit keeps the present source of an available title at every protected location.
LEMMA CommitKeeps ==
  ASSUME CatalogInduction, CatalogNext, scan.phase = "inspected", scan'.phase = "committed",
         NEW f \in files, f.present, titles[f.title].available, f.place[1] \in scan.protected
  PROVE  \E g \in files' : g.present /\ g.place = f.place
<1>1. PICK contradicted : CommitScan(contradicted)
  BY CommitsOnly
<1>2. PICK placed : placed = ReconcileIdentity(scan.results, contradicted)
  OBVIOUS
<1>3. PICK table : table = files'
  OBVIOUS
<1>4. table = FilesAfter(placed, TitlesAfter(placed))
  BY <1>1, <1>2, <1>3 DEF CommitScan
<1>5. \E u \in table : u.place = f.place /\ u.present
  BY <1>2, <1>4, ProtectedStay
<1> QED
  BY <1>3, <1>5

\* No scan drops an available title's source at a location it was not asked for, could not read or sent to
\* review (scan, persist).
THEOREM ProtectedKept == CatalogSpec => ProtectedSourcesKept
<1> DEFINE Keeps(f) == /\ scan.phase = "inspected" /\ scan'.phase = "committed"
                       /\ f.present /\ titles[f.title].available
                       /\ f.place[1] \in Registered
                       /\ ~Requested(f.place[1]) \/ f.place[1] \in scan.unavailable
                             \/ \E r \in scan.reviews : r.location = f.place[1]
                       => \E g \in files' : g.present /\ g.place = f.place
<1>1. ASSUME CatalogInduction, CatalogNext, NEW f \in files PROVE Keeps(f)
  <2> SUFFICES ASSUME scan.phase = "inspected", scan'.phase = "committed", f.present, titles[f.title].available,
                      f.place[1] \in Registered,
                      ~Requested(f.place[1]) \/ f.place[1] \in scan.unavailable
                         \/ \E r \in scan.reviews : r.location = f.place[1]
               PROVE  \E g \in files' : g.present /\ g.place = f.place
    OBVIOUS
  <2>1. Walked /\ scan.todo = {}
    BY <1>1 DEF CatalogInduction, CatalogTables, WalkOK, InspectOK
  <2>2. f.place[1] \in scan.protected
    BY <2>1 DEF Walked
  <2> QED
    BY <1>1, <2>2, CommitKeeps
<1>2. CatalogInduction /\ [CatalogNext]_catalogVars => [\A f \in files : Keeps(f)]_catalogVars
  BY <1>1
<1> QED
  BY <1>2, CatalogInvariant, PTL DEF CatalogSpec, ProtectedSourcesKept

\* Nothing is removed in bulk but what the owner was shown and confirmed: a scan empties no location that has
\* an available title, and a confirmation is of the review the owner's page shows (suspiciousRemoval,
\* ConfirmRemovals).
THEOREM OwnerDecides == CatalogSpec => OwnerConfirms
<1> DEFINE Emptied(l) == /\ scan.phase = "inspected" /\ scan'.phase = "committed"
                         /\ \E f \in ActiveSources(l) : titles[f.title].available
                         /\ {f \in files' : f.present /\ f.place[1] = l} = {}
                         => \E f \in scan.found : f.place[1] = l
           Shown(l) == locations[l].state = "review_required" /\ locations'[l].state = "available" /\ scan.phase = "idle"
                         => page = [location |-> l, id |-> locations[l].pending, review |-> locations[l].review]
<1>1. ASSUME CatalogInduction, CatalogNext, NEW l \in Registered PROVE Emptied(l)
  <2> SUFFICES ASSUME scan.phase = "inspected", scan'.phase = "committed",
                      NEW f \in ActiveSources(l), titles[f.title].available,
                      \A u \in files' : ~(u.present /\ u.place[1] = l)
               PROVE  \E g \in scan.found : g.place[1] = l
    OBVIOUS
  <2>1. Walked /\ scan.todo = {}
    BY <1>1 DEF CatalogInduction, CatalogTables, WalkOK, InspectOK
  <2>2. f \in files /\ f.present /\ f.place[1] = l
    BY DEF ActiveSources
  <2>3. l \notin scan.protected
    BY <1>1, <2>2, CommitKeeps
  <2>4. l \in scan.completed
    BY <2>1, <2>3 DEF Walked
  <2> QED
    BY <2>1, <2>4 DEF Walked, FoundAt
<1>2. ASSUME CatalogInduction, CatalogNext, NEW l \in Locations PROVE Shown(l)
  <2> SUFFICES ASSUME locations[l].state = "review_required", locations'[l].state = "available", scan.phase = "idle"
               PROVE  page = [location |-> l, id |-> locations[l].pending, review |-> locations[l].review]
    OBVIOUS
  <2>1. locations \in [Locations -> LocationRows] /\ page \in {NoPage} \cup Pages
    BY <1>2 DEF CatalogInduction, CatalogTables, OwnersTyped
  <2>2. locations' # locations
    OBVIOUS
  <2>3. ConfirmRemovals \/ (\E k \in Locations : \E b \in Libraries : \E r \in Roots : AddLibraryLocation(k, b, r))
          \/ (\E k \in Locations : ConfirmLocationChange(k))
    <3>1. ~DiskNext
      BY <2>2 DEF DiskNext, WriteFile, RemoveFile, Mount
    <3>2. ~ScanNext
      BY <2>2 DEF ScanNext, StartScan, WalkRoot, Inspect, CommitScan, FinishScan, FailScan, StopScan
    <3>3. ~PlayNext
      BY <2>2 DEF PlayNext, ReadProof, SaveProof, Admit, OpenSource
    <3> QED
      BY <1>2, <2>2, <3>1, <3>2, <3>3 DEF CatalogNext, OwnerNext, LoadReview, PreviewLocationChange, CancelLocationChange
  <2>4. CASE ConfirmRemovals
    <3>1. /\ page # NoPage /\ locations[page.location].state = "review_required"
          /\ locations[page.location].pending = page.id
          /\ \A k \in Locations : k # page.location => locations'[k] = locations[k]
      BY <2>1, <2>4 DEF ConfirmRemovals, ReviewPending
    <3>2. l = page.location
      BY <3>1
    <3>3. page.review = locations[page.location].review
      BY <1>2, <3>1 DEF CatalogInduction, CatalogTables, PagesCurrent
    <3>4. page = [location |-> page.location, id |-> page.id, review |-> page.review]
      BY <2>1, <3>1 DEF Pages
    <3> QED
      BY <3>1, <3>2, <3>3, <3>4
  <2>5. ASSUME NEW k \in Locations, NEW b, NEW r, AddLibraryLocation(k, b, r) PROVE FALSE
    <3>1. locations' = [locations EXCEPT ![k] = [NoLocation EXCEPT !.library = b, !.root = r, !.state = "unknown",
                                                                  !.revision = 1]]
      BY <2>5 DEF AddLibraryLocation
    <3> QED
      BY <2>1, <3>1 DEF NoLocation
  <2>6. ASSUME NEW k \in Locations, ConfirmLocationChange(k) PROVE FALSE
    <3>1. locations' = [locations EXCEPT ![k] = LocationAfter(k)]
      BY <2>6 DEF ConfirmLocationChange
    <3>2. locations[k] \in LocationRows
      BY <2>1
    <3>3. LocationAfter(k).state # "available"
      <4>1. CASE preview[k].root = Gone
        BY <4>1 DEF LocationAfter, NoLocation
      <4>2. CASE preview[k].root # Gone
        <5>1. LocationAfter(k) = [locations[k] EXCEPT !.root = preview[k].root, !.revision = @ + 1, !.state = "unknown", !.pending = 0]
          BY <4>2 DEF LocationAfter
        <5>2. PICK n, r : n = locations[k].revision + 1 /\ r = preview[k].root
          OBVIOUS
        <5>3. LocationAfter(k) = [locations[k] EXCEPT !.root = r, !.revision = n, !.state = "unknown", !.pending = 0]
          BY <5>1, <5>2
        <5> QED
          BY <3>2, <5>3 DEF LocationRows
      <4> QED
        BY <4>1, <4>2
    <3> QED
      BY <2>1, <3>1, <3>3
  <2> QED
    BY <2>3, <2>4, <2>5, <2>6
<1>3. CatalogInduction /\ [CatalogNext]_catalogVars => [\A l \in Registered : Emptied(l)]_catalogVars
  BY <1>1
<1>4. CatalogInduction /\ [CatalogNext]_catalogVars => [\A l \in Locations : Shown(l)]_catalogVars
  BY <1>2
<1> QED
  BY <1>3, <1>4, CatalogInvariant, PTL DEF CatalogSpec, OwnerConfirms, EmptiedByOwner, ConfirmedWasShown
=============================================================================
