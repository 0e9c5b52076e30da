---------------------------- MODULE ViewingProofs ----------------------------
(***************************************************************************)
(* Proofs about viewing progress, for any number of titles, playbacks,     *)
(* reports and generations: it implements a register with one writer at a  *)
(* time, a playback completes a title once, and an identity merge that is  *)
(* taken back keeps what the viewer did and restores the rest.             *)
(***************************************************************************)
EXTENDS ViewingProgress, FiniteSetTheorems, TLAPS

\* A playback whose generation the title's row has: the one that may write.
Holds(p, t) == player[p].at = "playing" /\ player[p].title = t /\ player[p].gen = row[t].gen

States == {"none", "checked", "created", "playing", "refused"}
PlayerRecords == [at : States, title : Titles \cup {Nobody}, gen : 0 .. MaxGeneration + 3]
Snapshots == [title : Titles, row : Rows]

\* The parts of the state the type invariant leaves open.
ShapeOK ==
  /\ row \in [Titles -> Rows] /\ original \in [Titles -> Rows]
  /\ player \in [Players -> PlayerRecords]
  /\ merge \in [state : {"none", "active", "unmerged"}, survivor : Titles \cup {Nobody},
                source : Titles \cup {Nobody}, before : SUBSET Snapshots, after : SUBSET Snapshots]
  /\ events \in Seq([title : Titles, source : Nat, by : Players])
  /\ latest \in [Titles -> Positions \cup {Untouched}]

\* One seek holds a title's lock, and it is one of that title's playbacks.
SeekOf(t, s) ==
  s = {} \/ \E p \in Players, n \in 1 .. MaxSent :
    s = {<<p, n>>} /\ player[p].at = "playing" /\ player[p].title = t
SeeksOK ==
  /\ seeking \in [Titles -> SUBSET (Players \X (1 .. MaxSent))]
  /\ \A t \in Titles : SeekOf(t, seeking[t])

\* A repair moves a generation once past the bound, and taking it back once more.
Repairs == CASE merge.state = "none" -> 0 [] merge.state = "active" -> 1 [] OTHER -> 2
RowsOK ==
  \A t \in Titles : /\ row[t].gen <= MaxGeneration + Repairs
                    /\ ~row[t].exists => row[t] = NoRow
                    /\ ~original[t].exists => original[t] = NoRow

\* A playback never has a generation its title has not reached, and no two share one.
PlayersOK ==
  /\ \A p \in Players :
       /\ player[p].at # "none" => player[p].title \in Titles
       /\ player[p].at = "created" => 1 <= player[p].gen /\ player[p].gen <= row[player[p].title].gen + 1
       /\ player[p].at = "playing" => 1 <= player[p].gen /\ player[p].gen <= row[player[p].title].gen
  /\ \A p, q \in Players : player[p].at = "playing" /\ player[q].at = "playing"
       /\ player[p].title = player[q].title /\ player[p].gen = player[q].gen => p = q

\* A position was written by a playback, with its own numbering.
Written(position) ==
  position.by \in Players =>
    player[position.by].at = "playing" /\ (position.by \notin NumberedPlayers => position.n = 0)
PositionsOK ==
  /\ \A t \in Titles : Written(row[t].position)
  /\ \A b \in merge.before : Written(b.row.position)
  /\ \A t \in Titles, p \in Players : Holds(p, t) /\ row[t].position.by = p => row[t].position.n <= row[t].obs

\* A completion of the row's generation is in the history, and a playback in the
\* history that still holds its title has completed it.
EventsOK ==
  /\ \A i \in 1 .. Len(events) : events[i].source <= Len(events) /\ player[events[i].by].at = "playing"
  /\ \A i, j \in 1 .. Len(events) : events[i].by = events[j].by => i = j
  /\ \A p \in Players, t \in Titles : Holds(p, t) =>
       /\ row[t].cid # 0 => \E i \in 1 .. Len(events) : events[i].title = t /\ events[i].source = row[t].cid
       /\ (\E i \in 1 .. Len(events) : events[i].by = p) => row[t].cid # 0

\* While a merge stands: a title that somebody wrote or took over has left the
\* generation of its snapshot, any other row is the merge's or the original one,
\* and the older snapshot is that of the original rows.
MergeOK ==
  merge.state = "active" =>
    /\ \A s \in merge.after :
         /\ s.row.gen <= row[s.title].gen
         /\ latest[s.title] # Untouched => s.row.gen < row[s.title].gen
         /\ \A p \in Players : player[p].at = "playing" /\ player[p].title = s.title => player[p].gen # s.row.gen
         /\ ~original[s.title].exists \/ \E b \in merge.before : b.title = s.title
    /\ \A b \in merge.before : b.row = original[b.title]
    /\ \A t \in Titles : latest[t] = Untouched =>
         row[t] = original[t] \/ \E s \in merge.after : s.title = t /\ s.row = row[t]

ProgressOK ==
  ShapeOK /\ RowsOK /\ PlayersOK /\ PositionsOK /\ EventsOK /\ MergeOK
  /\ RepairReversible /\ ViewerWritesKept

ViewingIInv == ProgressOK /\ SeeksOK

-----------------------------------------------------------------------------
(* What the steps of the system do.                                        *)

\* A plan proceeds or is refused: no row is written.
PlanStep(p, r) ==
  /\ player[p].at # "playing" /\ player' = [player EXCEPT ![p] = r]
  /\ r.at \in {"checked", "created", "refused"} /\ r.title \in Titles
  /\ r.at = "created" => 1 <= r.gen /\ r.gen <= row[r.title].gen + 1
  /\ UNCHANGED <<row, seeking, merge, events, latest, original>>

\* A seek begins, is given up, or a report comes too late.
QuietStep == UNCHANGED <<row, player, merge, events, latest, original>>

\* A playback takes its title over.
TakeStep(p) == LET t == player[p].title IN
  /\ player[p].at = "created" /\ t \in Titles /\ row[t].gen < MaxGeneration /\ player[p].gen = row[t].gen + 1
  /\ player' = [player EXCEPT ![p].at = "playing"]
  /\ row' = [row EXCEPT ![t] = [row[t] EXCEPT !.exists = TRUE, !.gen = @ + 1, !.obs = 0, !.cid = 0]]
  /\ latest' = [latest EXCEPT ![t] = row[t].position]
  /\ UNCHANGED <<seeking, merge, events, original>>

\* A report of the holder is accepted.
ReportStep(p, t, obs, completed) == LET next == Updated(row[t], p, obs, completed) IN
  /\ Holds(p, t) /\ row[t].exists /\ (obs = 0 \/ row[t].obs < obs)
  /\ row' = [row EXCEPT ![t] = next]
  /\ events' = IF completed THEN RecordedEvents(t, next.cid, p) ELSE events
  /\ latest' = [latest EXCEPT ![t] = next.position]
  /\ UNCHANGED <<player, merge, original>>

\* Titles are marked, or an older client writes one.
MarkStep(T) ==
  /\ T \subseteq Titles /\ row' \in [Titles -> Rows]
  /\ \A t \in T : /\ row[t].gen < MaxGeneration /\ row'[t].gen = row[t].gen + 1
                  /\ row'[t].exists /\ row'[t].position = NoPosition
  /\ \A t \in Titles \ T : row'[t] = row[t]
  /\ latest' = [t \in Titles |-> IF t \in T THEN NoPosition ELSE latest[t]]
  /\ UNCHANGED <<player, seeking, merge, events, original>>

\* What the shape of the state gives of single playbacks, rows, events and snapshots.
LEMMA ShapeFacts ==
  ASSUME ShapeOK
  PROVE  /\ \A p \in Players : player[p] \in PlayerRecords /\ player[p].gen \in Nat
         /\ \A t \in Titles : row[t] \in Rows /\ row[t].gen \in Nat /\ row[t].obs \in Nat /\ row[t].cid \in Nat
         /\ \A t \in Titles : row[t].position \in Positions /\ row[t].exists \in BOOLEAN
         /\ \A t \in Titles : original[t] \in Rows
         /\ NoPosition \in Positions /\ Untouched \notin Positions /\ NoRow \in Rows
         /\ \A q \in Positions : q.n \in Nat
         /\ \A i \in 1 .. Len(events) : events[i] \in [title : Titles, source : Nat, by : Players]
         /\ \A i \in 1 .. Len(events) : events[i].by \in Players
         /\ \A s \in merge.before \cup merge.after : s.title \in Titles /\ s.row \in Rows /\ s.row.gen \in Nat
  <1> USE ViewingAssumption
  <1>1. \A p \in Players : player[p] \in PlayerRecords /\ player[p].gen \in Nat
    BY DEF ShapeOK, PlayerRecords
  <1>2. \A t \in Titles : row[t] \in Rows /\ original[t] \in Rows
    BY DEF ShapeOK
  <1>3. \A r \in Rows : r.gen \in Nat /\ r.obs \in Nat /\ r.cid \in Nat /\ r.position \in Positions /\ r.exists \in BOOLEAN
    BY DEF Rows
  <1>4. NoPosition \in Positions /\ Untouched \notin Positions
    BY DEF Positions, NoPosition, Untouched
  <1>5. NoRow \in Rows
    BY <1>4 DEF NoRow, Rows
  <1>6. \A q \in Positions : q.n \in Nat
    BY DEF Positions
  <1>7. events \in Seq([title : Titles, source : Nat, by : Players])
    BY DEF ShapeOK
  <1>8. /\ \A i \in 1 .. Len(events) : events[i] \in [title : Titles, source : Nat, by : Players]
        /\ \A i \in 1 .. Len(events) : events[i].by \in Players
    <2>1. \A S : \A e \in Seq(S) : \A i \in 1 .. Len(e) : e[i] \in S
      OBVIOUS
    <2>2. \A i \in 1 .. Len(events) : events[i] \in [title : Titles, source : Nat, by : Players]
      BY <1>7, <2>1
    <2> QED
      BY <2>2
  <1>9. merge.before \subseteq Snapshots /\ merge.after \subseteq Snapshots
    BY DEF ShapeOK
  <1>10. \A s \in merge.before \cup merge.after : s.title \in Titles /\ s.row \in Rows
    BY <1>9 DEF Snapshots
  <1> QED
    BY <1>1, <1>2, <1>3, <1>4, <1>5, <1>6, <1>8, <1>10

\* The rows marks and older clients write are well typed.
LEMMA MarkedRows ==
  ASSUME NEW r \in Rows, r.gen < MaxGeneration
  PROVE  /\ \A w \in BOOLEAN :
              LET m == [r EXCEPT !.exists = TRUE, !.gen = @ + 1, !.obs = 0, !.completed = w, !.position = NoPosition]
              IN m \in Rows /\ m.gen = r.gen + 1 /\ m.exists /\ m.position = NoPosition
         /\ \A g :
              LET m == [r EXCEPT !.exists = TRUE, !.gen = @ + 1, !.obs = 0, !.completed = FALSE,
                                 !.position = NoPosition, !.cid = IF g = 0 THEN @ ELSE 0]
              IN m \in Rows /\ m.gen = r.gen + 1 /\ m.exists /\ m.position = NoPosition
  <1>1. NoPosition \in Positions
    BY ViewingAssumption DEF Positions, NoPosition
  <1>2. r.gen + 1 \in 0 .. MaxGeneration + 2 /\ r.cid \in Nat
    BY ViewingAssumption DEF Rows
  <1>3. ASSUME NEW w \in BOOLEAN
        PROVE  LET m == [r EXCEPT !.exists = TRUE, !.gen = @ + 1, !.obs = 0, !.completed = w, !.position = NoPosition]
               IN m \in Rows /\ m.gen = r.gen + 1 /\ m.exists /\ m.position = NoPosition
    BY <1>1, <1>2 DEF Rows
  <1>4. ASSUME NEW g
        PROVE  LET m == [r EXCEPT !.exists = TRUE, !.gen = @ + 1, !.obs = 0, !.completed = FALSE,
                                  !.position = NoPosition, !.cid = IF g = 0 THEN @ ELSE 0]
               IN m \in Rows /\ m.gen = r.gen + 1 /\ m.exists /\ m.position = NoPosition
    <2>1. (IF g = 0 THEN r.cid ELSE 0) \in Nat
      BY <1>2
    <2> QED
      BY <1>1, <1>2, <2>1 DEF Rows
  <1> QED
    BY <1>3, <1>4

\* A report is the holder's, or it changes nothing.
LEMMA ReportShape ==
  ASSUME ViewingIInv, NEW p \in Players, NEW n \in 1 .. MaxSent, NEW completed \in BOOLEAN,
         player[p].at = "playing", RecordPlaybackProgress(p, n, completed), UNCHANGED <<player, merge, original>>
  PROVE  QuietStep \/ \E obs \in 0 .. MaxSent :
           ReportStep(p, player[p].title, obs, completed) /\ (obs = 0 <=> p \notin NumberedPlayers)
  <1>1. Observation(p, n) \in 0 .. MaxSent /\ (Observation(p, n) = 0 <=> p \notin NumberedPlayers)
    BY ViewingAssumption DEF Observation
  <1>2. CASE ~Accepts(row[player[p].title], player[p].gen, Observation(p, n))
    BY <1>2 DEF RecordPlaybackProgress, QuietStep
  <1>3. CASE Accepts(row[player[p].title], player[p].gen, Observation(p, n))
    <2>1. ReportStep(p, player[p].title, Observation(p, n), completed)
      BY <1>3 DEF RecordPlaybackProgress, ReportStep, Accepts, Holds
    <2> QED
      BY <1>1, <2>1
  <1> QED
    BY <1>2, <1>3

\* Every step is one of these, a merge or its withdrawal.
LEMMA StepShapes ==
  ASSUME ViewingIInv, [ViewingNext]_viewingVars
  PROVE  \/ \E p \in Players, r \in PlayerRecords : PlanStep(p, r)
         \/ QuietStep
         \/ \E p \in Players : TakeStep(p)
         \/ \E p \in Players, t \in Titles, obs \in 0 .. MaxSent, completed \in BOOLEAN :
              ReportStep(p, t, obs, completed) /\ (obs = 0 <=> p \notin NumberedPlayers)
         \/ \E T \in SUBSET Titles : MarkStep(T)
         \/ \E t, u \in Titles : MergeIdentity(t, u)
         \/ UnmergeIdentity
  <1> DEFINE Shape == \/ \E p \in Players, r \in PlayerRecords : PlanStep(p, r)
                      \/ QuietStep
                      \/ \E p \in Players : TakeStep(p)
                      \/ \E p \in Players, t \in Titles, obs \in 0 .. MaxSent, completed \in BOOLEAN :
                           ReportStep(p, t, obs, completed) /\ (obs = 0 <=> p \notin NumberedPlayers)
                      \/ \E T \in SUBSET Titles : MarkStep(T)
                      \/ \E t, u \in Titles : MergeIdentity(t, u)
                      \/ UnmergeIdentity
  <1>0. ShapeOK /\ PlayersOK /\ SeeksOK /\ RowsOK
    BY DEF ViewingIInv, ProgressOK
  <1> USE <1>0, ViewingAssumption
  <1>1. ASSUME NEW p \in Players, NEW t \in Titles, CheckPlayable(p, t)
        PROVE  Shape
    <2> DEFINE r == [at |-> "checked", title |-> t, gen |-> 0]
    <2>1. r \in PlayerRecords /\ PlanStep(p, r)
      BY <1>1 DEF CheckPlayable, PlanStep, PlayerRecords, States
    <2> QED
      BY <2>1
  <1>2. ASSUME NEW p \in Players, ReadProgress(p)
        PROVE  Shape
    <2> DEFINE t == player[p].title
               r == [player[p] EXCEPT !.at = "created", !.gen = row[t].gen + 1]
    <2>1. t \in Titles /\ row[t].gen \in 0 .. MaxGeneration + 2
      BY <1>2 DEF ReadProgress, PlayersOK, ShapeOK, Rows
    <2>5. row[t].gen + 1 \in 0 .. MaxGeneration + 3
      BY <2>1
    <2>2. r \in PlayerRecords /\ r.at = "created" /\ r.title = t /\ r.gen = row[t].gen + 1
      <3>1. player[p] \in PlayerRecords
        BY ShapeFacts
      <3> HIDE <1>0
      <3> QED
        BY <2>1, <2>5, <3>1 DEF PlayerRecords, States
    <2>3. player' = [player EXCEPT ![p] = r]
      BY <1>2 DEF ReadProgress, ShapeOK
    <2> HIDE DEF r
    <2>6. r.gen \in Nat /\ 1 <= r.gen /\ r.gen <= row[r.title].gen + 1
      BY <2>1, <2>2
    <2>4. PlanStep(p, r)
      BY <1>2, <2>1, <2>2, <2>3, <2>6 DEF ReadProgress, PlanStep
    <2> QED
      BY <2>2, <2>4
  <1>3. ASSUME NEW p \in Players, BeginPlayback(p)
        PROVE  Shape
    <2> DEFINE t == player[p].title
               r == [at |-> "refused", title |-> t, gen |-> player[p].gen]
    <2>1. t \in Titles
      BY <1>3 DEF BeginPlayback, PlayersOK
    <2>2. CASE Admits(t, player[p].gen - 1)
      <3>1. player[p].gen = row[t].gen + 1
        BY <2>1, <2>2, ShapeFacts DEF Admits
      <3>2. TakeStep(p)
        BY <1>3, <2>1, <2>2, <3>1 DEF BeginPlayback, TakeStep
      <3> QED
        BY <3>2
    <2>3. CASE ~Admits(t, player[p].gen - 1)
      <3>1. r \in PlayerRecords
        BY <2>1 DEF ShapeOK, PlayerRecords, States
      <3>2. player' = [player EXCEPT ![p] = r]
        BY <1>3, <2>3 DEF BeginPlayback, ShapeOK, PlayerRecords
      <3>3. PlanStep(p, r)
        BY <1>3, <2>1, <2>3, <3>2 DEF BeginPlayback, PlanStep
      <3> QED
        BY <3>1, <3>3
    <2> QED
      BY <2>2, <2>3
  <1>4. ASSUME NEW p \in Players, NEW n \in 1 .. MaxSent, NEW completed \in BOOLEAN,
               player[p].at = "playing", RecordPlaybackProgress(p, n, completed), UNCHANGED <<player, merge, original>>
        PROVE  Shape
    <2>1. player[p].title \in Titles
      BY <1>4 DEF PlayersOK
    <2> QED
      BY <1>4, <2>1, ReportShape
  <1>5. ASSUME NEW p \in Players, NEW n \in 1 .. MaxSent, Heartbeat(p, n)
        PROVE  Shape
    <2>1. Completes(n) \in BOOLEAN
      BY DEF Completes
    <2> QED
      BY <1>4, <1>5, <2>1 DEF Heartbeat
  <1>6. ASSUME NEW p \in Players, NEW n \in 1 .. MaxSent, ReplaceCommits(p, n)
        PROVE  Shape
    BY <1>4, <1>6 DEF ReplaceCommits
  <1>7. ASSUME NEW p \in Players, NEW n \in 1 .. MaxSent, SeekBegins(p, n)
        PROVE  Shape
    BY <1>7 DEF SeekBegins, QuietStep
  <1>8. ASSUME NEW t \in Titles, NEW ok \in BOOLEAN, SeekCommits(t, ok)
        PROVE  Shape
    <2>1. PICK p \in Players, n \in 1 .. MaxSent : seeking[t] = {<<p, n>>} /\ player[p].at = "playing"
      BY <1>8 DEF SeekCommits, SeeksOK, SeekOf
    <2>2. CASE ok
      <3>1. RecordPlaybackProgress(p, n, Completes(n)) /\ UNCHANGED <<player, merge, original>>
        BY <1>8, <2>1, <2>2 DEF SeekCommits
      <3>2. Completes(n) \in BOOLEAN
        BY DEF Completes
      <3> QED
        BY <1>4, <2>1, <3>1, <3>2
    <2>3. CASE ~ok
      BY <1>8, <2>3 DEF SeekCommits, QuietStep
    <2> QED
      BY <2>2, <2>3
  <1>9. ASSUME NEW T \in SUBSET Titles, NEW watched \in BOOLEAN, SetWatched(T, watched)
        PROVE  Shape
    <2>1. row' \in [Titles -> Rows]
      BY <1>9, MarkedRows, ShapeFacts DEF SetWatched
    <2>2. ASSUME NEW t \in T
          PROVE  row'[t].gen = row[t].gen + 1 /\ row'[t].exists /\ row'[t].position = NoPosition
      <3>1. row[t] \in Rows /\ row[t].gen < MaxGeneration
        BY <1>9, ShapeFacts DEF SetWatched
      <3> QED
        BY <1>9, <3>1 DEF SetWatched, Rows
    <2>3. MarkStep(T)
      BY <1>9, <2>1, <2>2 DEF SetWatched, MarkStep
    <2> QED
      BY <2>3
  <1>10. ASSUME NEW t \in Titles, NEW g \in 0 .. MaxGeneration, RecordProgress(t, g)
         PROVE  Shape
    <2> DEFINE r == [row[t] EXCEPT !.exists = TRUE, !.gen = @ + 1, !.obs = 0, !.completed = FALSE,
                                   !.position = NoPosition, !.cid = IF g = 0 THEN @ ELSE 0]
    <2>0. r \in Rows /\ r.gen = row[t].gen + 1 /\ r.exists /\ r.position = NoPosition
      <3>1. row[t] \in Rows /\ row[t].gen < MaxGeneration
        BY <1>10, ShapeFacts DEF RecordProgress
      <3> QED
        BY <3>1, MarkedRows, Zenon
    <2>4. row' = [row EXCEPT ![t] = r]
      BY <1>10, Zenon DEF RecordProgress
    <2> HIDE DEF r
    <2>1. row' \in [Titles -> Rows] /\ row'[t] = r /\ \A u \in Titles \ {t} : row'[u] = row[u]
      BY <2>0, <2>4 DEF ShapeOK
    <2>2. latest' = [u \in Titles |-> IF u \in {t} THEN NoPosition ELSE latest[u]]
      BY <1>10 DEF RecordProgress, ShapeOK
    <2>3. MarkStep({t})
      BY <1>10, <2>0, <2>1, <2>2 DEF RecordProgress, MarkStep
    <2> QED
      BY <2>3
  <1>11. CASE UNCHANGED viewingVars
    BY <1>11 DEF viewingVars, QuietStep
  <1> HIDE DEF Shape
  <1>12. ViewingNext => Shape
    BY <1>1, <1>2, <1>3, <1>5, <1>6, <1>7, <1>8, <1>9, <1>10 DEF ViewingNext, Shape
  <1> QED
    BY <1>11, <1>12 DEF Shape

-----------------------------------------------------------------------------
(* Every step keeps the invariant.                                         *)

\* A plan that proceeds or is refused writes nothing and holds nothing.
LEMMA PlanKeeps ==
  ASSUME ProgressOK, NEW p \in Players, NEW r \in PlayerRecords, PlanStep(p, r)
  PROVE  ProgressOK'
  <1>0. ShapeOK /\ RowsOK /\ PlayersOK /\ PositionsOK /\ EventsOK /\ MergeOK /\ RepairReversible /\ ViewerWritesKept
    BY DEF ProgressOK
  <1>1. /\ player' \in [Players -> PlayerRecords] /\ player'[p] = r
        /\ \A q \in Players \ {p} : player'[q] = player[q]
        /\ r.at \in {"checked", "created", "refused"} /\ player[p].at # "playing"
        /\ UNCHANGED <<row, merge, events, latest, original>>
    BY <1>0 DEF PlanStep, ShapeOK
  <1>2. \A q \in Players : (player'[q].at = "playing" <=> player[q].at = "playing")
                           /\ (player[q].at = "playing" => player'[q] = player[q])
    BY <1>1
  <1>3. ShapeOK'
    BY <1>0, <1>1 DEF ShapeOK, Snapshots, Rows, Positions, PlayerRecords
  <1>4. RowsOK' /\ RepairReversible' /\ ViewerWritesKept'
    BY <1>0, <1>1 DEF RowsOK, Repairs, RepairReversible, ViewerWritesKept
  <1>5. PlayersOK'
    BY <1>0, <1>1, <1>2 DEF PlanStep, PlayersOK
  <1>6. PositionsOK'
    BY <1>0, <1>1, <1>2 DEF PositionsOK, Written, Holds
  <1>7. EventsOK'
    <2>1. \A i \in 1 .. Len(events) : events[i].by \in Players
      BY <1>0, ShapeFacts
    <2> QED
      BY <1>0, <1>1, <1>2, <2>1 DEF EventsOK, Holds
  <1>8. MergeOK'
    BY <1>0, <1>1, <1>2 DEF MergeOK
  <1> QED
    BY <1>3, <1>4, <1>5, <1>6, <1>7, <1>8 DEF ProgressOK

\* The row, the playback and the viewer's last position after a take-over.
LEMMA TakeEffect ==
  ASSUME ShapeOK, NEW p \in Players, TakeStep(p)
  PROVE  LET t == player[p].title IN
         /\ t \in Titles /\ row[t].gen < MaxGeneration /\ player[p].gen = row[t].gen + 1
         /\ row' \in [Titles -> Rows] /\ \A u \in Titles \ {t} : row'[u] = row[u]
         /\ row'[t].exists /\ row'[t].gen = row[t].gen + 1 /\ row'[t].obs = 0 /\ row'[t].cid = 0
         /\ row'[t].position = row[t].position
         /\ player' \in [Players -> PlayerRecords] /\ \A q \in Players \ {p} : player'[q] = player[q]
         /\ player'[p].at = "playing" /\ player'[p].title = t /\ player'[p].gen = player[p].gen
         /\ latest' \in [Titles -> Positions \cup {Untouched}] /\ latest'[t] = row[t].position
         /\ \A u \in Titles \ {t} : latest'[u] = latest[u]
         /\ player[p].at = "created" /\ UNCHANGED <<merge, events, original>>
  <1> DEFINE t == player[p].title
             r == [row[t] EXCEPT !.exists = TRUE, !.gen = @ + 1, !.obs = 0, !.cid = 0]
             q == [player[p] EXCEPT !.at = "playing"]
  <1>1. t \in Titles /\ row[t].gen < MaxGeneration /\ player[p].gen = row[t].gen + 1 /\ player[p].at = "created"
    BY DEF TakeStep
  <1>2. row[t] \in Rows /\ row[t].position \in Positions /\ row[t].gen + 1 \in 0 .. MaxGeneration + 2
    BY <1>1, ViewingAssumption, ShapeFacts
  <1>3. /\ r \in Rows /\ r.exists /\ r.gen = row[t].gen + 1 /\ r.obs = 0 /\ r.cid = 0
        /\ r.position = row[t].position
    BY <1>2 DEF Rows
  <1>4. q \in PlayerRecords /\ q.at = "playing" /\ q.title = t /\ q.gen = player[p].gen
    BY ShapeFacts DEF PlayerRecords, States
  <1>5. row' = [row EXCEPT ![t] = r]
    BY Zenon DEF TakeStep
  <1>6. player' = [player EXCEPT ![p] = q]
    BY DEF TakeStep
  <1>7. latest' = [latest EXCEPT ![t] = row[t].position] /\ UNCHANGED <<merge, events, original>>
    BY DEF TakeStep
  <1> HIDE DEF r, q
  <1>8. row' \in [Titles -> Rows] /\ row'[t] = r /\ \A u \in Titles \ {t} : row'[u] = row[u]
    BY <1>1, <1>3, <1>5 DEF ShapeOK
  <1>9. player' \in [Players -> PlayerRecords] /\ player'[p] = q /\ \A u \in Players \ {p} : player'[u] = player[u]
    BY <1>4, <1>6 DEF ShapeOK
  <1>10. /\ latest' \in [Titles -> Positions \cup {Untouched}] /\ latest'[t] = row[t].position
         /\ \A u \in Titles \ {t} : latest'[u] = latest[u]
    BY <1>1, <1>2, <1>7 DEF ShapeOK
  <1> QED
    BY <1>1, <1>3, <1>4, <1>7, <1>8, <1>9, <1>10

\* A take-over starts a generation nobody else has.
LEMMA TakeKeeps ==
  ASSUME ProgressOK, NEW p \in Players, TakeStep(p)
  PROVE  ProgressOK'
  <1>0. ShapeOK /\ RowsOK /\ PlayersOK /\ PositionsOK /\ EventsOK /\ MergeOK /\ RepairReversible /\ ViewerWritesKept
    BY DEF ProgressOK
  <1> DEFINE t == player[p].title
  <1>1. /\ t \in Titles /\ row[t].gen < MaxGeneration /\ player[p].gen = row[t].gen + 1
        /\ row' \in [Titles -> Rows] /\ \A u \in Titles \ {t} : row'[u] = row[u]
        /\ row'[t].exists /\ row'[t].gen = row[t].gen + 1 /\ row'[t].obs = 0 /\ row'[t].cid = 0
        /\ row'[t].position = row[t].position
        /\ player' \in [Players -> PlayerRecords] /\ \A q \in Players \ {p} : player'[q] = player[q]
        /\ player'[p].at = "playing" /\ player'[p].title = t /\ player'[p].gen = player[p].gen
        /\ latest' \in [Titles -> Positions \cup {Untouched}] /\ latest'[t] = row[t].position
        /\ \A u \in Titles \ {t} : latest'[u] = latest[u]
        /\ player[p].at = "created" /\ UNCHANGED <<merge, events, original>>
    BY <1>0, TakeEffect
  <1>2. /\ \A u \in Titles : row[u].gen \in Nat /\ row[u].obs \in Nat
        /\ \A u \in Titles : row[u].position \in Positions /\ row[u].position.n \in Nat
        /\ \A q \in Players : player[q].gen \in Nat
    BY <1>0, ShapeFacts
  <1> HIDE DEF t
  <1>3. ShapeOK'
    BY <1>0, <1>1 DEF ShapeOK, Snapshots, Rows, Positions, PlayerRecords
  <1>4. RowsOK'
    BY <1>0, <1>1, <1>2, ViewingAssumption DEF RowsOK, Repairs, ShapeOK
  <1>5. RepairReversible' /\ ViewerWritesKept'
    <2>1. latest'[t] # Untouched
      BY <1>0, <1>1, <1>2, ShapeFacts
    <2> QED
      BY <1>0, <1>1, <2>1 DEF RepairReversible, ViewerWritesKept
  <1>6. PlayersOK'
    <2>1. \A q \in Players \ {p} : player[q].at = "playing" /\ player[q].title = t => player[q].gen <= row[t].gen
      BY <1>0 DEF PlayersOK
    <2>2. \A q \in Players :
            /\ player'[q].at # "none" => player'[q].title \in Titles
            /\ player'[q].at = "created" => 1 <= player'[q].gen /\ player'[q].gen <= row'[player'[q].title].gen + 1
            /\ player'[q].at = "playing" => 1 <= player'[q].gen /\ player'[q].gen <= row'[player'[q].title].gen
      <3> SUFFICES ASSUME NEW q \in Players
          PROVE /\ player'[q].at # "none" => player'[q].title \in Titles
                /\ player'[q].at = "created" => 1 <= player'[q].gen /\ player'[q].gen <= row'[player'[q].title].gen + 1
                /\ player'[q].at = "playing" => 1 <= player'[q].gen /\ player'[q].gen <= row'[player'[q].title].gen
        OBVIOUS
      <3>1. CASE q = p
        BY <1>1, <1>2, <3>1
      <3>2. CASE q # p
        BY <1>0, <1>1, <1>2, <3>2 DEF PlayersOK
      <3> QED
        BY <3>1, <3>2
    <2>3. \A q, u \in Players : player'[q].at = "playing" /\ player'[u].at = "playing"
            /\ player'[q].title = player'[u].title /\ player'[q].gen = player'[u].gen => q = u
      BY <1>0, <1>1, <1>2, <2>1 DEF PlayersOK
    <2> QED
      BY <2>2, <2>3 DEF PlayersOK
  <1>7. \A q \in Players, u \in Titles : Holds(q, u)' => (q = p /\ u = t) \/ (q # p /\ u # t /\ Holds(q, u))
    BY <1>0, <1>1, <1>2 DEF Holds, PlayersOK
  <1>8. PositionsOK'
    <2>1. \A u \in Titles : row'[u].position = row[u].position
      BY <1>1
    <2>2. \A position : Written(position) => Written(position)'
      BY <1>1 DEF Written
    <2>3. \A u \in Titles : row[u].position.by # p
      BY <1>0, <1>1 DEF PositionsOK, Written
    <2>4. ASSUME NEW u \in Titles, NEW q \in Players, Holds(q, u)', row'[u].position.by = q
          PROVE  row'[u].position.n <= row'[u].obs
      BY <1>0, <1>1, <1>7, <2>1, <2>3, <2>4 DEF PositionsOK
    <2>5. (\A u \in Titles : Written(row[u].position))' /\ (\A b \in merge.before : Written(b.row.position))'
      BY <1>0, <1>1, <2>1, <2>2 DEF PositionsOK, Written
    <2> QED
      BY <2>4, <2>5 DEF PositionsOK
  <1>9. EventsOK'
    <2>1. \A i \in 1 .. Len(events) : events[i].by \in Players /\ events[i].by # p
      BY <1>0, <1>1, ShapeFacts DEF EventsOK
    <2> QED
      BY <1>0, <1>1, <1>7, <2>1 DEF EventsOK
  <1>10. MergeOK'
    <2> SUFFICES ASSUME merge.state = "active" PROVE MergeOK'
      BY <1>1 DEF MergeOK
    <2>1. ASSUME NEW s \in merge.after
          PROVE  /\ s.row.gen <= row'[s.title].gen
                 /\ latest'[s.title] # Untouched => s.row.gen < row'[s.title].gen
                 /\ \A q \in Players : player'[q].at = "playing" /\ player'[q].title = s.title => player'[q].gen # s.row.gen
      <3>1. s.title \in Titles /\ s.row.gen \in Nat
        BY <1>0, ShapeFacts
      <3>2. s.row.gen <= row[s.title].gen
        BY <1>0 DEF MergeOK
      <3>3. CASE s.title = t
        BY <1>0, <1>1, <1>2, <3>1, <3>2, <3>3 DEF MergeOK
      <3>4. CASE s.title # t
        BY <1>0, <1>1, <1>2, <3>1, <3>2, <3>4 DEF MergeOK
      <3> QED
        BY <3>3, <3>4
    <2>2. latest'[t] # Untouched
      BY <1>0, <1>1, <1>2, ShapeFacts
    <2> QED
      BY <1>0, <1>1, <2>1, <2>2 DEF MergeOK
  <1> QED
    BY <1>3, <1>4, <1>5, <1>6, <1>8, <1>9, <1>10 DEF ProgressOK

\* The row and the viewer's last position after an accepted report.
LEMMA ReportEffect ==
  ASSUME ShapeOK, NEW p \in Players, NEW t \in Titles, NEW obs \in 0 .. MaxSent, NEW completed \in BOOLEAN,
         ReportStep(p, t, obs, completed)
  PROVE  /\ row' \in [Titles -> Rows] /\ \A u \in Titles \ {t} : row'[u] = row[u]
         /\ row[t].exists /\ row'[t].exists = row[t].exists /\ row'[t].gen = row[t].gen
         /\ row'[t].position = [by |-> p, n |-> obs] /\ [by |-> p, n |-> obs] \in Positions
         /\ row'[t].cid = CompletionId(row[t], completed)
         /\ row'[t].obs = IF obs = 0 THEN row[t].obs + 1 ELSE obs
         /\ latest' \in [Titles -> Positions \cup {Untouched}] /\ latest'[t] = [by |-> p, n |-> obs]
         /\ \A u \in Titles \ {t} : latest'[u] = latest[u]
         /\ UNCHANGED <<player, merge, original>> /\ Holds(p, t) /\ (obs = 0 \/ row[t].obs < obs)
  <1> DEFINE next == Updated(row[t], p, obs, completed)
  <1>1. [by |-> p, n |-> obs] \in Positions
    BY DEF Positions
  <1>2. /\ row[t] \in Rows /\ CompletedAfter(row[t], completed) \in BOOLEAN /\ CompletionId(row[t], completed) \in Nat
        /\ (IF obs = 0 THEN row[t].obs + 1 ELSE obs) \in Nat
    <2>1. row[t] \in Rows /\ row[t].obs \in Nat /\ row[t].cid \in Nat
      BY ShapeFacts
    <2>2. row[t].completed \in BOOLEAN
      BY <2>1 DEF Rows
    <2>3. Len(events) \in Nat
      BY DEF ShapeOK
    <2>4. CompletedAfter(row[t], completed) \in BOOLEAN
      BY <2>2 DEF CompletedAfter
    <2>5. CompletionId(row[t], completed) \in Nat
      BY <2>1, <2>3 DEF CompletionId
    <2> QED
      BY <2>1, <2>4, <2>5
  <1>3. /\ next \in Rows /\ next.exists = row[t].exists /\ next.gen = row[t].gen
        /\ next.position = [by |-> p, n |-> obs] /\ next.cid = CompletionId(row[t], completed)
        /\ next.obs = IF obs = 0 THEN row[t].obs + 1 ELSE obs
    BY <1>1, <1>2 DEF Updated, Rows
  <1>4. row' = [row EXCEPT ![t] = next] /\ latest' = [latest EXCEPT ![t] = next.position]
    BY DEF ReportStep
  <1>5. UNCHANGED <<player, merge, original>> /\ Holds(p, t) /\ row[t].exists /\ (obs = 0 \/ row[t].obs < obs)
    BY DEF ReportStep
  <1> HIDE DEF next
  <1>6. row' \in [Titles -> Rows] /\ row'[t] = next /\ \A u \in Titles \ {t} : row'[u] = row[u]
    BY <1>3, <1>4 DEF ShapeOK
  <1>7. /\ latest' \in [Titles -> Positions \cup {Untouched}] /\ latest'[t] = [by |-> p, n |-> obs]
        /\ \A u \in Titles \ {t} : latest'[u] = latest[u]
    BY <1>1, <1>3, <1>4 DEF ShapeOK
  <1> QED
    BY <1>1, <1>3, <1>5, <1>6, <1>7

\* A report leaves the history alone, or it is the first completed one of a
\* generation and of its playback.
LEMMA ReportEvents ==
  ASSUME ShapeOK, EventsOK, NEW p \in Players, NEW t \in Titles, NEW obs \in 0 .. MaxSent, NEW completed \in BOOLEAN,
         ReportStep(p, t, obs, completed)
  PROVE  \/ events' = events /\ row'[t].cid = row[t].cid
         \/ /\ row'[t].cid = Len(events) + 1 /\ \A i \in 1 .. Len(events) : events[i].by # p
            /\ events' = Append(events, [title |-> t, source |-> Len(events) + 1, by |-> p])
  <1>8. row'[t] = Updated(row[t], p, obs, completed)
    BY DEF ReportStep, ShapeOK
  <1>7. Holds(p, t)
    BY DEF ReportStep
  <1> DEFINE cid == CompletionId(row[t], completed)
             Known == \E i \in 1 .. Len(events) : events[i].title = t /\ events[i].source = cid
  <1>2. Updated(row[t], p, obs, completed).cid = cid
    BY ShapeFacts DEF Updated, Rows
  <1>1. row'[t].cid = cid
    BY <1>2, <1>8
  <1>3. events' = IF completed /\ ~Known THEN Append(events, [title |-> t, source |-> cid, by |-> p]) ELSE events
    BY <1>2 DEF ReportStep, RecordedEvents
  <1>4. CASE ~completed
    BY <1>1, <1>3, <1>4 DEF CompletionId
  <1>5. CASE completed /\ row[t].cid # 0
    <2>1. Known /\ cid = row[t].cid
      BY <1>5, <1>7 DEF EventsOK, CompletionId
    <2> QED
      BY <1>1, <1>3, <2>1
  <1>6. CASE completed /\ row[t].cid = 0
    <2>1. cid = Len(events) + 1 /\ Len(events) \in Nat
      BY <1>6 DEF CompletionId, ShapeOK
    <2>2. \A i \in 1 .. Len(events) : events[i].source \in Nat /\ events[i].source <= Len(events)
      BY ShapeFacts DEF EventsOK
    <2>3. ~Known
      BY <2>1, <2>2
    <2>4. \A i \in 1 .. Len(events) : events[i].by # p
      BY <1>6, <1>7 DEF EventsOK
    <2> QED
      BY <1>1, <1>3, <1>6, <2>1, <2>3, <2>4
  <1> QED
    BY <1>4, <1>5, <1>6

\* An accepted report is the holder's, newer than the position it replaces, and
\* completes the title at most once.
LEMMA ReportKeeps ==
  ASSUME ProgressOK, NEW p \in Players, NEW t \in Titles, NEW obs \in 0 .. MaxSent, NEW completed \in BOOLEAN,
         ReportStep(p, t, obs, completed), obs = 0 <=> p \notin NumberedPlayers
  PROVE  ProgressOK'
  <1>0. ShapeOK /\ RowsOK /\ PlayersOK /\ PositionsOK /\ EventsOK /\ MergeOK /\ RepairReversible /\ ViewerWritesKept
    BY DEF ProgressOK
  <1>1. /\ row' \in [Titles -> Rows] /\ \A u \in Titles \ {t} : row'[u] = row[u]
        /\ row[t].exists /\ row'[t].exists = row[t].exists /\ row'[t].gen = row[t].gen
        /\ row'[t].position = [by |-> p, n |-> obs] /\ [by |-> p, n |-> obs] \in Positions
        /\ row'[t].obs = IF obs = 0 THEN row[t].obs + 1 ELSE obs
        /\ latest' \in [Titles -> Positions \cup {Untouched}] /\ latest'[t] = [by |-> p, n |-> obs]
        /\ \A u \in Titles \ {t} : latest'[u] = latest[u]
        /\ UNCHANGED <<player, merge, original>> /\ Holds(p, t) /\ (obs = 0 \/ row[t].obs < obs)
    BY <1>0, ReportEffect
  <1>2. \/ events' = events /\ row'[t].cid = row[t].cid
        \/ /\ row'[t].cid = Len(events) + 1 /\ \A i \in 1 .. Len(events) : events[i].by # p
           /\ events' = Append(events, [title |-> t, source |-> Len(events) + 1, by |-> p])
    BY <1>0, ReportEvents
  <1>3. /\ \A u \in Titles : row[u].gen \in Nat /\ row[u].obs \in Nat /\ row[u].cid \in Nat
        /\ latest'[t] # Untouched /\ events \in Seq([title : Titles, source : Nat, by : Players])
    BY <1>0, <1>1, ShapeFacts DEF ShapeOK
  <1>4. \A u \in Titles : row'[u].gen = row[u].gen
    BY <1>1
  <1>5. ShapeOK'
    <2>1. events' \in Seq([title : Titles, source : Nat, by : Players])
      <3> DEFINE S == [title : Titles, source : Nat, by : Players]
                 x == [title |-> t, source |-> Len(events) + 1, by |-> p]
      <3>1. x \in S /\ events \in Seq(S) /\ (events' = events \/ events' = Append(events, x))
        BY <1>2, <1>3
      <3> HIDE DEF S, x
      <3>2. events' \in Seq(S)
        BY <3>1
      <3> QED
        BY <3>2 DEF S
    <2> QED
      BY <1>0, <1>1, <2>1 DEF ShapeOK, Snapshots, Rows, Positions, PlayerRecords
  <1>6. RowsOK'
    BY <1>0, <1>1, <1>4 DEF RowsOK, Repairs
  <1>7. PlayersOK'
    BY <1>0, <1>1, <1>4 DEF PlayersOK
  <1>8. \A q \in Players, u \in Titles : Holds(q, u)' <=> Holds(q, u)
    BY <1>1, <1>4 DEF Holds
  <1>9. PositionsOK'
    <2>1. Written([by |-> p, n |-> obs])'
      BY <1>1 DEF Written, Holds
    <2>2. (\A u \in Titles : Written(row[u].position))' /\ (\A b \in merge.before : Written(b.row.position))'
      BY <1>0, <1>1, <2>1 DEF PositionsOK, Written
    <2>3. ASSUME NEW u \in Titles, NEW q \in Players, Holds(q, u)', row'[u].position.by = q
          PROVE  row'[u].position.n <= row'[u].obs
      <3>1. CASE u = t
        BY <1>1, <1>3, <2>3, <3>1
      <3>2. CASE u # t
        BY <1>0, <1>1, <1>8, <2>3, <3>2 DEF PositionsOK
      <3> QED
        BY <3>1, <3>2
    <2> QED
      BY <2>2, <2>3 DEF PositionsOK
  <1>10. EventsOK'
    <2>1. \A q \in Players : Holds(q, t) => q = p
      BY <1>0, <1>1 DEF Holds, PlayersOK
    <2>2. CASE events' = events /\ row'[t].cid = row[t].cid
      BY <1>0, <1>1, <1>8, <2>2 DEF EventsOK
    <2>3. CASE /\ row'[t].cid = Len(events) + 1 /\ \A i \in 1 .. Len(events) : events[i].by # p
               /\ events' = Append(events, [title |-> t, source |-> Len(events) + 1, by |-> p])
      <3>1. /\ Len(events') = Len(events) + 1 /\ Len(events) \in Nat
            /\ \A i \in 1 .. Len(events) : events'[i] = events[i]
            /\ events'[Len(events) + 1] = [title |-> t, source |-> Len(events) + 1, by |-> p]
        BY <1>3, <2>3
      <3>2. \A i \in 1 .. Len(events') : i \in 1 .. Len(events) \/ i = Len(events) + 1
        BY <3>1
      <3>3. \A i \in 1 .. Len(events') : events'[i].source <= Len(events') /\ player'[events'[i].by].at = "playing"
        <4>1. \A i \in 1 .. Len(events) : events[i].source \in Nat /\ events[i].source <= Len(events)
          BY <1>0, ShapeFacts DEF EventsOK
        <4> QED
          BY <1>0, <1>1, <3>1, <3>2, <4>1 DEF EventsOK, Holds
      <3>4. \A i, j \in 1 .. Len(events') : events'[i].by = events'[j].by => i = j
        BY <1>0, <2>3, <3>1, <3>2 DEF EventsOK
      <3>5. ASSUME NEW q \in Players, NEW u \in Titles, Holds(q, u)
            PROVE  /\ row'[u].cid # 0 => \E i \in 1 .. Len(events') : events'[i].title = u /\ events'[i].source = row'[u].cid
                   /\ (\E i \in 1 .. Len(events') : events'[i].by = q) => row'[u].cid # 0
        <4>1. Len(events) + 1 \in 1 .. Len(events') /\ 1 .. Len(events) \subseteq 1 .. Len(events')
          BY <3>1
        <4>2. CASE u = t
          BY <2>3, <3>1, <4>1, <4>2
        <4>3. CASE u # t
          <5>1. q # p
            BY <1>1, <3>5, <4>3 DEF Holds
          <5>2. row'[u].cid = row[u].cid
            BY <1>1, <4>3
          <5>3. row[u].cid # 0 => \E i \in 1 .. Len(events) : events[i].title = u /\ events[i].source = row[u].cid
            BY <1>0, <3>5 DEF EventsOK
          <5>4. (\E i \in 1 .. Len(events') : events'[i].by = q) => row[u].cid # 0
            BY <1>0, <3>1, <3>2, <3>5, <5>1 DEF EventsOK
          <5> QED
            BY <3>1, <4>1, <5>2, <5>3, <5>4
        <4> QED
          BY <4>2, <4>3
      <3> QED
        BY <1>8, <3>3, <3>4, <3>5 DEF EventsOK
    <2> QED
      BY <1>2, <2>2, <2>3
  <1>11. MergeOK'
    <2> SUFFICES ASSUME merge.state = "active" PROVE MergeOK'
      BY <1>1 DEF MergeOK
    <2>1. ASSUME NEW s \in merge.after
          PROVE  /\ s.row.gen <= row'[s.title].gen
                 /\ latest'[s.title] # Untouched => s.row.gen < row'[s.title].gen
      <3>1. s.title \in Titles /\ s.row.gen \in Nat
        BY <1>0, ShapeFacts
      <3>2. s.row.gen <= row[s.title].gen /\ row'[s.title].gen = row[s.title].gen
        BY <1>0, <1>4, <3>1 DEF MergeOK
      <3>3. CASE s.title = t
        BY <1>0, <1>1, <1>3, <3>1, <3>2, <3>3 DEF MergeOK, Holds
      <3>4. CASE s.title # t
        BY <1>0, <1>1, <3>1, <3>2, <3>4 DEF MergeOK
      <3> QED
        BY <3>3, <3>4
    <2>2. \A u \in Titles : latest'[u] = Untouched => latest[u] = Untouched /\ row'[u] = row[u]
      BY <1>1, <1>3
    <2>3. \A u \in Titles : latest'[u] = Untouched =>
            row'[u] = original[u] \/ \E s \in merge.after : s.title = u /\ s.row = row'[u]
      BY <1>0, <2>2 DEF MergeOK
    <2>4. \A s \in merge.after :
            /\ \A q \in Players : player[q].at = "playing" /\ player[q].title = s.title => player[q].gen # s.row.gen
            /\ ~original[s.title].exists \/ \E b \in merge.before : b.title = s.title
      BY <1>0 DEF MergeOK
    <2>5. \A b \in merge.before : b.row = original[b.title]
      BY <1>0 DEF MergeOK
    <2> QED
      BY <1>1, <2>1, <2>3, <2>4, <2>5 DEF MergeOK
  <1>12. RepairReversible' /\ ViewerWritesKept'
    <2>1. RepairReversible'
      BY <1>0, <1>1, <1>3 DEF RepairReversible
    <2>2. ViewerWritesKept'
      BY <1>0, <1>1, <1>3 DEF ViewerWritesKept
    <2> QED
      BY <2>1, <2>2
  <1> QED
    BY <1>5, <1>6, <1>7, <1>9, <1>10, <1>11, <1>12 DEF ProgressOK

\* A mark ends the generation of the titles it sets.
LEMMA MarkKeeps ==
  ASSUME ProgressOK, NEW T \in SUBSET Titles, MarkStep(T)
  PROVE  ProgressOK'
  <1>0. ShapeOK /\ RowsOK /\ PlayersOK /\ PositionsOK /\ EventsOK /\ MergeOK /\ RepairReversible /\ ViewerWritesKept
    BY DEF ProgressOK
  <1>1. /\ row' \in [Titles -> Rows] /\ \A t \in Titles \ T : row'[t] = row[t] /\ latest'[t] = latest[t]
        /\ \A t \in T : /\ row[t].gen < MaxGeneration /\ row'[t].gen = row[t].gen + 1
                        /\ row'[t].exists /\ row'[t].position = NoPosition /\ latest'[t] = NoPosition
        /\ UNCHANGED <<player, merge, events, original>>
    BY DEF MarkStep
  <1>2. /\ \A u \in Titles : row[u].gen \in Nat
        /\ \A q \in Players : player[q].gen \in Nat
        /\ NoPosition # Untouched /\ NoPosition \in Positions /\ NoPosition.by \notin Players
    BY <1>0, ViewingAssumption, ShapeFacts DEF NoPosition, Untouched
  <1>3. ShapeOK'
    <2>1. latest' \in [Titles -> Positions \cup {Untouched}]
      BY <1>0, <1>2 DEF MarkStep, ShapeOK
    <2> QED
      BY <1>0, <1>1, <2>1 DEF ShapeOK, Snapshots, Rows, Positions, PlayerRecords
  <1>4. RowsOK'
    BY <1>0, <1>1, <1>2, ViewingAssumption DEF RowsOK, Repairs, ShapeOK
  <1>5. RepairReversible' /\ ViewerWritesKept'
    BY <1>0, <1>1, <1>2 DEF RepairReversible, ViewerWritesKept
  <1>6. PlayersOK'
    <2>1. \A u \in Titles : row[u].gen <= row'[u].gen /\ row'[u].gen \in Nat
      BY <1>1, <1>2
    <2> QED
      BY <1>0, <1>1, <1>2, <2>1 DEF PlayersOK
  <1>7. \A q \in Players, u \in Titles : Holds(q, u)' => u \notin T /\ Holds(q, u)
    BY <1>0, <1>1, <1>2 DEF Holds, PlayersOK
  <1>8. PositionsOK'
    <2>1. (\A u \in Titles : Written(row[u].position))' /\ (\A b \in merge.before : Written(b.row.position))'
      BY <1>0, <1>1, <1>2 DEF PositionsOK, Written
    <2>2. ASSUME NEW u \in Titles, NEW q \in Players, Holds(q, u)', row'[u].position.by = q
          PROVE  row'[u].position.n <= row'[u].obs
      BY <1>0, <1>1, <1>7, <2>2 DEF PositionsOK
    <2> QED
      BY <2>1, <2>2 DEF PositionsOK
  <1>9. EventsOK'
    BY <1>0, <1>1, <1>7 DEF EventsOK
  <1>10. MergeOK'
    <2> SUFFICES ASSUME merge.state = "active" PROVE MergeOK'
      BY <1>1 DEF MergeOK
    <2>1. ASSUME NEW s \in merge.after
          PROVE  /\ s.row.gen <= row'[s.title].gen
                 /\ latest'[s.title] # Untouched => s.row.gen < row'[s.title].gen
      <3>1. s.title \in Titles /\ s.row.gen \in Nat
        BY <1>0, ShapeFacts
      <3>2. s.row.gen <= row[s.title].gen
        BY <1>0 DEF MergeOK
      <3> QED
        BY <1>0, <1>1, <1>2, <3>1, <3>2 DEF MergeOK
    <2>2. \A u \in Titles : latest'[u] = Untouched =>
            row'[u] = original[u] \/ \E s \in merge.after : s.title = u /\ s.row = row'[u]
      BY <1>0, <1>1, <1>2 DEF MergeOK
    <2> QED
      BY <1>0, <1>1, <2>1, <2>2 DEF MergeOK
  <1> QED
    BY <1>3, <1>4, <1>5, <1>6, <1>8, <1>9, <1>10 DEF ProgressOK

\* Fencing starts a new generation of a row that exists.
LEMMA FencedRow ==
  ASSUME NEW r \in Rows, r.gen <= MaxGeneration
  PROVE  /\ Fenced(r) \in Rows /\ Fenced(r).exists = r.exists /\ Fenced(r).position = r.position
         /\ r.exists => Fenced(r).gen = r.gen + 1
         /\ ~r.exists => Fenced(r) = r
  <1>1. r.gen + 1 \in 0 .. MaxGeneration + 2
    BY ViewingAssumption DEF Rows
  <1> QED
    BY <1>1 DEF Fenced, Rows

\* The rows and snapshots of a merge.
LEMMA MergeEffect ==
  ASSUME ShapeOK, RowsOK, NEW v \in Titles, NEW c \in Titles, MergeIdentity(v, c)
  PROVE  /\ row' \in [Titles -> Rows] /\ \A t \in Titles \ {v, c} : row'[t] = row[t]
         /\ \A t \in {v, c} : /\ row'[t].exists => row[t].gen < row'[t].gen
                              /\ row[t].exists => row'[t].exists
                              /\ ~row'[t].exists => row'[t] = row[t]
                              /\ row'[t].position \in {row[v].position, row[c].position}
                              /\ row'[t].gen <= MaxGeneration + 1
         /\ \A t \in Titles : row[t].gen <= MaxGeneration
         /\ merge' = [state |-> "active", survivor |-> v, source |-> c,
                      before |-> Snapshot(row, v, c), after |-> Snapshot(row', v, c)]
         /\ original' = row /\ latest' = [t \in Titles |-> Untouched] /\ UNCHANGED <<player, events>>
  <1> DEFINE copied == [row EXCEPT ![v] = IF @.exists THEN @ ELSE row[c]]
  <1>1. \A t \in Titles : row[t] \in Rows /\ row[t].gen \in Nat /\ row[t].gen <= MaxGeneration /\ row[t].exists \in BOOLEAN
    <2>1. merge.state = "none"
      BY DEF MergeIdentity
    <2> QED
      BY <2>1, ViewingAssumption, ShapeFacts DEF RowsOK, Repairs
  <1>2. \A t \in Titles : ~row[t].exists => row[t].gen = 0 /\ row[t].position = NoPosition
    BY DEF RowsOK, NoRow
  <1>3. \A t \in Titles : row'[t] = IF t \in {v, c} THEN Fenced(copied[t]) ELSE row[t]
    BY DEF MergeIdentity
  <1>4. copied[v] = (IF row[v].exists THEN row[v] ELSE row[c]) /\ copied[c] = row[c] /\ v # c
    BY DEF ShapeOK, MergeIdentity
  <1> HIDE DEF copied
  <1>5. row'[v] = Fenced(IF row[v].exists THEN row[v] ELSE row[c]) /\ row'[c] = Fenced(row[c])
    BY <1>3, <1>4
  <1>6. DOMAIN row' = Titles /\ row' = [t \in Titles |-> row'[t]]
    BY DEF MergeIdentity
  <1>7. row'[v] \in Rows /\ row'[c] \in Rows
    BY <1>1, <1>5, FencedRow
  <1>8. row' \in [Titles -> Rows]
    BY <1>1, <1>3, <1>6, <1>7
  <1>9. /\ row'[c].exists = row[c].exists /\ row'[c].position = row[c].position
        /\ row[c].exists => row'[c].gen = row[c].gen + 1
        /\ ~row[c].exists => row'[c] = row[c]
    BY <1>1, <1>5, FencedRow
  <1>10. CASE row[v].exists
    <2>1. /\ row'[v].exists = row[v].exists /\ row'[v].position = row[v].position
          /\ row'[v].gen = row[v].gen + 1
      BY <1>1, <1>5, <1>10, FencedRow
    <2>2. \A t \in {v, c} : /\ row'[t].exists => row[t].gen < row'[t].gen
                            /\ row[t].exists => row'[t].exists
                            /\ ~row'[t].exists => row'[t] = row[t]
                            /\ row'[t].position \in {row[v].position, row[c].position}
                            /\ row'[t].gen <= MaxGeneration + 1
      <3>1. row'[v].gen <= MaxGeneration + 1 /\ row[v].gen < row'[v].gen
        BY <1>1, <2>1, ViewingAssumption
      <3>2. row'[c].gen <= MaxGeneration + 1 /\ (row'[c].exists => row[c].gen < row'[c].gen)
        BY <1>1, <1>9, ViewingAssumption
      <3> QED
        BY <1>9, <1>10, <2>1, <3>1, <3>2
    <2> QED
      BY <1>1, <1>3, <1>8, <2>2 DEF MergeIdentity
  <1>11. CASE ~row[v].exists
    <2>1. /\ row'[v].exists = row[c].exists /\ row'[v].position = row[c].position
          /\ row[c].exists => row'[v].gen = row[c].gen + 1
          /\ ~row[c].exists => row'[v] = row[c]
      BY <1>1, <1>5, <1>11, FencedRow
    <2>2. ~row[c].exists => row'[v] = row[v]
      BY <1>11, <2>1 DEF RowsOK
    <2>3. row[v].gen = 0
      BY <1>2, <1>11
    <2>4. \A t \in {v, c} : /\ row'[t].exists => row[t].gen < row'[t].gen
                            /\ row[t].exists => row'[t].exists
                            /\ ~row'[t].exists => row'[t] = row[t]
                            /\ row'[t].position \in {row[v].position, row[c].position}
                            /\ row'[t].gen <= MaxGeneration + 1
      BY <1>1, <1>9, <1>11, <2>1, <2>2, <2>3, ViewingAssumption
    <2> QED
      BY <1>1, <1>3, <1>8, <2>4 DEF MergeIdentity
  <1> QED
    BY <1>10, <1>11

\* A merge fences both titles and remembers the rows before and after.
LEMMA MergeKeeps ==
  ASSUME ProgressOK, NEW v \in Titles, NEW c \in Titles, MergeIdentity(v, c)
  PROVE  ProgressOK'
  <1>0. ShapeOK /\ RowsOK /\ PlayersOK /\ PositionsOK /\ EventsOK
    BY DEF ProgressOK
  <1>1. /\ row' \in [Titles -> Rows] /\ \A t \in Titles \ {v, c} : row'[t] = row[t]
        /\ \A t \in {v, c} : /\ row'[t].exists => row[t].gen < row'[t].gen
                             /\ row[t].exists => row'[t].exists
                             /\ ~row'[t].exists => row'[t] = row[t]
                             /\ row'[t].position \in {row[v].position, row[c].position}
                             /\ row'[t].gen <= MaxGeneration + 1
        /\ \A t \in Titles : row[t].gen <= MaxGeneration
        /\ merge' = [state |-> "active", survivor |-> v, source |-> c,
                     before |-> Snapshot(row, v, c), after |-> Snapshot(row', v, c)]
        /\ original' = row /\ latest' = [t \in Titles |-> Untouched] /\ UNCHANGED <<player, events>>
    BY <1>0, MergeEffect
  <1>2. /\ \A u \in Titles : row[u].gen \in Nat /\ row[u] \in Rows /\ row'[u].gen \in Nat /\ row'[u] \in Rows
        /\ \A q \in Players : player[q].gen \in Nat
    BY <1>0, <1>1, ShapeFacts DEF Rows
  <1>3. /\ merge'.state = "active"
        /\ \A b \in merge'.before : b.title \in {v, c} /\ b.row = row[b.title] /\ row[b.title].exists
        /\ \A s \in merge'.after : s.title \in {v, c} /\ s.row = row'[s.title] /\ row'[s.title].exists
        /\ \A t \in {v, c} : row[t].exists => \E b \in merge'.before : b.title = t
        /\ \A t \in {v, c} : row'[t].exists => \E s \in merge'.after : s.title = t /\ s.row = row'[t]
    <2>1. ASSUME NEW f
          PROVE  /\ \A s \in Snapshot(f, v, c) : s.title \in {v, c} /\ s.row = f[s.title] /\ f[s.title].exists
                 /\ \A t \in {v, c} : f[t].exists => \E s \in Snapshot(f, v, c) : s.title = t /\ s.row = f[t]
      <3>1. \A s \in Snapshot(f, v, c) : s.title \in {v, c} /\ s.row = f[s.title] /\ f[s.title].exists
        BY DEF Snapshot
      <3>2. ASSUME NEW t \in {v, c}, f[t].exists
            PROVE  \E s \in Snapshot(f, v, c) : s.title = t /\ s.row = f[t]
        <4>1. [title |-> t, row |-> f[t]] \in Snapshot(f, v, c)
          BY <3>2 DEF Snapshot
        <4> QED
          BY <4>1
      <3> QED
        BY <3>1, <3>2
    <2>2. merge'.state = "active" /\ merge'.before = Snapshot(row, v, c) /\ merge'.after = Snapshot(row', v, c)
      BY <1>1
    <2>3. /\ \A b \in merge'.before : b.title \in {v, c} /\ b.row = row[b.title] /\ row[b.title].exists
          /\ \A t \in {v, c} : row[t].exists => \E b \in merge'.before : b.title = t /\ b.row = row[t]
      BY <2>1, <2>2
    <2>4. /\ \A s \in merge'.after : s.title \in {v, c} /\ s.row = row'[s.title] /\ row'[s.title].exists
          /\ \A t \in {v, c} : row'[t].exists => \E s \in merge'.after : s.title = t /\ s.row = row'[t]
      BY <2>1, <2>2
    <2> QED
      BY <2>2, <2>3, <2>4
  <1>4. ShapeOK'
    <2>1. Snapshot(row, v, c) \subseteq Snapshots
      BY <1>2 DEF Snapshot, Snapshots
    <2>2. Snapshot(row', v, c) \subseteq Snapshots
      BY <1>2 DEF Snapshot, Snapshots
    <2>3. merge' \in [state : {"none", "active", "unmerged"}, survivor : Titles \cup {Nobody},
                      source : Titles \cup {Nobody}, before : SUBSET Snapshots, after : SUBSET Snapshots]
      BY <1>1, <2>1, <2>2
    <2>4. Snapshots' = Snapshots /\ Rows' = Rows /\ Positions' = Positions /\ PlayerRecords' = PlayerRecords
      BY DEF Snapshots, Rows, Positions, PlayerRecords
    <2>5. /\ original' \in [Titles -> Rows] /\ latest' \in [Titles -> Positions \cup {Untouched}]
          /\ player' \in [Players -> PlayerRecords]
          /\ events' \in Seq([title : Titles, source : Nat, by : Players])
      BY <1>0, <1>1 DEF ShapeOK
    <2> QED
      BY <1>1, <2>3, <2>4, <2>5 DEF ShapeOK
  <1>5. RowsOK'
    <2>1. Repairs' = 1
      BY <1>3 DEF Repairs
    <2>2. \A t \in Titles : row'[t].gen <= MaxGeneration + 1
      BY <1>1, <1>2, ViewingAssumption
    <2>3. \A t \in Titles : ~row'[t].exists => row'[t] = NoRow
      BY <1>0, <1>1 DEF RowsOK
    <2> QED
      BY <1>0, <1>1, <2>1, <2>2, <2>3 DEF RowsOK, NoRow, NoPosition
  <1>6. RepairReversible' /\ ViewerWritesKept'
    BY <1>1, <1>3 DEF RepairReversible, ViewerWritesKept
  <1>7. \A u \in Titles : row[u].gen <= row'[u].gen
    BY <1>1, <1>2
  <1>8. PlayersOK'
    BY <1>0, <1>1, <1>2, <1>7 DEF PlayersOK
  <1>9. \A q \in Players, u \in Titles : player[q].at = "playing" /\ player[q].title = u =>
          player[q].gen <= row[u].gen /\ 1 <= player[q].gen
    BY <1>0 DEF PlayersOK
  <1>10. \A q \in Players, u \in Titles : Holds(q, u)' => u \notin {v, c} /\ Holds(q, u)
    <2> SUFFICES ASSUME NEW q \in Players, NEW u \in Titles, Holds(q, u)' PROVE u \notin {v, c} /\ Holds(q, u)
      OBVIOUS
    <2>1. player[q].gen <= row[u].gen /\ 1 <= player[q].gen /\ player[q].gen = row'[u].gen
      BY <1>1, <1>9 DEF Holds
    <2>2. ~row'[u].exists => row'[u].gen = 0
      BY <1>0, <1>1 DEF RowsOK, NoRow
    <2>3. u \notin {v, c}
      BY <1>1, <1>2, <2>1, <2>2
    <2> QED
      BY <1>1, <2>3 DEF Holds
  <1>11. PositionsOK'
    <2>1. (\A u \in Titles : Written(row[u].position))'
      BY <1>0, <1>1 DEF PositionsOK, Written
    <2>2. (\A b \in merge.before : Written(b.row.position))'
      BY <1>0, <1>1, <1>3 DEF PositionsOK, Written
    <2>3. ASSUME NEW u \in Titles, NEW q \in Players, Holds(q, u)', row'[u].position.by = q
          PROVE  row'[u].position.n <= row'[u].obs
      BY <1>0, <1>1, <1>10, <2>3 DEF PositionsOK
    <2> QED
      BY <2>1, <2>2, <2>3 DEF PositionsOK
  <1>12. EventsOK'
    BY <1>0, <1>1, <1>10 DEF EventsOK
  <1>13. MergeOK'
    <2>1. ASSUME NEW s \in merge'.after
          PROVE  /\ s.row.gen <= row'[s.title].gen
                 /\ latest'[s.title] = Untouched
                 /\ \A p \in Players : player'[p].at = "playing" /\ player'[p].title = s.title => player'[p].gen # s.row.gen
                 /\ ~original'[s.title].exists \/ \E b \in merge'.before : b.title = s.title
      <3>1. s.title \in {v, c} /\ s.row = row'[s.title] /\ row[s.title].gen < s.row.gen
        BY <1>1, <1>3
      <3> QED
        BY <1>1, <1>2, <1>3, <1>9, <3>1
    <2>2. \A b \in merge'.before : b.row = original'[b.title]
      BY <1>1, <1>3
    <2>3. \A t \in Titles : row'[t] = original'[t] \/ \E s \in merge'.after : s.title = t /\ s.row = row'[t]
      BY <1>1, <1>3
    <2> QED
      BY <2>1, <2>2, <2>3 DEF MergeOK
  <1> QED
    BY <1>4, <1>5, <1>6, <1>8, <1>11, <1>12, <1>13 DEF ProgressOK

\* Taking a merge back ends the generation of the rows it puts back, and puts
\* back only those nobody touched.
LEMMA UnmergeKeeps ==
  ASSUME ProgressOK, UnmergeIdentity
  PROVE  ProgressOK'
  <1>0. ShapeOK /\ RowsOK /\ PlayersOK /\ PositionsOK /\ EventsOK /\ MergeOK /\ RepairReversible /\ ViewerWritesKept
    BY DEF ProgressOK
  <1> DEFINE T == {t \in Titles : \E s \in merge.after : Unwritten(s) /\ s.title = t}
             before(t) == {s.row : s \in {b \in merge.before : b.title = t}}
             restored(t) == IF before(t) = {} THEN NoRow ELSE CHOOSE r \in before(t) : TRUE
             back(t) == [exists |-> TRUE, gen |-> row[t].gen + 1, obs |-> 0, completed |-> restored(t).completed,
                         cid |-> restored(t).cid, position |-> restored(t).position]
  <1>1. /\ row' = [t \in Titles |-> IF t \notin T THEN row[t] ELSE back(t)]
        /\ merge.state = "active" /\ merge' = [merge EXCEPT !.state = "unmerged"]
        /\ UNCHANGED <<player, events, latest, original>>
    <2>1. \A t \in Titles : (\A s \in {x \in merge.after : Unwritten(x)} : s.title # t) <=> t \notin T
      OBVIOUS
    <2> QED
      BY <2>1 DEF UnmergeIdentity
  <1>2. ASSUME NEW t \in T
        PROVE  /\ restored(t) \in Rows /\ Written(restored(t).position)
               /\ restored(t).position = original[t].position /\ restored(t).completed = original[t].completed
               /\ latest[t] = Untouched
    <2>1. PICK s \in merge.after : s.title = t /\ row[t] = s.row
      BY DEF Unwritten
    <2>2. latest[t] = Untouched
      <3>1. row[t].gen \in Nat
        BY <1>0, ShapeFacts
      <3> QED
        BY <1>0, <1>1, <2>1, <3>1 DEF MergeOK
    <2>3. CASE before(t) = {}
      <3>4. ~\E b \in merge.before : b.title = t
        BY <2>3
      <3>1. ~original[t].exists
        BY <1>0, <1>1, <2>1, <3>4 DEF MergeOK
      <3>2. restored(t) = NoRow /\ original[t] = NoRow
        BY <1>0, <2>3, <3>1 DEF RowsOK
      <3>3. NoRow \in Rows /\ NoRow.position.by \notin Players
        BY <1>0, ShapeFacts, ViewingAssumption DEF NoRow, NoPosition
      <3> QED
        BY <2>2, <3>2, <3>3 DEF Written
    <2>4. CASE before(t) # {}
      <3>1. restored(t) \in before(t)
        BY <2>4
      <3>2. PICK b \in merge.before : b.title = t /\ restored(t) = b.row
        BY <3>1
      <3>4. b.row = original[t]
        BY <1>0, <1>1, <3>2 DEF MergeOK
      <3>5. b.row \in Rows
        BY <1>0, ShapeFacts
      <3>3. restored(t) = original[t] /\ restored(t) \in Rows
        BY <3>2, <3>4, <3>5
      <3> QED
        BY <1>0, <2>2, <3>2, <3>3 DEF PositionsOK
    <2> QED
      BY <2>3, <2>4
  <1> HIDE DEF restored
  <1>3. ASSUME NEW t \in T
        PROVE  /\ row'[t] \in Rows /\ row'[t].exists /\ row'[t].gen = row[t].gen + 1
               /\ row'[t].position = restored(t).position /\ row'[t].completed = restored(t).completed
    <2>1. row[t].gen \in Nat /\ row[t].gen + 1 \in 0 .. MaxGeneration + 2
      <3>1. row[t].gen \in Nat /\ row[t].gen <= MaxGeneration + 1
        BY <1>0, <1>1, ShapeFacts DEF RowsOK, Repairs
      <3> QED
        BY <3>1, ViewingAssumption
    <2>2. restored(t) \in Rows
      BY <1>2
    <2>3. back(t) \in Rows
      BY <2>1, <2>2 DEF Rows
    <2>4. row'[t] = back(t)
      BY <1>1
    <2> QED
      BY <2>3, <2>4
  <1> HIDE DEF back, before
  <1>4. \A t \in Titles \ T : row'[t] = row[t]
    BY <1>1
  <1> HIDE DEF T
  <1>5. T \subseteq Titles /\ \A s \in merge.after : s.row = row[s.title] => s.title \in T
    BY <1>0, ShapeFacts DEF T, Unwritten
  <1>6. /\ \A u \in Titles : row[u].gen \in Nat /\ row'[u].gen \in Nat /\ row[u].gen <= row'[u].gen
        /\ \A q \in Players : player[q].gen \in Nat
    BY <1>0, <1>3, <1>4, ShapeFacts
  <1>7. /\ merge'.state = "unmerged" /\ merge'.before = merge.before
        /\ merge' \in [state : {"none", "active", "unmerged"}, survivor : Titles \cup {Nobody},
                       source : Titles \cup {Nobody}, before : SUBSET Snapshots, after : SUBSET Snapshots]
    BY <1>0, <1>1 DEF ShapeOK
  <1>8. ShapeOK'
    <2>1. row' \in [Titles -> Rows]
      <3>1. \A t \in Titles : row'[t] \in Rows
        BY <1>0, <1>3, <1>4, ShapeFacts
      <3>2. row' = [t \in Titles |-> row'[t]]
        BY <1>1
      <3> QED
        BY <3>1, <3>2
    <2>2. Snapshots' = Snapshots /\ Rows' = Rows /\ Positions' = Positions /\ PlayerRecords' = PlayerRecords
      BY DEF Snapshots, Rows, Positions, PlayerRecords
    <2> QED
      BY <1>0, <1>1, <1>7, <2>1, <2>2 DEF ShapeOK
  <1>9. RowsOK'
    <2>1. Repairs = 1 /\ Repairs' = 2
      BY <1>1, <1>7 DEF Repairs
    <2>2. \A t \in Titles : row'[t].gen <= MaxGeneration + 2
      <3>1. \A t \in Titles : row[t].gen <= MaxGeneration + 1
        BY <1>0, <2>1 DEF RowsOK
      <3> QED
        BY <1>3, <1>4, <1>6, <3>1, ViewingAssumption
    <2>3. \A t \in Titles : ~row'[t].exists => row'[t] = NoRow
      BY <1>0, <1>3, <1>4 DEF RowsOK
    <2> QED
      BY <1>0, <1>1, <2>1, <2>2, <2>3 DEF RowsOK, NoRow, NoPosition
  <1>10. PlayersOK'
    BY <1>0, <1>1, <1>6 DEF PlayersOK
  <1>11. \A q \in Players, u \in Titles : Holds(q, u)' => u \notin T /\ Holds(q, u)
    <2> SUFFICES ASSUME NEW q \in Players, NEW u \in Titles, Holds(q, u)' PROVE u \notin T /\ Holds(q, u)
      OBVIOUS
    <2>1. player[q].gen <= row[u].gen /\ player[q].gen = row'[u].gen
      BY <1>0, <1>1 DEF Holds, PlayersOK
    <2>2. u \notin T
      BY <1>3, <1>6, <2>1
    <2> QED
      BY <1>1, <1>4, <2>2 DEF Holds
  <1>12. PositionsOK'
    <2>1. (\A u \in Titles : Written(row[u].position))' /\ (\A b \in merge.before : Written(b.row.position))'
      <3>1. ASSUME NEW u \in Titles PROVE Written(row'[u].position)
        BY <1>0, <1>2, <1>3, <1>4 DEF PositionsOK
      <3>2. \A b \in merge.before : Written(b.row.position)
        BY <1>0 DEF PositionsOK
      <3> QED
        BY <1>1, <1>7, <3>1, <3>2 DEF Written
    <2>2. ASSUME NEW u \in Titles, NEW q \in Players, Holds(q, u)', row'[u].position.by = q
          PROVE  row'[u].position.n <= row'[u].obs
      BY <1>0, <1>4, <1>11, <2>2 DEF PositionsOK
    <2> QED
      BY <2>1, <2>2 DEF PositionsOK
  <1>13. EventsOK'
    BY <1>0, <1>1, <1>4, <1>11 DEF EventsOK
  <1>14. MergeOK'
    BY <1>7 DEF MergeOK
  <1>15. ViewerWritesKept'
    BY <1>0, <1>1, <1>2, <1>4 DEF ViewerWritesKept
  <1>16. RepairReversible'
    <2> SUFFICES ASSUME NEW t \in Titles, latest[t] = Untouched
                 PROVE  row'[t].position = original[t].position /\ row'[t].completed = original[t].completed
      BY <1>1 DEF RepairReversible
    <2>1. CASE t \in T
      BY <1>2, <1>3, <2>1
    <2>2. CASE t \notin T
      <3>1. row[t] = original[t]
        BY <1>0, <1>1, <1>5, <2>2 DEF MergeOK
      <3> QED
        BY <1>4, <2>2, <3>1
    <2> QED
      BY <2>1, <2>2
  <1> QED
    BY <1>8, <1>9, <1>10, <1>12, <1>13, <1>14, <1>15, <1>16 DEF ProgressOK

\* A seek that begins or a report that comes too late changes nothing of this.
LEMMA QuietKeeps ==
  ASSUME ProgressOK, QuietStep
  PROVE  ProgressOK'
  <1>0. ShapeOK /\ RowsOK /\ PlayersOK /\ PositionsOK /\ EventsOK /\ MergeOK /\ RepairReversible /\ ViewerWritesKept
    BY DEF ProgressOK
  <1>1. UNCHANGED <<row, player, merge, events, latest, original>>
    BY DEF QuietStep
  <1>2. ShapeOK'
    BY <1>0, <1>1 DEF ShapeOK, Snapshots, Rows, Positions, PlayerRecords
  <1>3. RowsOK' /\ PlayersOK'
    BY <1>0, <1>1 DEF RowsOK, Repairs, PlayersOK
  <1>4. PositionsOK' /\ EventsOK'
    BY <1>0, <1>1 DEF PositionsOK, EventsOK, Written, Holds
  <1>5. MergeOK' /\ RepairReversible' /\ ViewerWritesKept'
    BY <1>0, <1>1 DEF MergeOK, RepairReversible, ViewerWritesKept
  <1> QED
    BY <1>2, <1>3, <1>4, <1>5 DEF ProgressOK

\* The lock of a title is held by a seek of a playback of that title.
LEMMA SeeksKeep ==
  ASSUME ViewingIInv, [ViewingNext]_viewingVars
  PROVE  SeeksOK'
  <1>0. ShapeOK /\ SeeksOK /\ PlayersOK
    BY DEF ViewingIInv, ProgressOK
  <1>1. \A q \in Players : player[q].at = "playing" => player'[q].at = "playing" /\ player'[q].title = player[q].title
    <2> SUFFICES ASSUME NEW q \in Players, player[q].at = "playing"
                 PROVE  player'[q].at = "playing" /\ player'[q].title = player[q].title
      OBVIOUS
    <2>1. CASE player' = player
      BY <2>1
    <2>2. ASSUME NEW p \in Players, NEW r \in PlayerRecords, PlanStep(p, r)
          PROVE  player'[q] = player[q]
      BY <1>0, <2>2 DEF PlanStep, ShapeOK
    <2>3. ASSUME NEW p \in Players, TakeStep(p)
          PROVE  player'[q] = player[q]
      BY <1>0, <2>3, TakeEffect
    <2> QED
      BY <2>1, <2>2, <2>3, StepShapes DEF QuietStep, ReportStep, MarkStep, MergeIdentity, UnmergeIdentity
  <1>2. \A t \in Titles : \A s : SeekOf(t, s) => SeekOf(t, s)'
    BY <1>1 DEF SeekOf
  <1>3. CASE seeking' = seeking
    BY <1>0, <1>2, <1>3 DEF SeeksOK
  <1>4. ASSUME NEW t \in Titles, NEW s \in SUBSET (Players \X (1 .. MaxSent)),
               seeking' = [seeking EXCEPT ![t] = s], SeekOf(t, s)
        PROVE  SeeksOK'
    <2>1. seeking' \in [Titles -> SUBSET (Players \X (1 .. MaxSent))]
      BY <1>0, <1>4 DEF SeeksOK
    <2>2. \A u \in Titles : seeking'[u] = IF u = t THEN s ELSE seeking[u]
      BY <1>0, <1>4 DEF SeeksOK
    <2>3. \A u \in Titles : SeekOf(u, seeking'[u])
      BY <1>0, <1>4, <2>2 DEF SeeksOK
    <2>4. (\A u \in Titles : SeekOf(u, seeking[u]))'
      BY <1>2, <2>3
    <2> QED
      BY <2>1, <2>4 DEF SeeksOK
  <1>5. ASSUME NEW p \in Players, NEW n \in 1 .. MaxSent, SeekBegins(p, n)
        PROVE  SeeksOK'
    <2>1. player[p].title \in Titles /\ player[p].at = "playing"
      BY <1>0, <1>5 DEF SeekBegins, PlayersOK
    <2>2. SeekOf(player[p].title, {<<p, n>>}) /\ {<<p, n>>} \in SUBSET (Players \X (1 .. MaxSent))
      BY <2>1 DEF SeekOf
    <2> QED
      BY <1>4, <1>5, <2>1, <2>2 DEF SeekBegins
  <1>6. ASSUME NEW t \in Titles, NEW ok \in BOOLEAN, SeekCommits(t, ok)
        PROVE  SeeksOK'
    <2>1. SeekOf(t, {}) /\ {} \in SUBSET (Players \X (1 .. MaxSent))
      BY DEF SeekOf
    <2> QED
      BY <1>4, <1>6, <2>1 DEF SeekCommits
  <1> QED
    BY <1>3, <1>5, <1>6 DEF ViewingNext, viewingVars, CheckPlayable, ReadProgress, BeginPlayback, Heartbeat,
       ReplaceCommits, SetWatched, RecordProgress, MergeIdentity, UnmergeIdentity

\* The invariant holds in every reachable state.
LEMMA ViewingInductive == ViewingSpec => []ViewingIInv
  <1>1. ViewingInit => ViewingIInv
    <2> SUFFICES ASSUME ViewingInit PROVE ViewingIInv
      OBVIOUS
    <2>0. NoPosition \in Positions /\ Untouched \notin Positions
      BY ViewingAssumption DEF NoPosition, Positions, Untouched
    <2>1. NoRow \in Rows
      BY <2>0, ViewingAssumption DEF NoRow, Rows
    <2>2. NoPlayer \in PlayerRecords
      BY ViewingAssumption DEF NoPlayer, PlayerRecords, States
    <2>3. NoMerge \in [state : {"none", "active", "unmerged"}, survivor : Titles \cup {Nobody},
                       source : Titles \cup {Nobody}, before : SUBSET Snapshots, after : SUBSET Snapshots]
      BY DEF NoMerge
    <2>4. ShapeOK
      BY <2>1, <2>2, <2>3 DEF ViewingInit, ShapeOK
    <2>5. RowsOK
      <3>1. Repairs = 0
        BY DEF ViewingInit, NoMerge, Repairs
      <3> QED
        BY <3>1, ViewingAssumption DEF ViewingInit, RowsOK, NoRow
    <2>6. \A p \in Players : player[p].at = "none"
      BY DEF ViewingInit, NoPlayer
    <2>7. PlayersOK
      BY <2>6 DEF PlayersOK
    <2>8. PositionsOK
      BY <2>6, ViewingAssumption DEF ViewingInit, PositionsOK, Written, Holds, NoRow, NoPosition, NoMerge
    <2>9. EventsOK
      BY <2>6 DEF ViewingInit, EventsOK, Holds
    <2>10. MergeOK /\ RepairReversible /\ ViewerWritesKept
      BY DEF ViewingInit, MergeOK, RepairReversible, ViewerWritesKept, NoMerge
    <2>11. SeeksOK
      BY DEF ViewingInit, SeeksOK, SeekOf
    <2> QED
      BY <2>4, <2>5, <2>7, <2>8, <2>9, <2>10, <2>11 DEF ViewingIInv, ProgressOK
  <1>2. ViewingIInv /\ [ViewingNext]_viewingVars => ViewingIInv'
    <2> SUFFICES ASSUME ViewingIInv, [ViewingNext]_viewingVars PROVE ViewingIInv'
      OBVIOUS
    <2>1. ProgressOK
      BY DEF ViewingIInv
    <2>2. ASSUME NEW p \in Players, (\E r \in PlayerRecords : PlanStep(p, r)) \/ TakeStep(p)
          PROVE  ProgressOK'
      BY <2>1, <2>2, PlanKeeps, TakeKeeps
    <2>4. ASSUME NEW p \in Players, NEW t \in Titles, NEW obs \in 0 .. MaxSent, NEW completed \in BOOLEAN,
                 ReportStep(p, t, obs, completed), obs = 0 <=> p \notin NumberedPlayers
          PROVE  ProgressOK'
      BY <2>1, <2>4, ReportKeeps
    <2>5. ASSUME NEW T \in SUBSET Titles, MarkStep(T)
          PROVE  ProgressOK'
      BY <2>1, <2>5, MarkKeeps
    <2>6. ASSUME NEW t \in Titles, NEW u \in Titles, MergeIdentity(t, u)
          PROVE  ProgressOK'
      BY <2>1, <2>6, MergeKeeps
    <2>7. ASSUME UnmergeIdentity PROVE ProgressOK'
      BY <2>1, <2>7, UnmergeKeeps
    <2>8. ASSUME QuietStep PROVE ProgressOK'
      BY <2>1, <2>8, QuietKeeps
    <2>3. ProgressOK'
      BY <2>2, <2>4, <2>5, <2>6, <2>7, <2>8, StepShapes
    <2> QED
      BY <2>3, SeeksKeep DEF ViewingIInv
  <1> QED
    BY <1>1, <1>2, PTL DEF ViewingSpec

\* The position a viewer took up or gave a title since the last merge is the
\* title's position: taking the merge back undoes nothing the viewer did.
THEOREM ViewerKeepsProgress == ViewingSpec => []ViewerWritesKept
  <1>1. ViewingIInv => ViewerWritesKept
    BY DEF ViewingIInv, ProgressOK
  <1> QED
    BY <1>1, ViewingInductive, PTL

\* Progress is well formed, a playback completes a title once in the history, and
\* a merge that is taken back leaves untouched titles as they were.
THEOREM ViewingCorrect == ViewingSpec => []ViewingInv
  <1>1. ViewingIInv => ViewingInv
    <2> SUFFICES ASSUME ViewingIInv PROVE ViewingInv
      OBVIOUS
    <2>0. ShapeOK /\ SeeksOK /\ EventsOK /\ RepairReversible
      BY DEF ViewingIInv, ProgressOK
    <2>1. ViewingTypeOK
      <3>1. \A t \in Titles : seeking[t] = {} \/ \E p \in Players, n \in 1 .. MaxSent : seeking[t] = {<<p, n>>}
        BY <2>0 DEF SeeksOK, SeekOf
      <3> QED
        BY <2>0, <3>1 DEF ViewingTypeOK, ShapeOK, PlayerRecords, States
    <2>2. CompletionOnce
      <3> SUFFICES ASSUME NEW p \in Players
                   PROVE  Cardinality({i \in 1 .. Len(events) : events[i].by = p}) <= 1
        BY DEF CompletionOnce
      <3> DEFINE S == {i \in 1 .. Len(events) : events[i].by = p}
      <3>1. CASE S = {}
        BY <3>1, FS_EmptySet
      <3>2. ASSUME NEW i \in S
            PROVE  Cardinality(S) <= 1
        <4>1. S = {i}
          BY <2>0 DEF EventsOK
        <4> HIDE DEF S
        <4>2. Cardinality(S) = 1
          BY <4>1, FS_Singleton
        <4> QED
          BY <4>2
      <3> QED
        BY <3>1, <3>2
    <2> QED
      BY <2>0, <2>1, <2>2 DEF ViewingInv
  <1> QED
    BY <1>1, ViewingInductive, PTL

-----------------------------------------------------------------------------
(* Progress implements the register.                                       *)

\* What the register's holder is for.
HolderRight == \A t \in Titles : /\ \A p \in Players : Holds(p, t) => HolderOf(t) = p
                                 /\ (\A p \in Players : ~Holds(p, t)) => HolderOf(t) = Nobody

\* The register's holder is the one playback of the row's generation.
LEMMA HolderIs == PlayersOK => HolderRight
  <1> SUFFICES ASSUME PlayersOK, NEW t \in Titles
               PROVE  /\ \A p \in Players : Holds(p, t) => HolderOf(t) = p
                      /\ (\A p \in Players : ~Holds(p, t)) => HolderOf(t) = Nobody
    BY DEF HolderRight
  <1> DEFINE current == {p \in Players : Holds(p, t)}
  <1>1. HolderOf(t) = IF current = {} THEN Nobody ELSE CHOOSE p \in current : TRUE
    BY DEF HolderOf, Holds
  <1>2. ASSUME NEW p \in Players, Holds(p, t)
        PROVE  HolderOf(t) = p
    <2>1. \A q \in current : q = p
      BY <1>2 DEF Holds, PlayersOK
    <2>2. p \in current
      BY <1>2
    <2> HIDE DEF current
    <2>3. (CHOOSE q \in current : TRUE) \in current
      BY <2>2
    <2> QED
      BY <1>1, <2>1, <2>2, <2>3
  <1>3. ASSUME \A p \in Players : ~Holds(p, t)
        PROVE  HolderOf(t) = Nobody
    BY <1>1, <1>3
  <1> QED
    BY <1>2, <1>3

\* A title whose holder stays, or is set, has that holder in the register.
LEMMA HolderStep ==
  ASSUME PlayersOK, PlayersOK', NEW t \in Titles
  PROVE  /\ (\A p \in Players : Holds(p, t)' <=> Holds(p, t)) => HolderOf(t)' = HolderOf(t)
         /\ \A p \in Players : Holds(p, t)' => HolderOf(t)' = p
         /\ (\A p \in Players : ~Holds(p, t)') => HolderOf(t)' = Nobody
  <1>1. HolderRight
    BY HolderIs
  <1>2. HolderRight'
    BY HolderIs, PTL
  <1>3. CASE \E p \in Players : Holds(p, t)
    BY <1>1, <1>2, <1>3 DEF HolderRight
  <1>4. CASE \A p \in Players : ~Holds(p, t)
    BY <1>1, <1>2, <1>4 DEF HolderRight
  <1> QED
    BY <1>3, <1>4

\* Every step of progress is a step of the register or leaves it alone.
LEMMA RegisterStep ==
  ASSUME ViewingIInv, ViewingIInv', [ViewingNext]_viewingVars
  PROVE  [Register!RegisterNext]_Register!registerVars
  <1> DEFINE holder == [t \in Titles |-> HolderOf(t)]
             place == [t \in Titles |-> row[t].position]
             past == {p \in Players : player[p].at = "playing"}
             Simulated == [Register!RegisterNext]_Register!registerVars
  <1>0. /\ ShapeOK /\ RowsOK /\ PlayersOK /\ PositionsOK /\ PlayersOK'
        /\ \A u \in Titles : row[u].gen \in Nat /\ row[u].obs \in Nat
        /\ \A u \in Titles : row[u].position \in Positions /\ row[u].position.n \in Nat
        /\ \A q \in Players : player[q].gen \in Nat
    <2>1. ShapeOK /\ RowsOK /\ PlayersOK /\ PositionsOK /\ PlayersOK'
      BY DEF ViewingIInv, ProgressOK
    <2> QED
      BY <2>1, ShapeFacts
  <1>1. ASSUME \A t \in Titles, q \in Players : Holds(q, t)' <=> Holds(q, t),
               \A t \in Titles : row'[t].position = row[t].position,
               \A q \in Players : player'[q].at = "playing" <=> player[q].at = "playing"
        PROVE  Simulated
    <2>1. \A t \in Titles : HolderOf(t)' = HolderOf(t)
      BY <1>0, <1>1, HolderStep
    <2>2. holder' = holder /\ place' = place /\ past' = past
      BY <1>1, <2>1
    <2> QED
      BY <2>2 DEF Register!registerVars
  <1>2. ASSUME NEW p \in Players, NEW r \in PlayerRecords, PlanStep(p, r)
        PROVE  Simulated
    <2>1. \A q \in Players : (player'[q].at = "playing" <=> player[q].at = "playing")
                             /\ (player[q].at = "playing" => player'[q] = player[q])
      BY <1>0, <1>2 DEF PlanStep, ShapeOK
    <2>2. row' = row
      BY <1>2 DEF PlanStep
    <2> HIDE DEF Simulated
    <2> QED
      BY <1>1, <2>1, <2>2 DEF Holds
  <1>3. ASSUME QuietStep PROVE Simulated
    <2>1. row' = row /\ player' = player
      BY <1>3 DEF QuietStep
    <2> HIDE DEF Simulated
    <2> QED
      BY <1>1, <2>1 DEF Holds
  <1>4. ASSUME NEW p \in Players, TakeStep(p)
        PROVE  Simulated
    <2>0. PICK t \in Titles : t = player[p].title
      BY <1>4 DEF TakeStep
    <2>1. /\ t \in Titles /\ player[p].gen = row[t].gen + 1
          /\ \A u \in Titles \ {t} : row'[u] = row[u]
          /\ row'[t].gen = row[t].gen + 1 /\ row'[t].position = row[t].position
          /\ \A q \in Players \ {p} : player'[q] = player[q]
          /\ player'[p].at = "playing" /\ player'[p].title = t /\ player'[p].gen = player[p].gen
          /\ player[p].at = "created"
      BY <1>0, <1>4, <2>0, TakeEffect
    <2>2. Holds(p, t)' /\ \A u \in Titles \ {t}, q \in Players : Holds(q, u)' <=> Holds(q, u)
      BY <2>0, <2>1 DEF Holds
    <2>3. \A u \in Titles : HolderOf(u)' = IF u = t THEN p ELSE HolderOf(u)
      BY <1>0, <2>2, HolderStep
    <2>4. holder' = [holder EXCEPT ![t] = p]
      BY <2>3
    <2>5. place' = place
      BY <2>1
    <2>6. p \notin past /\ past' = past \cup {p}
      BY <2>1
    <2>7. Register!Take(t, p)
      BY <2>4, <2>5, <2>6 DEF Register!Take
    <2> QED
      BY <2>1, <2>7 DEF Register!RegisterNext
  <1>5. ASSUME NEW p \in Players, NEW t \in Titles, NEW obs \in 0 .. MaxSent, NEW completed \in BOOLEAN,
               ReportStep(p, t, obs, completed), obs = 0 <=> p \notin NumberedPlayers
        PROVE  Simulated
    <2>1. /\ \A u \in Titles \ {t} : row'[u] = row[u]
          /\ row'[t].gen = row[t].gen /\ row'[t].position = [by |-> p, n |-> obs]
          /\ player' = player /\ Holds(p, t) /\ (obs = 0 \/ row[t].obs < obs)
      BY <1>0, <1>5, ReportEffect
    <2>2. \A u \in Titles : row'[u].gen = row[u].gen
      BY <2>1
    <2>3. \A u \in Titles, q \in Players : Holds(q, u)' <=> Holds(q, u)
      BY <2>1, <2>2 DEF Holds
    <2>4. \A u \in Titles : HolderOf(u)' = HolderOf(u)
      BY <1>0, <2>3, HolderStep
    <2>5. HolderOf(t) = p
      BY <1>0, <2>1, HolderIs DEF HolderRight
    <2>6. holder' = holder /\ past' = past /\ holder[t] = p /\ p # Nobody
      BY <2>1, <2>4, <2>5, ViewingAssumption
    <2>7. place'[t].by = p /\ place'[t].n = obs /\ place[t] = row[t].position
          /\ \A u \in Titles \ {t} : place'[u] = place[u]
      BY <2>1
    <2>8. \/ row[t].position.by # p
          \/ obs > row[t].position.n
          \/ obs = 0 /\ row[t].position.n = 0
      <3>1. CASE row[t].position.by = p /\ obs = 0
        BY <1>0, <1>5, <3>1 DEF PositionsOK, Written
      <3>2. CASE row[t].position.by = p /\ obs # 0
        <4>1. row[t].position.n <= row[t].obs
          BY <1>0, <2>1, <3>2 DEF PositionsOK
        <4> QED
          BY <1>0, <2>1, <3>2, <4>1
      <3> QED
        BY <3>1, <3>2
    <2>9. Register!Write(t)
      BY <2>6, <2>7, <2>8 DEF Register!Write
    <2> QED
      BY <2>9 DEF Register!RegisterNext
  <1>6. ASSUME NEW T \in SUBSET Titles, player' = player,
               \A t \in Titles \ T : row'[t] = row[t],
               \A t \in T, q \in Players : ~Holds(q, t)'
        PROVE  Simulated
    <2>1. \A u \in Titles \ T, q \in Players : Holds(q, u)' <=> Holds(q, u)
      BY <1>6 DEF Holds
    <2>2. \A u \in Titles : HolderOf(u)' = IF u \in T THEN Nobody ELSE HolderOf(u)
      BY <1>0, <1>6, <2>1, HolderStep
    <2>3. holder' = [u \in Titles |-> IF u \in T THEN Nobody ELSE holder[u]]
      BY <2>2
    <2>4. (\A u \in Titles \ T : place'[u] = place[u]) /\ past' = past
      BY <1>6
    <2>5. Register!Reset(T)
      BY <2>3, <2>4 DEF Register!Reset
    <2> QED
      BY <2>5 DEF Register!RegisterNext
  <1> HIDE DEF Simulated
  <1>7. ASSUME NEW T \in SUBSET Titles, player' = player,
               \A t \in T : row[t].gen < row'[t].gen /\ row'[t].gen \in Nat
        PROVE  \A t \in T, q \in Players : ~Holds(q, t)'
    BY <1>0, <1>7 DEF Holds, PlayersOK
  <1>8. ASSUME NEW T \in SUBSET Titles, MarkStep(T)
        PROVE  Simulated
    <2>1. /\ player' = player /\ \A t \in Titles \ T : row'[t] = row[t]
          /\ \A t \in T : row[t].gen < row'[t].gen /\ row'[t].gen \in Nat
      BY <1>0, <1>8 DEF MarkStep
    <2> QED
      BY <1>6, <1>7, <2>1
  <1>9. ASSUME NEW v \in Titles, NEW c \in Titles, MergeIdentity(v, c)
        PROVE  Simulated
    <2>1. /\ \A t \in Titles \ {v, c} : row'[t] = row[t]
          /\ \A t \in {v, c} : (row'[t].exists => row[t].gen < row'[t].gen) /\ (~row'[t].exists => row'[t] = row[t])
          /\ player' = player /\ \A t \in Titles : row'[t] \in Rows
      BY <1>0, <1>9, MergeEffect
    <2>2. ASSUME NEW t \in {v, c}, NEW q \in Players, Holds(q, t)'
          PROVE  FALSE
      <3>1. row'[t].gen \in Nat
        BY <2>1 DEF Rows
      <3>2. 1 <= player[q].gen /\ player[q].gen <= row[t].gen /\ player[q].gen = row'[t].gen
        BY <1>0, <2>1, <2>2 DEF Holds, PlayersOK
      <3>3. ~row'[t].exists => row'[t].gen = 0
        BY <1>0, <2>1 DEF RowsOK, NoRow
      <3> QED
        BY <1>0, <2>1, <3>1, <3>2, <3>3
    <2>3. {v, c} \in SUBSET Titles
      OBVIOUS
    <2> QED
      BY <1>6, <2>1, <2>2, <2>3
  <1>10. ASSUME UnmergeIdentity PROVE Simulated
    <2> DEFINE T == {t \in Titles : row'[t] # row[t]}
    <2>1. player' = player
      BY <1>10 DEF UnmergeIdentity
    <2>2. \A t \in T : row'[t].gen = row[t].gen + 1
      BY <1>10 DEF UnmergeIdentity
    <2>3. \A t \in Titles \ T : row'[t] = row[t]
      OBVIOUS
    <2>4. \A t \in T : row[t].gen < row'[t].gen /\ row'[t].gen \in Nat
      BY <1>0, <2>2
    <2> QED
      BY <1>6, <1>7, <2>1, <2>3, <2>4
  <1>11. Simulated
    BY <1>2, <1>3, <1>4, <1>5, <1>8, <1>9, <1>10, StepShapes
  <1> QED
    BY <1>11 DEF Simulated

\* Progress implements the register: for every number of titles, playbacks,
\* reports and repairs, only the playback that took a title over last moves its
\* position, in its own order, and none gets the right back.
THEOREM ProgressImplementsRegister == ViewingSpec => ProgressRefines
  <1>1. ViewingInit => Register!RegisterInit
    <2> SUFFICES ASSUME ViewingInit PROVE Register!RegisterInit
      OBVIOUS
    <2>1. \A p \in Players : player[p].at = "none"
      BY DEF ViewingInit, NoPlayer
    <2>2. \A t \in Titles : HolderOf(t) = Nobody
      BY <2>1 DEF HolderOf
    <2>3. \A t \in Titles : row[t].position = [by |-> Nobody, n |-> 0]
      BY DEF ViewingInit, NoRow, NoPosition
    <2> QED
      BY <2>1, <2>2, <2>3 DEF Register!RegisterInit
  <1>2. ViewingIInv /\ ViewingIInv' /\ [ViewingNext]_viewingVars => [Register!RegisterNext]_Register!registerVars
    BY RegisterStep
  <1> QED
    BY <1>1, <1>2, ViewingInductive, PTL DEF ViewingSpec, ProgressRefines, Register!RegisterSpec
=============================================================================
