--------------------------- MODULE ViewingProgress ---------------------------
(**************************************************************************)
(* Viewing progress of one profile: playbacks that take a title over with a *)
(* generation, observations that arrive late, twice or out of order, seeks, *)
(* manual marks, old clients, identity merges that copy and fence progress, *)
(* and the viewing history that records their completions.                  *)
(*                                                                          *)
(* A position is who wrote it and its place in that writer's order.  Every  *)
(* SQL statement or transaction is one action.                              *)
(**************************************************************************)
EXTENDS Integers, Sequences, FiniteSets

CONSTANTS
  Titles,         \* catalog items of one kind
  Players,        \* playbacks, each planned once
  NumberedPlayers,\* those whose client numbers its reports
  Nobody,
  MaxSent,        \* bound on the reports of one playback; the last one completes the title
  MaxGeneration   \* bound on the generation playbacks and marks reach; a repair may go past it
ASSUME ViewingAssumption ==
  /\ Nobody \notin Players /\ NumberedPlayers \subseteq Players
  /\ MaxSent \in Nat \ {0} /\ MaxGeneration \in Nat

VARIABLES
  row,       \* the progress table
  player,    \* playbacks: planned, admitted, playing
  seeking,   \* the seek in progress under the progress lock of each title
  merge,     \* catalog_identity_merges and its progress snapshots
  events,    \* viewing_events by rowid
  latest,    \* history: the last position a viewer took up or gave each title since the last merge
  original   \* history: the rows at the last merge

viewingVars == <<row, player, seeking, merge, events, latest, original>>

NoPosition == [by |-> Nobody, n |-> 0]
NoRow == [exists |-> FALSE, gen |-> 0, obs |-> 0, completed |-> FALSE, cid |-> 0, position |-> NoPosition]
NoMerge == [state |-> "none", survivor |-> Nobody, source |-> Nobody, before |-> {}, after |-> {}]
NoPlayer == [at |-> "none", title |-> Nobody, gen |-> 0]
Untouched == [by |-> Nobody, n |-> -1]
Positions == [by : Players \cup {Nobody}, n : 0 .. MaxSent]
Rows == [exists : BOOLEAN, gen : 0 .. MaxGeneration + 2, obs : Nat, completed : BOOLEAN, cid : Nat,
         position : Positions]

\* The table, the playbacks and the history are well formed.
ViewingTypeOK ==
  /\ row \in [Titles -> Rows] /\ original \in [Titles -> Rows]
  /\ player \in [Players -> [at : {"none", "checked", "created", "playing", "refused"},
                             title : Titles \cup {Nobody}, gen : 0 .. MaxGeneration + 3]]
  /\ \A t \in Titles : seeking[t] = {} \/ \E p \in Players, n \in 1 .. MaxSent : seeking[t] = {<<p, n>>}
  /\ merge.state \in {"none", "active", "unmerged"}
  /\ events \in Seq([title : Titles, source : Nat, by : Players]) /\ latest \in [Titles -> Positions \cup {Untouched}]

ViewingInit ==
  /\ row = [t \in Titles |-> NoRow] /\ player = [p \in Players |-> NoPlayer]
  /\ seeking = [t \in Titles |-> {}]
  /\ merge = NoMerge /\ events = <<>>
  /\ latest = [t \in Titles |-> Untouched] /\ original = row

-----------------------------------------------------------------------------
(* A plan takes the title over.                                            *)

MergedAway(t) == merge.state = "active" /\ merge.source = t

\* The plan handler finds the title playable.
CheckPlayable(p, t) ==
  /\ player[p].at = "none" /\ ~MergedAway(t)
  /\ player' = [player EXCEPT ![p] = [at |-> "checked", title |-> t, gen |-> 0]]
  /\ UNCHANGED <<row, seeking, merge, events, latest, original>>

\* ProgressState is read and the session created with the generation to come.
ReadProgress(p) ==
  /\ player[p].at = "checked"
  /\ player' = [player EXCEPT ![p].at = "created", ![p].gen = row[player[p].title].gen + 1]
  /\ UNCHANGED <<row, seeking, merge, events, latest, original>>

\* BeginPlayback compares with the generation the plan read; 0 also means no row.
Admits(t, expected) == row[t].gen = expected

BeginPlayback(p) ==
  LET t == player[p].title
      expected == player[p].gen - 1
  IN
  /\ player[p].at = "created" /\ row[t].gen < MaxGeneration
  /\ IF Admits(t, expected)
     THEN /\ player' = [player EXCEPT ![p].at = "playing"]
          /\ row' = [row EXCEPT ![t] = [row[t] EXCEPT !.exists = TRUE, !.gen = @ + 1, !.obs = 0, !.cid = 0]]
          /\ latest' = [latest EXCEPT ![t] = row[t].position]
     ELSE player' = [player EXCEPT ![p].at = "refused"] /\ UNCHANGED <<row, latest>>
  /\ UNCHANGED <<seeking, merge, events, original>>

-----------------------------------------------------------------------------
(* RecordPlaybackProgress.                                                 *)

\* An older player numbers no observations.
Observation(p, n) == IF p \in NumberedPlayers THEN n ELSE 0

\* Mutant of Accepts: the observation is not compared.
AcceptsAnyOrder(r, gen, obs) == r.exists /\ r.gen = gen

\* The WHERE clause: the generation is current and the observation newer.
Accepts(r, gen, obs) == r.exists /\ r.gen = gen /\ (obs = 0 \/ r.obs < obs)

\* The first observation of a generation decides anew, later ones only add.
CompletedAfter(r, completed) == IF r.obs = 0 THEN completed ELSE r.completed \/ completed

\* Mutant of CompletionId: every completed report draws its own identifier.
CompletionIdDrawn(r, completed) == IF completed THEN Len(events) + 1 ELSE r.cid

\* The completion identifier is drawn once per generation.
CompletionId(r, completed) == IF r.cid = 0 /\ completed THEN Len(events) + 1 ELSE r.cid

Updated(r, p, obs, completed) ==
  [r EXCEPT !.position = [by |-> p, n |-> obs], !.completed = CompletedAfter(r, completed),
            !.cid = CompletionId(r, completed), !.obs = IF obs = 0 THEN @ + 1 ELSE obs]

\* recordViewingEvent: an event with the identity of a recorded one is dropped.
RecordedEvents(t, source, by) ==
  IF \E i \in 1 .. Len(events) : events[i].title = t /\ events[i].source = source THEN events
  ELSE Append(events, [title |-> t, source |-> source, by |-> by])

\* One transaction updates the row and records a completion.
RecordPlaybackProgress(p, n, completed) ==
  LET t == player[p].title
      obs == Observation(p, n)
      next == Updated(row[t], p, obs, completed)
  IN
  /\ obs = 0 => row[t].obs < MaxSent
  /\ IF ~Accepts(row[t], player[p].gen, obs) THEN UNCHANGED <<row, events, latest>>
     ELSE
       /\ row' = [row EXCEPT ![t] = next]
       /\ events' = IF completed THEN RecordedEvents(t, next.cid, p) ELSE events
       /\ latest' = [latest EXCEPT ![t] = next.position]

Completes(n) == n = MaxSent

\* A heartbeat, delivered whenever and as often as the network likes, waits for
\* the title's progress lock.
Heartbeat(p, n) ==
  /\ player[p].at = "playing" /\ seeking[player[p].title] = {}
  /\ RecordPlaybackProgress(p, n, Completes(n))
  /\ UNCHANGED <<player, seeking, merge, original>>

\* A seek asks whether it may, prepares for seconds with the lock held, and
\* records when it commits.
SeekBegins(p, n) ==
  LET t == player[p].title IN
  /\ player[p].at = "playing" /\ seeking[t] = {} /\ Accepts(row[t], player[p].gen, Observation(p, n))
  /\ seeking' = [seeking EXCEPT ![t] = {<<p, n>>}]
  /\ UNCHANGED <<row, player, merge, events, latest, original>>
SeekCommits(t, prepared) ==
  /\ seeking[t] # {} /\ seeking' = [seeking EXCEPT ![t] = {}]
  /\ \E s \in seeking[t] : IF prepared THEN RecordPlaybackProgress(s[1], s[2], Completes(s[2]))
                           ELSE UNCHANGED <<row, events, latest>>
  /\ UNCHANGED <<player, merge, original>>

\* An audio or quality change commits without the lock and completes nothing.
ReplaceCommits(p, n) ==
  /\ player[p].at = "playing" /\ RecordPlaybackProgress(p, n, FALSE)
  /\ UNCHANGED <<player, seeking, merge, original>>

-----------------------------------------------------------------------------
(* Manual marks and older clients.                                         *)

\* SetWatched over the titles of one action.  The completion identifier stays.
SetWatched(T, watched) ==
  /\ T # {} /\ \A t \in T : row[t].gen < MaxGeneration
  /\ row' = [t \in Titles |-> IF t \notin T THEN row[t]
       ELSE [row[t] EXCEPT !.exists = TRUE, !.gen = @ + 1, !.obs = 0, !.completed = watched,
                           !.position = NoPosition]]
  /\ latest' = [t \in Titles |-> IF t \in T THEN NoPosition ELSE latest[t]]
  /\ UNCHANGED <<player, seeking, merge, events, original>>

\* RecordProgress: a client of the older API names the generation it read, 0 for
\* none, and its write counts only when that is still the current one.  The only
\* caller (web/server.go:774) never reports a completion.
RecordProgress(t, expected) ==
  /\ row[t].gen = expected /\ expected < MaxGeneration
  /\ row' = [row EXCEPT ![t] = [row[t] EXCEPT !.exists = TRUE, !.gen = @ + 1, !.obs = 0,
               !.completed = FALSE, !.position = NoPosition, !.cid = IF expected = 0 THEN @ ELSE 0]]
  /\ latest' = [latest EXCEPT ![t] = NoPosition]
  /\ UNCHANGED <<player, seeking, merge, events, original>>

-----------------------------------------------------------------------------
(* Identity repair.                                                        *)

\* snapshotProgress of the two titles.
Snapshot(table, survivor, source) == {[title |-> t, row |-> table[t]] :
                                        t \in {u \in {survivor, source} : table[u].exists}}

Fenced(r) == IF r.exists THEN [r EXCEPT !.gen = @ + 1, !.obs = 0] ELSE r

\* MergeIdentity: source-only progress is copied, both titles are fenced.
MergeIdentity(survivor, source) ==
  LET copied == [row EXCEPT ![survivor] = IF @.exists THEN @ ELSE row[source]]
      fenced == [t \in Titles |-> IF t \in {survivor, source} THEN Fenced(copied[t]) ELSE row[t]]
  IN
  /\ merge.state = "none" /\ survivor # source
  /\ row' = fenced
  /\ merge' = [state |-> "active", survivor |-> survivor, source |-> source,
               before |-> Snapshot(row, survivor, source), after |-> Snapshot(fenced, survivor, source)]
  /\ original' = row /\ latest' = [t \in Titles |-> Untouched]
  /\ UNCHANGED <<player, seeking, events>>

\* Mutant of Unwritten: progress written since the merge is not looked for.
UnwrittenAlways(s) == TRUE

\* The row is the one the merge left.
Unwritten(s) == row[s.title] = s.row

\* UnmergeIdentity puts the rows back that nobody wrote since, each with a new
\* generation; progress that was only copied becomes a tombstone.
UnmergeIdentity ==
  LET undone == {s \in merge.after : Unwritten(s)}
      before(t) == {s.row : s \in {b \in merge.before : b.title = t}}
      restored(t) == IF before(t) = {} THEN NoRow ELSE CHOOSE r \in before(t) : TRUE
  IN
  /\ merge.state = "active"
  /\ row' = [t \in Titles |-> IF \A s \in undone : s.title # t THEN row[t]
       ELSE [exists |-> TRUE, gen |-> row[t].gen + 1, obs |-> 0, completed |-> restored(t).completed,
             cid |-> restored(t).cid, position |-> restored(t).position]]
  /\ merge' = [merge EXCEPT !.state = "unmerged"]
  /\ UNCHANGED <<player, seeking, events, latest, original>>

ViewingNext ==
  \/ \E p \in Players :
       \/ ReadProgress(p) \/ BeginPlayback(p)
       \/ \E t \in Titles : CheckPlayable(p, t)
       \/ \E n \in 1 .. MaxSent : Heartbeat(p, n) \/ SeekBegins(p, n) \/ ReplaceCommits(p, n)
  \/ \E t \in Titles, ok \in BOOLEAN : SeekCommits(t, ok)
  \/ \E T \in SUBSET Titles, watched \in BOOLEAN : SetWatched(T, watched)
  \/ \E t \in Titles, g \in 0 .. MaxGeneration : RecordProgress(t, g)
  \/ \E t, u \in Titles : MergeIdentity(t, u)
  \/ UnmergeIdentity

ViewingSpec == ViewingInit /\ [][ViewingNext]_viewingVars

-----------------------------------------------------------------------------

\* The playback whose generation the row has.
HolderOf(t) ==
  LET current == {p \in Players : player[p].at = "playing" /\ player[p].title = t
                                    /\ player[p].gen = row[t].gen}
  IN IF current = {} THEN Nobody ELSE CHOOSE p \in current : TRUE

Register == INSTANCE ProgressRegister WITH
  holder <- [t \in Titles |-> HolderOf(t)],
  position <- [t \in Titles |-> row[t].position],
  past <- {p \in Players : player[p].at = "playing"}

\* Progress is a register with one writer at a time: through duplicated, late and
\* reordered reports, seeks that commit seconds after their check, marks, older
\* clients and identity repairs, only the playback that took a title over last
\* moves its position, in its own order, and none gets the right back.
ProgressRefines == Register!RegisterSpec

\* A playback adds at most one completion to the history, however often its last
\* report is repeated.
CompletionOnce ==
  \A p \in Players : Cardinality({i \in 1 .. Len(events) : events[i].by = p}) <= 1

\* What a viewer did since a merge is never undone by the unmerge.
ViewerWritesKept ==
  \A t \in Titles : latest[t] # Untouched => row[t].position = latest[t]

\* A merge that is taken back leaves the titles nobody touched as they were.
RepairReversible ==
  \A t \in Titles : merge.state = "unmerged" /\ latest[t] = Untouched =>
    row[t].position = original[t].position /\ row[t].completed = original[t].completed

\* Well typed, one completion per playback, and repairs that can be taken back.
ViewingInv == ViewingTypeOK /\ CompletionOnce /\ RepairReversible
=============================================================================
