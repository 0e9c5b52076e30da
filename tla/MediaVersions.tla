---------------------------- MODULE MediaVersions ----------------------------
(* Media-version groups (backend/catalog/media_versions.go): the owner groups  *)
(* several encodings of one cut under a canonical title, labels editions and   *)
(* ungroups; viewers plan playback of the canonical title and the server       *)
(* chooses a version, starts it, and remembers an explicit choice              *)
(* (backend/web/media_versions.go, the plan and follow-on handlers of          *)
(* playback_handlers.go).  An edit commits first and stops the sessions of the *)
(* titles it touched afterwards, while plans are between their own steps.      *)
(* A title stands for a film or for a series with its episode coordinates.     *)
EXTENDS Naturals

CONSTANTS Anchors,       \* catalog ids of titles, numbers in the order of their ids
          LastAnchor,    \* the highest id a title may have
          Audience,      \* profiles, each on one device
          Labels,        \* edition labels, 0 is the empty one
          Coordinates,   \* Coordinates[t]: the episodes of a series
          RankOf,        \* planRank of the title's source: 0 plays directly
          BitrateOf,     \* its bitrate
          AllowedTo,     \* AllowedTo[a]: titles whose library the profile may use
          Devices,       \* what a device can play: sets of titles
          MaxVersionEdits, MaxVersionPlans

ASSUME VersionAssumption ==
  /\ LastAnchor \in Nat /\ Anchors \subseteq 1..LastAnchor /\ 0 \in Labels
  /\ RankOf \in [Anchors -> 0..2] /\ BitrateOf \in [Anchors -> Nat]
  /\ Devices \subseteq SUBSET Anchors /\ AllowedTo \in [Audience -> SUBSET Anchors]
  /\ MaxVersionEdits \in Nat /\ MaxVersionPlans \in Nat

VARIABLES canonicalOf,   \* the membership table; a title outside it maps to itself
          labelOf,       \* catalog_edition_labels
          repairs,       \* active identity merges, <<survivor, source>>
          reachable,     \* titles whose source opens
          preference,    \* preference[a][t]: the remembered version, 0 for none
          playing,       \* sessions of the playback manager
          planning,      \* the plan or follow-on request of a profile
          stopping,      \* edits whose titles are still to be stopped
          unstopped,     \* history: live sessions of edits answered with an error
          versionEdits, plansDrawn

editVars == <<canonicalOf, labelOf, repairs, stopping, unstopped, versionEdits>>
versionVars == <<editVars, reachable, preference, playing, planning, plansDrawn>>

NoPlan == [step |-> "idle", title |-> 0, version |-> 0, asked |-> "auto",
           reading |-> FALSE, checkedAt |-> 0, id |-> 0, replaces |-> 0]

VersionsInit ==
  /\ canonicalOf = [t \in Anchors |-> t] /\ labelOf = [t \in Anchors |-> 0]
  /\ repairs = {} /\ reachable = Anchors
  /\ preference = [a \in Audience |-> [t \in Anchors |-> 0]]
  /\ playing = {} /\ planning = [a \in Audience |-> NoPlan]
  /\ stopping = {} /\ unstopped = {} /\ versionEdits = 0 /\ plansDrawn = 0

-----------------------------------------------------------------------------
\* Groups.

\* groupMemberIDs of the canonical title that versionAnchors resolves.
Group(t) == {u \in Anchors : canonicalOf[u] = canonicalOf[t]}

\* IsMediaVersionMember.
IsMember(t) == canonicalOf[t] # t

\* versionAnchorEligible: not hidden behind another title by a repair.
AnchorEligible(t) == \A m \in repairs : m[2] # t

\* CreateMediaVersionGroup's checks on every id: not a member and not already
\* the canonical title of a group.
Ungrouped(t) == ~IsMember(t) /\ Group(t) = {t}

\* The edition labels of the members must be empty or the canonical title's.
SameEdition(c, members) == \A t \in members : labelOf[t] \in {0, labelOf[c]}

\* Mutant of Affected: only the sessions of the members are stopped.
AffectedMembers(c, members) == members

\* MediaVersionPlaybackIDs of an edited group.
Affected(c, members) == {c} \cup members

Edited == versionEdits < MaxVersionEdits /\ versionEdits' = versionEdits + 1

\* After the commit the edit reads the group back (groupObject).  When it can, the
\* handler goes on to stop the sessions of the titles; when the read fails or the
\* canonical title is gone, it answers with the error and stops none.
AfterCommit(titles, readBack) ==
  \/ readBack /\ stopping' = stopping \cup {<<versionEdits, titles>>} /\ unstopped' = unstopped
  \/ /\ ~readBack /\ stopping' = stopping
     /\ unstopped' = unstopped \cup {s.id : s \in {p \in playing : p.title \in titles}}

\* CreateMediaVersionGroup.
CreateMediaVersionGroup(c, members, readBack) ==
  /\ Edited /\ members # {} /\ c \notin members
  /\ \A t \in {c} \cup members : AnchorEligible(t) /\ Ungrouped(t)
  /\ \A t \in members : Coordinates[t] = Coordinates[c]
  /\ SameEdition(c, members)
  /\ canonicalOf' = [t \in Anchors |-> IF t \in members THEN c ELSE canonicalOf[t]]
  /\ AfterCommit(Affected(c, members), readBack)
  /\ UNCHANGED <<labelOf, repairs, reachable, preference, playing, planning, plansDrawn>>

SetEditionLabel(t, l, readBack) ==
  /\ Edited /\ AnchorEligible(t) /\ ~IsMember(t)
  /\ labelOf' = [labelOf EXCEPT ![t] = l]
  /\ AfterCommit(Affected(t, {}), readBack)
  /\ UNCHANGED <<canonicalOf, repairs, reachable, preference, playing, planning, plansDrawn>>

UngroupMediaVersion(c, t, readBack) ==
  /\ Edited /\ c # t /\ canonicalOf[t] = c
  /\ canonicalOf' = [canonicalOf EXCEPT ![t] = t]
  /\ AfterCommit(Affected(c, {t}), readBack)
  /\ UNCHANGED <<labelOf, repairs, reachable, preference, playing, planning, plansDrawn>>

\* StopCatalogIDs as the handler calls it: sessions in the manager's map only.
StopEdited(edit) ==
  /\ edit \in stopping
  /\ stopping' = stopping \ {edit}
  /\ playing' = {s \in playing : s.title \notin edit[2]}
  /\ UNCHANGED <<canonicalOf, labelOf, repairs, unstopped, versionEdits, reachable,
                 preference, planning, plansDrawn>>

\* MergeIdentity's check of the groups; it holds mediaVersionsMu as well.
Mergeable(t) ==
  /\ canonicalOf[t] = t /\ Group(t) = {t}
  /\ \A m \in repairs : t \notin {m[1], m[2]}

\* MergeIdentity, for its effect on grouping.
MergeTitles(survivor, source) ==
  /\ Edited /\ survivor # source /\ Mergeable(survivor) /\ Mergeable(source)
  /\ repairs' = repairs \cup {<<survivor, source>>}
  /\ UNCHANGED <<canonicalOf, labelOf, stopping, unstopped, reachable, preference, playing, planning,
                 plansDrawn>>

\* UnmergeIdentity does not look at the groups.
UnmergeTitles(m) ==
  /\ Edited /\ m \in repairs
  /\ repairs' = repairs \ {m}
  /\ UNCHANGED <<canonicalOf, labelOf, stopping, unstopped, reachable, preference, playing, planning,
                 plansDrawn>>

\* External: a source disappears from the disk or returns.
SourceChanges(t) ==
  /\ Edited
  /\ reachable' = (reachable \ {t}) \cup ({t} \ reachable)
  /\ UNCHANGED <<canonicalOf, labelOf, repairs, stopping, unstopped, preference, playing, planning,
                 plansDrawn>>

-----------------------------------------------------------------------------
\* Plans.

\* playableItem: a member is not a title of its own.
PlayableTitle(a, t) == ~IsMember(t) /\ t \in AllowedTo[a]

\* The plan handler's first checks; the canonical title itself must be playable.
BeginPlan(a, t, asked) ==
  /\ planning[a].step = "idle" /\ plansDrawn < MaxVersionPlans
  /\ PlayableTitle(a, t) /\ t \in reachable
  /\ planning' = [planning EXCEPT ![a] = [NoPlan EXCEPT !.step = "begun", !.title = t,
                                    !.asked = asked, !.checkedAt = versionEdits,
                                    !.id = plansDrawn + 1]]
  /\ plansDrawn' = plansDrawn + 1
  /\ UNCHANGED <<editVars, reachable, preference, playing>>

\* PlaybackVersions: the versions of the group the profile may use; it returns
\* them sorted by id.
PlaybackVersions(a, t) == Group(t) \cap AllowedTo[a]

\* The version a request names; an empty one means the remembered version, if
\* the group still offers it, and nothing otherwise.
RequestedVersion(a, t, asked) ==
  IF asked # "remembered" THEN {}
  ELSE {preference[a][canonicalOf[t]]} \cap Group(t) \cap AllowedTo[a]

\* Mutant of Better: the bitrate decides before the rank.
BetterBitrate(u, best) == best = 0 \/ BitrateOf[u] > BitrateOf[best]

\* choosePlaybackVersion keeps a later candidate only when it is strictly better.
Better(u, best) ==
  \/ best = 0
  \/ RankOf[u] < RankOf[best]
  \/ RankOf[u] = RankOf[best] /\ BitrateOf[u] > BitrateOf[best]

\* The loop of choosePlaybackVersion: the candidates in the order of their ids.
BestOf(candidates) ==
  LET best[n \in 0..LastAnchor] ==
        IF n = 0 THEN 0
        ELSE IF n \in candidates /\ Better(n, best[n - 1]) THEN n ELSE best[n - 1]
  IN best[LastAnchor]

\* choosePlaybackVersion considers the available versions that the device can
\* plan; named is {} for an automatic choice.  0 is a refusal.
Candidates(a, t, named, able) ==
  {u \in PlaybackVersions(a, t) \cap reachable \cap able : named = {} \/ u \in named}
Choice(a, t, named, able) == BestOf(Candidates(a, t, named, able))

\* A plan without a version of its own: automatic, or the remembered one.
ChooseVersion(a, able) ==
  LET p == planning[a]
      named == RequestedVersion(a, p.title, p.asked)
      version == Choice(a, p.title, named, able)
  IN /\ p.step = "begun"
     /\ planning' = [planning EXCEPT ![a] =
          IF version = 0 THEN NoPlan
          ELSE [p EXCEPT !.step = "chosen", !.version = version]]
     /\ UNCHANGED <<editVars, reachable, preference, playing, plansDrawn>>

\* A plan that names a version.
ChooseNamed(a, u) ==
  LET p == planning[a]
  IN /\ p.step = "begun" /\ p.asked = "version"
     /\ planning' = [planning EXCEPT ![a] =
          IF Choice(a, p.title, {u}, Anchors) = 0 THEN NoPlan
          ELSE [p EXCEPT !.step = "chosen", !.version = u]]
     /\ UNCHANGED <<editVars, reachable, preference, playing, plansDrawn>>

\* PlaybackVersionSource: the session's pinned version, resolved again.
VersionSource(a, s) == s.version \in Group(s.title) \cap AllowedTo[a] \cap reachable

\* A seek, audio, quality or subtitle request of a live session: each checks
\* the title again, all but the seek resolve the pinned version again.
FollowOn(a, s, kind) ==
  /\ s \in playing /\ s.viewer = a
  /\ planning[a].step = "idle" /\ plansDrawn < MaxVersionPlans
  /\ PlayableTitle(a, s.title)
  /\ kind = "seek" \/ VersionSource(a, s)
  /\ planning' = [planning EXCEPT ![a] =
       [NoPlan EXCEPT !.step = "chosen", !.title = s.title, !.version = s.version,
                      !.asked = "pinned",
                      !.checkedAt = IF kind = "seek" THEN s.checkedAt ELSE versionEdits,
                      !.id = plansDrawn + 1, !.replaces = s.id]]
  /\ plansDrawn' = plansDrawn + 1
  /\ UNCHANGED <<editVars, reachable, preference, playing>>

\* playbackSourceForKey and groupedPhysicalSources: the title's own source or
\* one of its group at the time of opening.
OpensVersion(t, u) == u \in {t} \cup Group(t) /\ u \in reachable

\* The manager starts FFmpeg, which opens its input before the session is in
\* the manager's map; a direct session opens nothing yet.
StartVersion(a) ==
  LET p == planning[a]
  IN /\ p.step = "chosen"
     /\ planning' = [planning EXCEPT ![a] =
          IF RankOf[p.version] = 0 THEN [p EXCEPT !.step = "started"]
          ELSE IF OpensVersion(p.title, p.version)
          THEN [p EXCEPT !.step = "started", !.reading = TRUE]
          ELSE NoPlan]
     /\ UNCHANGED <<editVars, reachable, preference, playing, plansDrawn>>

\* The session enters the map; a follow-on takes the place of its predecessor,
\* and fails when that one is gone.
RegisterSession(a) ==
  LET p == planning[a]
      lost == p.replaces # 0 /\ ~\E s \in playing : s.id = p.replaces
      session == [id |-> p.id, viewer |-> a, title |-> p.title, version |-> p.version,
                  reading |-> p.reading, checkedAt |-> p.checkedAt, since |-> versionEdits]
  IN /\ p.step = "started"
     /\ playing' = IF lost THEN playing
                   ELSE {s \in playing : s.id # p.replaces} \cup {session}
     /\ planning' = [planning EXCEPT ![a] =
          IF lost \/ p.asked = "pinned" THEN NoPlan ELSE [p EXCEPT !.step = "registered"]]
     /\ UNCHANGED <<editVars, reachable, preference, plansDrawn>>

\* What an admitted plan remembers: auto clears, a named version is saved.
Remembered(p, old) ==
  CASE p.asked = "auto" -> 0 [] p.asked = "version" -> p.version [] OTHER -> old

\* SavePlaybackVersionContext and ClearPlaybackVersionContext under the group's
\* canonical title of this moment, then StopSupersededPlans.
AdmitPlan(a) ==
  LET p == planning[a]
      c == canonicalOf[p.title]
      own == {s \in playing : s.viewer = a /\ s.title = p.title}
  IN /\ p.step = "registered"
     /\ preference' = [preference EXCEPT ![a][c] = Remembered(p, @)]
     /\ playing' = playing \ {s \in own : \E newer \in own : newer.id > s.id}
     /\ planning' = [planning EXCEPT ![a] = NoPlan]
     /\ UNCHANGED <<editVars, reachable, plansDrawn>>

\* The handler fails after the registration (progress conflict, cancelled
\* request) and stops its session, or a viewer stops one.
StopSession(s) ==
  /\ s \in playing
  /\ playing' = playing \ {s}
  /\ planning' = [a \in Audience |->
       IF a = s.viewer /\ planning[a].step = "registered" /\ planning[a].title = s.title
       THEN NoPlan ELSE planning[a]]
  /\ UNCHANGED <<editVars, reachable, preference, plansDrawn>>

EditNext ==
  \/ \E readBack \in BOOLEAN :
       \/ \E c \in Anchors : \E members \in SUBSET Anchors :
            CreateMediaVersionGroup(c, members, readBack)
       \/ \E t \in Anchors, l \in Labels : SetEditionLabel(t, l, readBack)
       \/ \E c, t \in Anchors : UngroupMediaVersion(c, t, readBack)
  \/ \E c, t \in Anchors : MergeTitles(c, t)
  \/ \E edit \in stopping : StopEdited(edit)
  \/ \E m \in repairs : UnmergeTitles(m)
  \/ \E t \in Anchors : SourceChanges(t)

PlanNext ==
  \/ \E a \in Audience, t \in Anchors, asked \in {"auto", "remembered", "version"} :
       BeginPlan(a, t, asked)
  \/ \E a \in Audience, able \in Devices :
       planning[a].asked # "version" /\ ChooseVersion(a, able)
  \/ \E a \in Audience, u \in Anchors : ChooseNamed(a, u)
  \/ \E s \in playing, kind \in {"seek", "audio"} : FollowOn(s.viewer, s, kind)
  \/ \E a \in Audience : StartVersion(a) \/ RegisterSession(a) \/ AdmitPlan(a)
  \/ \E s \in playing : StopSession(s)

VersionsNext == EditNext \/ PlanNext
VersionsSpec == VersionsInit /\ [][VersionsNext]_versionVars

-----------------------------------------------------------------------------
\* Properties.

\* Whatever sequence of grouping, ungrouping, merging and unmerging the owner
\* makes, groups stay one level deep and no title of a group is hidden behind a
\* repair: versionAnchors resolves in one lookup and would otherwise lose
\* versions.
GroupsFlat ==
  \A t \in Anchors : IsMember(t) =>
    /\ ~IsMember(canonicalOf[t])
    /\ AnchorEligible(t) /\ AnchorEligible(canonicalOf[t])

\* Once an edit has stopped what it affects, a session that plays a version
\* outside its title's group, or plays a title that became a member, can only
\* come from a request that passed its checks before an edit and was registered
\* after it: no session that was live when the group changed survives.  Excepted are
\* the sessions of an edit that was answered with an error after its commit, which
\* nobody stops.
ObsoleteOnlyAcrossEdits ==
  \A s \in playing :
    /\ s.version \notin Group(s.title) \/ IsMember(s.title)
    /\ \A edit \in stopping : s.title \notin edit[2]
    /\ s.id \notin unstopped
    => s.checkedAt < s.since

\* Groups stay resolvable and sessions stay within them.
VersionsInv == GroupsFlat /\ ObsoleteOnlyAcrossEdits

\* The loop of choosePlaybackVersion finds a version whenever an authorized one
\* can be played, and none that the profile could play has a lower rank or, at
\* the same rank, a higher bitrate.
AutoIsBest ==
  \A a \in Audience, able \in SUBSET Anchors : planning[a].step = "begun" =>
    LET t == planning[a].title
        playable == Group(t) \cap AllowedTo[a] \cap reachable \cap able
        best == Choice(a, t, {}, able)
    IN IF playable = {} THEN best = 0
       ELSE /\ best \in playable
            /\ \A u \in playable :
                 \/ RankOf[best] < RankOf[u]
                 \/ RankOf[best] = RankOf[u] /\ BitrateOf[best] >= BitrateOf[u]
=============================================================================
