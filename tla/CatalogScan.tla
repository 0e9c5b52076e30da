----------------------------- MODULE CatalogScan -----------------------------
(* The library scan of backend/catalog: what a scan finds on disk, which title *)
(* each file belongs to, what the commit does to titles and sources, the       *)
(* owner's reviews of removals and location changes, and the proof that pins a *)
(* playback to the bytes it was admitted for.                                  *)
(*                                                                            *)
(* A file is a path below the root of a location.  Its content stands for its  *)
(* full digest, its token for the file system's change token: every write      *)
(* draws a new token, and size and modification time never tell two contents   *)
(* apart, which is the worst case.  A title's id is a hash of the path and the *)
(* content that first named it.  The rows of catalog_items and the items held  *)
(* in memory change together under mu and are one variable here.               *)
EXTENDS Naturals, FiniteSets

CONSTANTS
    Locations,           \* location ids, ordered (naturals)
    Libraries,           \* libraries a location may belong to
    Paths,               \* relative paths, ordered (naturals)
    Roots,               \* directories a location may name
    Contents,            \* file contents
    Gone,                \* no file, no root, nothing admitted
    FirstDisk,           \* the places a file may be at and the files first there
    FirstLocations,      \* the locations the owner configured
    MassRemovalMinimum,  \* massRemovalMinimum
    MassRemovalPercent,  \* massRemovalPercent
    MaxChanges,          \* bound on changes of the disk and of the locations together
    MaxScans             \* bound on scans

ASSUME CatalogAssumption ==
    /\ Locations \subseteq Nat /\ IsFiniteSet(Locations)
    /\ Paths \subseteq Nat /\ IsFiniteSet(Paths)
    /\ Gone \notin Contents \cup Roots
    /\ {MassRemovalMinimum, MassRemovalPercent, MaxChanges, MaxScans} \subseteq Nat

VARIABLES
    disk,       \* [content, token] of every root and path
    online,     \* the roots that can be read now
    writes,     \* changes of the disk so far: the last token drawn
    locations,  \* library_locations
    preview,    \* library_location_removal_previews, one per location
    files,      \* catalog_physical_files
    titles,     \* catalog_items and Catalog.items
    scan,       \* the running scan
    scans,      \* scans started: the last scan id drawn
    page,       \* the removal review the owner last loaded
    proof,      \* a refreshSourceProof between its reads and its commit
    admitted,   \* the source key of an admitted playback and what it last opened
    edits,      \* location changes so far
    skipped     \* history: places of sources that a commit should have carried over and did not

catalogVars == <<disk, online, writes, locations, preview, files, titles, scan, scans, page, proof, admitted, edits, skipped>>
mediaVars == <<disk, online, writes>>
ownerVars == <<preview, page, edits, skipped>>
playVars == <<proof, admitted>>

Places == Locations \X Paths
TitleIds == Paths \X Contents
NoFile == [content |-> Gone, token |-> 0]
NoLocation == [library |-> Gone, root |-> Gone, state |-> "none", review |-> {}, pending |-> 0, revision |-> 0]
NoPreview == [revision |-> 0, root |-> Gone, sources |-> {}]
NoPage == [location |-> Gone, id |-> 0, review |-> {}]
NoProof == [title |-> Gone, place |-> Gone, root |-> Gone, content |-> Gone, token |-> 0, found |-> 0]
NoKey == [title |-> Gone, place |-> Gone, root |-> Gone, content |-> Gone, token |-> 0, opened |-> Gone]
NoScan == [phase |-> "idle", id |-> 0, libraries |-> {}, retry |-> {}, todo |-> {}, found |-> {},
           protected |-> {}, completed |-> {}, unavailable |-> {}, reviews |-> {}, results |-> {}, failures |-> {}]

Registered == {l \in Locations : locations[l].state # "none"}
\* The file at a path below a root.
FileAt(r, p) == IF <<r, p>> \in DOMAIN disk THEN disk[<<r, p>>] ELSE NoFile
At(place) == FileAt(locations[place[1]].root, place[2])

\* The order of location and path that scan and persist sort by.
Before(a, b) == \/ a[1] < b[1]
                \/ a[1] = b[1] /\ a[2] < b[2]
First(places) == CHOOSE a \in places : \A b \in places \ {a} : Before(a, b)

\* Init is a catalog whose configured locations were scanned once: a file's title is
\* named after the first file of its content, as reconcileIdentity does on an empty catalog.
FirstLocation(l) ==
    IF l \in DOMAIN FirstLocations
    THEN [NoLocation EXCEPT !.library = FirstLocations[l].library, !.root = FirstLocations[l].root,
                            !.state = "available", !.revision = 1]
    ELSE NoLocation
FirstAt(k) == FirstDisk[<<FirstLocations[k[1]].root, k[2]>>]
FirstPlaces(c) == {k \in (DOMAIN FirstLocations) \X Paths :
                     <<FirstLocations[k[1]].root, k[2]>> \in DOMAIN FirstDisk /\ FirstAt(k).content = c}
FirstPlace(c) == First(FirstPlaces(c))
FirstContents == {c \in Contents : FirstPlaces(c) # {}}
FirstFiles == {d \in DOMAIN FirstDisk : FirstDisk[d].content # Gone}

\* The configured locations are well-formed, and the files first on disk drew the first tokens.
ASSUME FirstAssumption ==
    /\ DOMAIN FirstLocations \subseteq Locations
    /\ \A l \in DOMAIN FirstLocations : FirstLocations[l].library \in Libraries /\ FirstLocations[l].root \in Roots
    /\ IsFiniteSet(FirstFiles)
    /\ FirstDisk \in [DOMAIN FirstDisk -> [content : Contents, token : 1..Cardinality(FirstFiles)] \cup {NoFile}]
    /\ \A d, e \in FirstFiles : FirstDisk[d].token = FirstDisk[e].token => d = e

CatalogInit ==
    /\ disk = FirstDisk
    /\ online = Roots
    /\ writes = Cardinality(FirstFiles)
    /\ locations = [l \in Locations |-> FirstLocation(l)]
    /\ preview = [l \in Locations |-> NoPreview]
    /\ files = UNION {{[place |-> k, content |-> c, token |-> FirstAt(k).token, born |-> FirstAt(k).token,
                        title |-> <<FirstPlace(c)[2], c>>, present |-> TRUE, selected |-> k = FirstPlace(c)] :
                        k \in FirstPlaces(c)} : c \in FirstContents}
    /\ titles = [t \in {<<FirstPlace(c)[2], c>> : c \in FirstContents} |->
                    [place |-> FirstPlace(t[2]), content |-> t[2], token |-> FirstAt(FirstPlace(t[2])).token,
                     available |-> TRUE]]
    /\ scan = NoScan
    /\ scans = 0
    /\ page = NoPage
    /\ proof = NoProof
    /\ admitted = NoKey
    /\ edits = 0
    /\ skipped = {}

(***************************************************************************)
(* The disk, which nobody locks                                            *)
(***************************************************************************)

\* A file is written, touched or replaced: each draws a new change token.
WriteFile(d, c) ==
    /\ writes + edits < MaxChanges
    /\ writes' = writes + 1
    /\ disk' = [disk EXCEPT ![d] = [content |-> c, token |-> writes + 1]]
    /\ UNCHANGED <<online, locations, files, titles, scan, scans, ownerVars, playVars>>

RemoveFile(d) ==
    /\ writes + edits < MaxChanges
    /\ disk[d].content # Gone
    /\ writes' = writes + 1
    /\ disk' = [disk EXCEPT ![d] = NoFile]
    /\ UNCHANGED <<online, locations, files, titles, scan, scans, ownerVars, playVars>>

\* A mount is lost or comes back with its files.
Mount(r) ==
    /\ writes + edits < MaxChanges
    /\ writes' = writes + 1
    /\ online' = IF r \in online THEN online \ {r} ELSE online \cup {r}
    /\ UNCHANGED <<disk, locations, files, titles, scan, scans, ownerVars, playVars>>

(***************************************************************************)
(* Titles and their sources                                                *)
(***************************************************************************)

\* activeSources: the present rows of a location, and where their files are.
ActiveSources(l) == {f \in files : f.present /\ f.place[1] = l}
PresentAt(l) == {f.place : f \in ActiveSources(l)}

\* The id of a source row hashes its place, its content and the token it was first
\* written with: a refreshed proof changes the token and keeps the id.
PhysicalId(f) == <<f.place, f.content, f.born>>

\* previousByPath: the source last seen at a place, the present one before the others.
Known(place) ==
    LET rows == {f \in files : f.place = place}
    IN  IF rows = {} THEN {}
        ELSE {CHOOSE f \in rows : \A g \in rows \ {f} : f.present \/ (~g.present /\ g.token <= f.token)}

\* A title whose primary file stays present keeps it; otherwise the first present
\* alternate is selected, and without one the title becomes unavailable.
Alternates(rows, t) == {f \in rows : f.title = t /\ f.present}

IsPrimary(f, item) == f.place = item.place /\ f.content = item.content /\ f.token = item.token

Reselected(rows, t) ==
    LET alternates == Alternates(rows, t)
        kept == \E f \in alternates : IsPrimary(f, titles[t])
        chosen == CHOOSE f \in alternates : f.place = First({g.place : g \in alternates})
    IN  IF kept THEN [titles[t] EXCEPT !.available = TRUE]
        ELSE IF alternates = {} THEN [titles[t] EXCEPT !.available = FALSE]
        ELSE [place |-> chosen.place, content |-> chosen.content, token |-> chosen.token, available |-> TRUE]

\* reselectCatalogSource of every title in touched, after the rows became absent.
Reselect(rows, touched) ==
    /\ titles' = [t \in DOMAIN titles |-> IF t \in touched THEN Reselected(rows, t) ELSE titles[t]]
    /\ files' = {IF f.title \in touched
                 THEN [f EXCEPT !.selected = f.present /\ IsPrimary(f, titles'[f.title])] ELSE f : f \in rows}

Dropped(gone) == {IF f \in gone THEN [f EXCEPT !.present = FALSE, !.selected = FALSE] ELSE f : f \in files}

(***************************************************************************)
(* A scan                                                                  *)
(***************************************************************************)

\* startScan: one scan at a time.
StartScan(libraries, retry) ==
    /\ scan.phase = "idle"
    /\ scans < MaxScans
    /\ scans' = scans + 1
    /\ scan' = [NoScan EXCEPT !.phase = "walking", !.id = scans + 1, !.libraries = libraries, !.retry = retry,
                              !.todo = Registered]
    /\ UNCHANGED <<locations, files, titles, mediaVars, ownerVars, playVars>>

\* Mutant of SuspiciousRemoval: an empty directory is an ordinary removal.
SuspiciousByShare(previous, missing, remaining) ==
    missing >= MassRemovalMinimum /\ remaining > 0 /\ missing * 100 >= previous * MassRemovalPercent

\* suspiciousRemoval, of the numbers of known, missing and found files.
SuspiciousRemoval(previous, missing, remaining) ==
    /\ missing > 0
    /\ \/ remaining = 0
       \/ missing >= MassRemovalMinimum /\ missing * 100 >= previous * MassRemovalPercent

Requested(l) == scan.libraries = {} \/ locations[l].library \in scan.libraries

\* The walk fails on a directory that cannot be read.
Readable(l) == locations[l].root \in online

Listed(l) == {p \in Paths : locations[l].root \in online /\ At(<<l, p>>).content # Gone}

\* One iteration over the roots: not requested, unreadable, a retry of single files,
\* a suspicious removal, or completed.
WalkRoot(l) ==
    LET listed == {<<l, p>> : p \in Listed(l)}
        wanted == IF scan.retry = {} THEN listed ELSE listed \cap scan.retry
        missing == {f \in ActiveSources(l) : f.place \notin listed}
        seen == {[place |-> k, token |-> At(k).token] : k \in wanted}
        left == [scan EXCEPT !.todo = @ \ {l}]
    IN  /\ scan.phase = "walking"
        /\ l \in scan.todo
        /\ \A k \in scan.todo : l <= k
        /\ scan' = IF ~Requested(l) THEN [left EXCEPT !.protected = @ \cup {l}]
                   ELSE IF ~Readable(l) THEN [left EXCEPT !.protected = @ \cup {l}, !.unavailable = @ \cup {l}]
                   ELSE IF scan.retry # {} THEN [left EXCEPT !.protected = @ \cup {l}, !.found = @ \cup seen]
                   ELSE IF SuspiciousRemoval(Cardinality(ActiveSources(l)), Cardinality(missing), Cardinality(listed))
                        THEN [left EXCEPT !.protected = @ \cup {l},
                                          !.reviews = @ \cup {[location |-> l, missing |-> {PhysicalId(f) : f \in missing}]}]
                   ELSE [left EXCEPT !.completed = @ \cup {l}, !.found = @ \cup seen]
        /\ UNCHANGED <<locations, files, titles, scans, mediaVars, ownerVars, playVars>>

\* inspect: a file that opens and is still the one the walk saw.
Inspected(f) == Readable(f.place[1]) /\ At(f.place).token = f.token

\* An unchanged file is not opened again, any other is inspected; either may fail
\* (broken: a probe, or the refresh of its sidecars).  Retry targets that were not
\* found fail.
Inspect(broken) ==
    LET unchanged == {f \in scan.found : \E old \in Known(f.place) : old.token = f.token}
        good == {f \in scan.found : f.place \notin broken /\ (f \in unchanged \/ Inspected(f))}
        unseen == {k \in scan.retry : \A f \in scan.found : f.place # k}
    IN  /\ scan.phase = "walking"
        /\ scan.todo = {}
        /\ broken \subseteq {f.place : f \in scan.found}
        /\ scan' = [scan EXCEPT !.phase = "inspected",
                       !.results = {[place |-> f.place, token |-> f.token,
                                     content |-> IF f \in unchanged THEN (CHOOSE old \in Known(f.place) : TRUE).content
                                                 ELSE At(f.place).content] : f \in good},
                       !.failures = {f.place : f \in scan.found \ good} \cup unseen]
        /\ UNCHANGED <<locations, files, titles, scans, mediaVars, ownerVars, playVars>>

(***************************************************************************)
(* Which title a file belongs to                                           *)
(***************************************************************************)

\* The primary file of a title: the one it has when the scan found it, else the first.
PrimaryOf(t, placed) ==
    LET own == {s \in placed : s.title = t}
        kept == {s \in own : t \in DOMAIN titles /\ s.place = titles[t].place}
    IN  IF kept # {} THEN CHOOSE s \in kept : TRUE
        ELSE CHOOSE s \in own : s.place = First({o.place : o \in own})

\* Titles that full digests prove to be of this content: sources known to the
\* catalog, titles, and titles whose primary this scan has already placed.
Proven(c, placed) ==
    {f.title : f \in {g \in files : g.content = c}} \cup {t \in DOMAIN titles : titles[t].content = c}
        \cup {t \in {s.title : s \in placed} : PrimaryOf(t, placed).content = c}

\* A file keeps the title of its path unless fresh evidence contradicts it; a new
\* file takes the only title its digest proves, and otherwise names a new one.
TitleFor(r, placed, contradicted) ==
    LET own == <<r.place[2], r.content>>
        proven == Proven(r.content, placed)
    IN  IF Known(r.place) # {} /\ r.place \notin contradicted THEN (CHOOSE old \in Known(r.place) : TRUE).title
        ELSE IF Known(r.place) = {} /\ Cardinality(proven) = 1 THEN CHOOSE t \in proven : TRUE
        ELSE own

Placed(r, placed, contradicted) ==
    [place |-> r.place, content |-> r.content, token |-> r.token, title |-> TitleFor(r, placed, contradicted)]

\* reconcileIdentity: one file after the other, in order of location and path.
Rank(r, results) == Cardinality({q \in results : Before(q.place, r.place)})
ReconcileIdentity(results, contradicted) ==
    LET placed[n \in 0..Cardinality(results)] ==
            IF n = 0 THEN {}
            ELSE placed[n - 1] \cup {Placed(r, placed[n - 1], contradicted) : r \in {q \in results : Rank(q, results) = n - 1}}
    IN  placed[Cardinality(results)]

\* Mutant of Carried: only reviewed and unreadable locations are carried over.
CarriedUnread ==
    {f \in files : f.present /\ f.place[1] \in scan.unavailable \cup {r.location : r \in scan.reviews}}

\* Present sources of protected locations and of failed retries stay as they are.
Carried ==
    {f \in files : /\ f.present
                   /\ f.place[1] \in scan.protected
                   /\ f.place \in scan.retry => f.place \in scan.failures}

\* Titles that no file, no carried source and no failed file supports.
Unsupported(placed) ==
    {t \in DOMAIN titles : /\ titles[t].place \notin scan.failures
                           /\ \A s \in placed \cup Carried : s.title # t}

\* A title whose primary failed, or that only carried sources support, keeps its row.
TitleAfter(t, placed) ==
    LET item == PrimaryOf(t, placed)
    IN  IF t \in Unsupported(placed) THEN [titles[t] EXCEPT !.available = FALSE]
        ELSE IF t \in DOMAIN titles /\ (titles[t].place \in scan.failures \/ \A s \in placed : s.title # t) THEN titles[t]
        ELSE [place |-> item.place, content |-> item.content, token |-> item.token, available |-> TRUE]

\* The titles after persist: no title is ever deleted.
TitlesAfter(placed) == [t \in DOMAIN titles \cup {s.title : s \in placed} |-> TitleAfter(t, placed)]

\* The source rows after persist: every row of a title that has a source in this
\* scan is reset, then the sources are written as present, the primary selected.
FilesAfter(placed, after) ==
    LET carried == {f \in Carried : titles[f.title].available}
        sources == {[place |-> s.place, content |-> s.content, token |-> s.token, title |-> s.title] : s \in placed}
                   \cup {[place |-> f.place, content |-> f.content, token |-> f.token, title |-> f.title] :
                            f \in {g \in carried : \A s \in placed : s.place # g.place}}
        reset == {s.title : s \in sources} \cup Unsupported(placed)
        same(f, s) == PhysicalId(f) = <<s.place, s.content, s.token>>
    IN  {IF f.title \in reset THEN [f EXCEPT !.present = FALSE, !.selected = FALSE] ELSE f :
            f \in {g \in files : \A s \in sources : ~same(g, s)}}
        \cup {[place |-> s.place, content |-> s.content, token |-> s.token, born |-> s.token, title |-> s.title,
               present |-> TRUE, selected |-> after[s.title].available /\ s.place = after[s.title].place] : s \in sources}

\* catalog_physical_location: at most one present row per location and path.
UniqueSources(rows) ==
    \A f \in rows : \A g \in rows : f.present /\ g.present /\ f.place = g.place => f = g

\* recordCompleteLocationsTx for the completed roots.
CompletedLocations ==
    [l \in Locations |-> IF l \in scan.completed
                         THEN [locations[l] EXCEPT !.state = "available", !.review = {}, !.pending = 0]
                         ELSE locations[l]]

ReachedSome == scan.unavailable = {} \/ scan.completed # {} \/ scan.reviews # {}

\* persist, one transaction.  A scan that reached no location at all records the first
\* failure and changes nothing else.
CommitScan(contradicted) ==
    LET placed == ReconcileIdentity(scan.results, contradicted)
        after == TitlesAfter(placed)
        rows == FilesAfter(placed, after)
    IN  /\ scan.phase = "inspected"
        /\ contradicted \subseteq {r.place : r \in {s \in scan.results :
                                      \E old \in Known(s.place) : old.content # s.content}}
        /\ ReachedSome
        /\ UniqueSources(rows)
        /\ titles' = after
        /\ files' = rows
        /\ locations' = CompletedLocations
        /\ scan' = [scan EXCEPT !.phase = "committed"]
        /\ skipped' = skipped \cup {f.place : f \in {g \in Carried : ~titles[g.title].available}}
        /\ UNCHANGED <<scans, mediaVars, preview, page, edits, playVars>>

\* recordUnavailableLocation and recordRemovalReview, after the commit.
Recorded(unavailable, reviews) ==
    [l \in Locations |->
        IF l \in unavailable THEN [locations[l] EXCEPT !.state = "unavailable", !.review = {}, !.pending = 0]
        ELSE IF \E r \in reviews : r.location = l
             THEN [locations[l] EXCEPT !.state = "review_required", !.pending = scan.id,
                                       !.review = (CHOOSE r \in reviews : r.location = l).missing]
        ELSE locations[l]]

FinishScan ==
    /\ scan.phase = "committed"
    /\ locations' = Recorded(scan.unavailable, scan.reviews)
    /\ scan' = NoScan
    /\ UNCHANGED <<files, titles, scans, mediaVars, ownerVars, playVars>>

\* Nothing could be read: the scan fails on its first location.
FailScan ==
    /\ scan.phase = "inspected"
    /\ ~ReachedSome
    /\ locations' = Recorded({CHOOSE l \in scan.unavailable : \A k \in scan.unavailable : l <= k}, {})
    /\ scan' = NoScan
    /\ UNCHANGED <<files, titles, scans, mediaVars, ownerVars, playVars>>

\* A cancellation or an error before the commit rolls everything back; a crash can
\* also fall between the commit and the records that follow it.
StopScan ==
    /\ scan.phase # "idle"
    /\ scan' = NoScan
    /\ UNCHANGED <<locations, files, titles, scans, mediaVars, ownerVars, playVars>>

(***************************************************************************)
(* What the owner decides                                                  *)
(***************************************************************************)

\* The owner loads the pending review of a location.
LoadReview(l) ==
    /\ locations[l].state = "review_required"
    /\ page' = [location |-> l, id |-> locations[l].pending, review |-> locations[l].review]
    /\ UNCHANGED <<locations, preview, files, titles, scan, scans, mediaVars, playVars, edits, skipped>>

\* The review the request names must still be the pending one.
ReviewPending(l, id) == locations[l].state = "review_required" /\ locations[l].pending = id

\* ConfirmRemovals: refused while a scan runs and for a review that is not pending.
ConfirmRemovals ==
    LET l == page.location
        gone == {f \in files : PhysicalId(f) \in locations[l].review}
    IN  /\ page # NoPage
        /\ scan.phase = "idle"
        /\ ReviewPending(l, page.id)
        /\ Reselect(Dropped(gone), {f.title : f \in gone})
        /\ locations' = [locations EXCEPT ![l].state = "available", ![l].review = {}, ![l].pending = 0]
        /\ UNCHANGED <<preview, page, edits, skipped, scan, scans, mediaVars, playVars>>

\* pathsOverlap, of roots that are the same directory.
Overlaps(r, l) == \E k \in Registered \ {l} : locations[k].root = r

AddLibraryLocation(l, library, r) ==
    /\ writes + edits < MaxChanges
    /\ scan.phase = "idle"
    /\ l \notin Registered /\ l # page.location /\ \A f \in files : f.place[1] # l
    /\ r \in online /\ ~Overlaps(r, l)
    /\ locations' = [locations EXCEPT ![l] = [NoLocation EXCEPT !.library = library, !.root = r, !.state = "unknown",
                                                              !.revision = 1]]
    /\ edits' = edits + 1
    /\ UNCHANGED <<preview, page, files, titles, scan, scans, mediaVars, playVars, skipped>>

\* PreviewLocationChange: r is the new root, or Gone for a removal.
PreviewLocationChange(l, r) ==
    /\ writes + edits < MaxChanges
    /\ scan.phase = "idle"
    /\ l \in Registered
    /\ r = Gone \/ (r \in online /\ ~Overlaps(r, l) /\ r # locations[l].root)
    /\ preview' = [preview EXCEPT ![l] = [revision |-> locations[l].revision, root |-> r,
                                          sources |-> {PhysicalId(f) : f \in ActiveSources(l)}]]
    /\ edits' = edits + 1
    /\ UNCHANGED <<locations, page, files, titles, scan, scans, mediaVars, playVars, skipped>>

CancelLocationChange(l) ==
    /\ preview[l] # NoPreview
    /\ preview' = [preview EXCEPT ![l] = NoPreview]
    /\ UNCHANGED <<locations, page, files, titles, scan, scans, mediaVars, playVars, edits, skipped>>


\* Mutant of LocationAfter: a moved location keeps its state and its pending review.
LocationMovedOnly(l) ==
    IF preview[l].root = Gone THEN NoLocation
    ELSE [locations[l] EXCEPT !.root = preview[l].root, !.revision = @ + 1]

\* What a confirmed change makes of the location.
LocationAfter(l) ==
    IF preview[l].root = Gone THEN NoLocation
    ELSE [locations[l] EXCEPT !.root = preview[l].root, !.revision = @ + 1, !.state = "unknown", !.pending = 0]

\* ConfirmLocationChange: refused when the location, its sources or the free roots changed
\* since the preview.
ConfirmLocationChange(l) ==
    LET gone == ActiveSources(l)
    IN  /\ preview[l] # NoPreview
        /\ l \in Registered
        /\ scan.phase = "idle"
        /\ preview[l].revision = locations[l].revision
        /\ preview[l].root = Gone \/ ~Overlaps(preview[l].root, l)
        /\ {PhysicalId(f) : f \in gone} = preview[l].sources
        /\ Reselect(Dropped(gone), {f.title : f \in gone})
        /\ locations' = [locations EXCEPT ![l] = LocationAfter(l)]
        /\ preview' = IF preview[l].root = Gone THEN [preview EXCEPT ![l] = NoPreview] ELSE preview
        /\ UNCHANGED <<page, edits, skipped, scan, scans, mediaVars, playVars>>

(***************************************************************************)
(* The source a playback is pinned to                                      *)
(***************************************************************************)

\* The whole file is read, and it did not change while it was read.
DigestMatches(item) == At(item.place).content = item.content

\* refreshSourceProof reads a title's primary file: the same bytes under a new token.
ReadProof(t) ==
    LET item == titles[t]
    IN  /\ proof = NoProof
        /\ t \in DOMAIN titles /\ item.available
        /\ item.place[1] \in Registered /\ Readable(item.place[1])
        /\ At(item.place).token # item.token
        /\ DigestMatches(item)
        /\ proof' = [title |-> t, place |-> item.place, root |-> locations[item.place[1]].root,
                     content |-> item.content, token |-> item.token, found |-> At(item.place).token]
        /\ UNCHANGED <<locations, files, titles, scan, scans, mediaVars, ownerVars, admitted>>

\* The title still has the source that was read.
ProofCurrent ==
    LET item == titles[proof.title]
    IN  /\ item.place = proof.place /\ item.content = proof.content /\ item.token = proof.token
        /\ locations[proof.place[1]].root = proof.root

\* Its commit, refused while a scan runs or when the source is not the one it read.
SaveProof ==
    LET row == {f \in files : f.place = proof.place /\ f.present}
        refreshed == scan.phase = "idle" /\ ProofCurrent /\ \E f \in row : f.content = proof.content /\ f.token = proof.token
    IN  /\ proof # NoProof
        /\ proof' = NoProof
        /\ files' = IF refreshed
                    THEN (files \ row) \cup {[f EXCEPT !.token = proof.found] : f \in row} ELSE files
        /\ titles' = IF refreshed THEN [titles EXCEPT ![proof.title].token = proof.found] ELSE titles
        /\ UNCHANGED <<locations, scan, scans, mediaVars, ownerVars, admitted>>

\* Mutant of Opens: the change token is not compared.
OpensAny(root, place, token) == root \in online /\ FileAt(root, place[2]).content # Gone

\* A file opens for a source when its token, size and time are the recorded ones.
Opens(root, place, token) ==
    root \in online /\ FileAt(root, place[2]).content # Gone /\ FileAt(root, place[2]).token = token

\* A plan captures the key of a present source that opens.
Admit(f) ==
    LET root == locations[f.place[1]].root
    IN  /\ f.present /\ titles[f.title].available
        /\ f.place[1] \in Registered
        /\ Opens(root, f.place, f.token)
        /\ admitted' = [title |-> f.title, place |-> f.place, root |-> root, content |-> f.content,
                        token |-> f.token, opened |-> Gone]
        /\ UNCHANGED <<locations, files, titles, scan, scans, mediaVars, ownerVars, proof>>

\* OpenSource: the key must name a present source of the title, and the file its proof.
OpenSource ==
    /\ admitted # NoKey
    /\ titles[admitted.title].available
    /\ \E f \in files : /\ f.title = admitted.title /\ f.present
                         /\ f.place = admitted.place /\ f.content = admitted.content /\ f.token = admitted.token
                         /\ locations[f.place[1]].root = admitted.root
    /\ Opens(admitted.root, admitted.place, admitted.token)
    /\ admitted' = [admitted EXCEPT !.opened = FileAt(admitted.root, admitted.place[2]).content]
    /\ UNCHANGED <<locations, files, titles, scan, scans, mediaVars, ownerVars, proof>>

Requests == {[libraries |-> {}, retry |-> {}]}
            \cup {[libraries |-> {b}, retry |-> {}] : b \in Libraries}
            \cup {[libraries |-> {locations[k[1]].library}, retry |-> {k}] : k \in {j \in Places : j[1] \in Registered}}

DiskNext ==
    \/ \E d \in DOMAIN disk : \E c \in Contents : WriteFile(d, c)
    \/ \E d \in DOMAIN disk : RemoveFile(d)
    \/ \E r \in Roots : Mount(r)

ScanNext ==
    \/ \E q \in Requests : StartScan(q.libraries, q.retry)
    \/ \E l \in Locations : WalkRoot(l)
    \/ \E broken \in SUBSET {f.place : f \in scan.found} : Inspect(broken)
    \/ \E contradicted \in SUBSET {r.place : r \in scan.results} : CommitScan(contradicted)
    \/ FinishScan
    \/ FailScan
    \/ StopScan

OwnerNext ==
    \/ \E l \in Locations : LoadReview(l)
    \/ ConfirmRemovals
    \/ \E l \in Locations : \E b \in Libraries : \E r \in Roots : AddLibraryLocation(l, b, r)
    \/ \E l \in Locations : \E r \in Roots \cup {Gone} : PreviewLocationChange(l, r)
    \/ \E l \in Locations : CancelLocationChange(l)
    \/ \E l \in Locations : ConfirmLocationChange(l)

PlayNext ==
    \/ \E t \in DOMAIN titles : ReadProof(t)
    \/ SaveProof
    \/ \E f \in files : Admit(f)
    \/ OpenSource

CatalogNext == DiskNext \/ ScanNext \/ OwnerNext \/ PlayNext

CatalogSpec == CatalogInit /\ [][CatalogNext]_catalogVars

(***************************************************************************)
(* Properties                                                              *)
(***************************************************************************)

\* Types of the catalog's state.
CatalogTypeOK ==
    /\ disk \in [DOMAIN FirstDisk -> [content : Contents \cup {Gone}, token : 0..writes]]
    /\ online \subseteq Roots
    /\ \A f \in files : f.place \in Places /\ f.content \in Contents /\ f.title \in DOMAIN titles
    /\ DOMAIN titles \subseteq TitleIds
    /\ \A l \in Locations : locations[l].root \in Roots \cup {Gone} /\ locations[l].review \subseteq {PhysicalId(f) : f \in files}
    /\ scan.phase \in {"idle", "walking", "inspected", "committed"}

\* A title shown as available has at least one source that is present (persist, reselectCatalogSource):
\* whatever scans, reviews and location changes did, viewers are never offered a title without a file row.
AvailableHasSource == \A t \in DOMAIN titles : titles[t].available => \E f \in files : f.title = t /\ f.present

\* A pending review lists only places where the catalog still holds a file as present, so confirming it settles
\* what the owner was shown and nothing that a later scan or move already did (recordRemovalReview, ConfirmLocationChange).
\* Excepted are the places that UnreadSourcesKept is about.
ReviewExact ==
    \A l \in Locations : locations[l].state = "review_required" =>
        /\ locations[l].review # {}
        /\ {i[1] : i \in locations[l].review} \subseteq PresentAt(l) \cup skipped

\* The file an admitted playback opens holds the bytes it was admitted for, however the disk, the proof
\* refresh, scans and location changes interleave (OpenSource, refreshSourceProof).
PinnedSource == admitted.opened # Gone => admitted.opened = admitted.content

\* The token a source row holds is of the content it claims: nobody vouches for bytes that were not read.
ProofHonest ==
    \A f \in files : f.present =>
        LET root == locations[f.place[1]].root
        IN  root # Gone /\ FileAt(root, f.place[2]).token = f.token => FileAt(root, f.place[2]).content = f.content

\* The rows the catalog vouches for: typed, a source for what is offered, honest proofs, and an admitted
\* playback reads what it was admitted for.
CatalogInv == CatalogTypeOK /\ AvailableHasSource /\ ProofHonest /\ PinnedSource

\* A scan never drops an available title's source at a location it was not asked for, could not read, or sent to
\* review: "a disconnected or unreadable mount is not an empty library" (scan, persist).
ProtectedSourcesKept ==
    [][\A f \in files : /\ scan.phase = "inspected" /\ scan'.phase = "committed"
                        /\ f.present /\ titles[f.title].available
                        /\ f.place[1] \in Registered
                        /\ ~Requested(f.place[1]) \/ f.place[1] \in scan.unavailable
                              \/ \E r \in scan.reviews : r.location = f.place[1]
            => \E g \in files' : g.present /\ g.place = f.place]_catalogVars

\* Every file of a location with an available title disappears from the catalog only when the owner confirmed it
\* or other files were found there: no scan empties such a location on its own (suspiciousRemoval).
EmptiedByOwner ==
    [][\A l \in Registered : /\ scan.phase = "inspected" /\ scan'.phase = "committed"
                             /\ \E f \in ActiveSources(l) : titles[f.title].available
                             /\ {f \in files' : f.present /\ f.place[1] = l} = {}
            => \E f \in scan.found : f.place[1] = l]_catalogVars

\* Confirming a review removes exactly the sources the owner was shown (ConfirmRemovals): a review that a
\* later scan replaced cannot be confirmed from an old page.
ConfirmedWasShown ==
    [][\A l \in Locations : locations[l].state = "review_required" /\ locations'[l].state = "available" /\ scan.phase = "idle"
            => page = [location |-> l, id |-> locations[l].pending, review |-> locations[l].review]]_catalogVars

\* Nothing is removed in bulk that the owner was not shown and did not confirm.
OwnerConfirms == EmptiedByOwner /\ ConfirmedWasShown

\* docs/development.md:374: "Missing or unreadable locations retain their prior physical sources", whatever their
\* titles: a commit leaves every present source of a location it could not read present (persist).
UnreadSourcesKept ==
    [][\A f \in files : /\ scan.phase = "inspected" /\ scan'.phase = "committed"
                        /\ f.present /\ f.place[1] \in scan.unavailable
            => \E g \in files' : g.present /\ g.place = f.place]_catalogVars

=============================================================================
