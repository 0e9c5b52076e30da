------------------------------- MODULE Artwork -------------------------------
(**************************************************************************)
(* The poster of one film: the immutable object files, the rows that name    *)
(* them (catalog_artwork, catalog_local_artwork with its fallback and        *)
(* catalog_local_identity_artwork), the retry row, and the writers that move *)
(* them: a library scan with its sidecar files, an owner's match, unmatch,   *)
(* edit and refresh, and the collection of orphans.                          *)
(*                                                                           *)
(* A writer holds artworkMu from its first object file to its last removal;  *)
(* it writes the files, commits one transaction and removes what the commit  *)
(* made obsolete, or what it wrote when the commit fails.  A crash comes in  *)
(* between.  A poster value is TRUE when it is the artwork URL.              *)
(**************************************************************************)
EXTENDS Integers

CONSTANTS
  ProviderIds,   \* films the provider knows
  NoId,
  MaxArtworks,   \* bound on the object files ever written
  MaxArtSteps    \* bound on the scans and the owner's operations
ASSUME ArtworkAssumption == NoId \notin ProviderIds /\ MaxArtworks \in Nat /\ MaxArtSteps \in Nat

VARIABLES
  rows,      \* the committed tables
  objects,   \* files under artwork/objects
  made,      \* object names drawn so far
  steps,     \* scans and owner's operations begun
  write,     \* the transaction in progress
  import,    \* the library scan in progress
  disowned   \* history: objects two rows came to name as their own, or whose row was passed over

artworkVars == <<rows, objects, made, steps, write, import, disowned>>

NoObject == 0
NoLocal == [row |-> FALSE, object |-> NoObject, fallback |-> NoObject, value |-> FALSE]
NoNFO == [row |-> FALSE, provider |-> NoId, fallback |-> NoId, poster |-> "unknown"]
NoField == [source |-> "none", locked |-> FALSE, value |-> FALSE]
NewTitle == [art |-> NoObject, local |-> NoLocal, saved |-> NoObject, retry |-> NoId, nfo |-> NoNFO,
             provider |-> NoId, owner |-> "none", poster |-> FALSE, field |-> NoField]
NoWrite == [at |-> "none"]
NoIntent == [intent |-> FALSE, desired |-> NoId, restoring |-> FALSE, prior |-> NoId, priorPoster |-> FALSE]
NoImport == [at |-> "none"]
MaybeId == ProviderIds \cup {NoId}
Tables ==
  [art : Nat, local : [row : BOOLEAN, object : Nat, fallback : Nat, value : BOOLEAN], saved : Nat, retry : MaybeId,
   nfo : [row : BOOLEAN, provider : MaybeId, fallback : MaybeId, poster : {"unknown", "shown", "blank"}],
   provider : MaybeId, owner : {"none", "match", "unmatch"}, poster : BOOLEAN,
   field : [source : {"none", "local", "provider", "owner"}, locked : BOOLEAN, value : BOOLEAN]]

ArtworkTypeOK ==
  /\ rows \in Tables /\ objects \subseteq 1 .. made /\ made \in 0 .. MaxArtworks
  /\ steps \in 0 .. MaxArtSteps /\ disowned \subseteq 1 .. made
  /\ write = NoWrite \/ /\ write.at \in {"cache", "persist", "owner", "committed"} /\ write.after \in Tables
                        /\ write.created \cup write.obsolete \cup write.taken \subseteq 1 .. made
  /\ import = NoImport \/ /\ import.at \in {"started", "caching", "enriched", "persisting"}
                          /\ import.provider \in MaybeId /\ import.poster \in BOOLEAN

ArtworkInit ==
  /\ rows = NewTitle /\ objects = {} /\ made = 0 /\ steps = 0 /\ write = NoWrite /\ import = NoImport /\ disowned = {}

\* The objects some row names; a backup copies each of them, and fails without it.
References(t) == {t.art, t.local.object, t.local.fallback, t.saved} \ {NoObject}

\* The value an owner lock or a local sidecar keeps.
Shielded(t) == t.field.locked \/ t.field.source = "local"
Kept(t, value) == IF Shielded(t) THEN t.field.value ELSE value

-----------------------------------------------------------------------------
(* A transaction under artworkMu.                                          *)

\* The files are on disk, the rows are not committed.
Begin(kind, after, fresh, obsolete, taken) ==
  /\ write.at = "none" /\ made + fresh <= MaxArtworks
  /\ made' = made + fresh /\ objects' = objects \cup ((made + 1) .. (made + fresh))
  /\ write' = [at |-> kind, after |-> after, created |-> (made + 1) .. (made + fresh),
               obsolete |-> obsolete \ {NoObject}, taken |-> taken \ {NoObject}]

\* The commit publishes the rows.
Publish == rows' = write.after /\ write' = [write EXCEPT !.at = "committed"] /\ disowned' = disowned \cup write.taken

\* An error before the commit removes what was written.
Withdraw == objects' = objects \ write.created /\ write' = NoWrite /\ UNCHANGED <<rows, made, disowned>>

\* After the commit what it replaced is removed and the lock given back.
RemoveObsolete ==
  /\ write.at = "committed"
  /\ objects' = objects \ write.obsolete /\ write' = NoWrite
  /\ UNCHANGED <<rows, made, import, disowned>>

-----------------------------------------------------------------------------
(* A library scan.                                                         *)

\* localIdentityHints: the identity the NFO asks for, or the one to go back to.
Intent(nfo, complete) ==
  LET back == /\ nfo = "plain" \/ (nfo = "absent" /\ complete)
              /\ rows.nfo.row /\ rows.nfo.provider # NoId
      desired == IF nfo \in ProviderIds THEN nfo ELSE rows.nfo.fallback
  IN IF \/ nfo \notin ProviderIds /\ ~back
        \/ rows.owner = "unmatch" \/ rows.provider = desired
        \/ rows.owner = "match" /\ rows.provider # desired
     THEN NoIntent
     ELSE [intent |-> TRUE, desired |-> desired, restoring |-> nfo \notin ProviderIds,
           prior |-> rows.provider, priorPoster |-> rows.poster]

\* The scan reads the sidecars and carries the title over.  A new identity starts
\* blank; a title without a match keeps its poster while its file is unchanged.
StartImport(nfo, file, complete, unchanged) ==
  LET stage == Intent(nfo, complete)
      carried == rows.provider # NoId \/ rows.owner # "none"
  IN
  /\ import.at = "none" /\ write.at = "none"
  /\ import' = [at |-> "started", nfo |-> nfo, file |-> file, complete |-> complete, stage |-> stage,
                provider |-> IF stage.intent THEN NoId ELSE rows.provider,
                poster |-> IF carried /\ ~stage.intent THEN rows.poster
                           ELSE Kept(rows, unchanged /\ ~stage.intent /\ rows.poster),
                fetched |-> "none"]
  /\ UNCHANGED <<rows, objects, made, write, disowned>>

\* No provider, no match, or nothing to ask for.
EnrichNothing ==
  /\ import.at = "started" /\ import' = [import EXCEPT !.at = "enriched"]
  /\ UNCHANGED <<rows, objects, made, write, disowned>>

\* stageLocalProviderArtwork: the artwork of an NFO identity stays out of the
\* cache until the scan commits.
EnrichIdentity(fetched) ==
  /\ import.at = "started" /\ import.stage.intent /\ ~import.stage.restoring
  /\ import' = [import EXCEPT !.at = "enriched", !.provider = import.stage.desired,
                  !.poster = Kept(rows, fetched = "ok" /\ ~rows.field.locked),
                  !.fetched = IF rows.field.locked THEN "none" ELSE fetched]
  /\ UNCHANGED <<rows, objects, made, write, disowned>>

\* The identity the provider answers for: a matched title asks again only for a
\* pending retry, or for the missing artwork of a forced refresh.
ProviderAnswers(id) ==
  /\ ~import.stage.intent /\ rows.owner # "unmatch"
  /\ \/ import.provider = NoId
     \/ import.provider = id /\ rows.retry = id
     \/ import.provider = id /\ ~Shielded(rows)

\* cacheEnrichmentArtwork: nothing to fetch, or the fetch fails and is remembered.
EnrichWithout(id, fetched) ==
  /\ import.at = "started" /\ ProviderAnswers(id)
  /\ rows' = IF fetched = "failed" /\ ~import.poster THEN [rows EXCEPT !.retry = id] ELSE rows
  /\ import' = [import EXCEPT !.at = "enriched", !.provider = id, !.poster = Kept(rows, import.poster)]
  /\ UNCHANGED <<objects, made, write, disowned>>

\* Mutant of AsFallback: the local object is not put back as the one shown.
AsFallbackShown(t, object) == [t EXCEPT !.art = object, !.local.fallback = object, !.local.value = TRUE]

\* Local artwork is shown: what the provider has becomes its fallback.
AsFallback(t, object) == [t EXCEPT !.art = t.local.object, !.local.fallback = object, !.local.value = TRUE]
ShowsLocal(t) == t.local.row /\ t.art # NoObject

\* A completed retry must still be the title's identity.
StaleRetry(id) == rows.retry = id /\ ~ShowsLocal(rows) /\ rows.provider # id

\* cacheArtworkAndClearRetry writes the fetched artwork while the scan runs.
CacheArtworkAndClearRetry(id) ==
  LET retried == rows.retry = id
      cleared == [rows EXCEPT !.retry = IF retried THEN NoId ELSE @]
  IN
  /\ import.at = "started" /\ ProviderAnswers(id) /\ ~import.poster
  /\ Begin("cache",
           IF ShowsLocal(rows) THEN AsFallback(cleared, made + 1)
           ELSE [cleared EXCEPT !.art = made + 1, !.poster = @ \/ retried],
           1, {IF ShowsLocal(rows) THEN rows.local.fallback ELSE rows.art}, {})
  /\ import' = [import EXCEPT !.at = "caching", !.provider = id]
  /\ UNCHANGED <<rows, disowned>>

CacheCommits ==
  /\ write.at = "cache" /\ ~StaleRetry(import.provider) /\ Publish
  /\ import' = [import EXCEPT !.at = "enriched", !.poster = Kept(rows, TRUE)]
  /\ UNCHANGED <<objects, made>>

\* The commit failed or the retry was stale: the object goes, the retry is remembered.
CacheFails ==
  /\ write.at = "cache"
  /\ objects' = objects \ write.created /\ write' = NoWrite
  /\ rows' = [rows EXCEPT !.retry = import.provider]
  /\ import' = [import EXCEPT !.at = "enriched", !.poster = Kept(rows, FALSE)]
  /\ UNCHANGED <<made, disowned>>

-----------------------------------------------------------------------------
(* persistLocalMetadataTx: the steps of one plan.                          *)

\* captureIdentityArtwork: the artwork of the identity to come back to; a local
\* layer without a fallback has its own object captured.
Captured(t) == IF t.local.fallback # NoObject THEN t.local.fallback ELSE t.art
Capture(t) == IF t.field.locked \/ t.saved # NoObject THEN t ELSE [t EXCEPT !.saved = Captured(t)]

\* clearProviderArtwork: what is not retained as identity artwork is obsolete.
ClearProvider(t) ==
  IF t.field.locked THEN t
  ELSE IF t.local.row THEN [t EXCEPT !.local.fallback = NoObject, !.local.value = FALSE, !.retry = NoId]
  ELSE [t EXCEPT !.art = NoObject, !.retry = NoId]
Cleared(t) == IF t.field.locked THEN {} ELSE {IF t.local.row THEN t.local.fallback ELSE t.art} \ {t.saved}

\* The staged provider artwork, under a local layer if there is one.
ProviderArtwork(t, object) == IF ShowsLocal(t) THEN AsFallback(t, object) ELSE [t EXCEPT !.art = object]
ReplacedBy(t) == {IF ShowsLocal(t) THEN t.local.fallback ELSE t.art}

\* restoreIdentityArtwork.
Restore(t) ==
  IF t.field.locked \/ t.saved = NoObject THEN t
  ELSE IF t.local.row THEN [t EXCEPT !.local.fallback = t.saved, !.local.value = TRUE, !.saved = NoObject]
  ELSE [t EXCEPT !.art = t.saved, !.saved = NoObject]
Restored(t) == IF t.field.locked \/ t.saved = NoObject \/ ~t.local.row THEN {} ELSE {t.local.fallback}

\* restoreLocalFieldTx.
FieldBack(t, value, provider) ==
  IF t.field.locked THEN t
  ELSE [t EXCEPT !.field = IF provider THEN [source |-> "provider", locked |-> FALSE, value |-> value] ELSE NoField]

\* A document whose identifier is invalid keeps the one it had.
NFOFound == import.nfo \in ProviderIds \cup {"plain", "bad_id"}
NFOAsks == IF import.nfo = "bad_id" THEN rows.nfo.provider ELSE IF import.nfo \in ProviderIds THEN import.nfo ELSE NoId
NFORemoved == import.nfo = "absent" /\ rows.nfo.row /\ import.complete

\* The identity the NFO names, unless the owner chose another.
NFOProvider ==
  IF rows.owner = "unmatch" \/ (rows.owner = "match" /\ import.provider # NFOAsks) THEN NoId ELSE NFOAsks

PosterValue(shown) == IF shown THEN "shown" ELSE "blank"

\* The NFO's row; what it falls back to is fixed when it is first imported.
NFORow ==
  IF rows.nfo.row THEN [rows.nfo EXCEPT !.provider = NFOProvider]
  ELSE IF import.stage.intent /\ NFOProvider # NoId
       THEN [row |-> TRUE, provider |-> NFOProvider, fallback |-> import.stage.prior,
             poster |-> PosterValue(import.stage.priorPoster)]
       ELSE [row |-> TRUE, provider |-> NFOProvider, fallback |-> import.provider, poster |-> "unknown"]

\* catalog_local_metadata and the fields it touches.
Document(t) ==
  IF NFORemoved
  THEN LET back == [t EXCEPT !.nfo = NoNFO] IN
       IF rows.nfo.poster = "unknown" THEN back
       ELSE FieldBack(back, rows.nfo.poster = "shown", rows.nfo.fallback # NoId)
  ELSE IF NFOFound
  THEN [t EXCEPT !.nfo = NFORow, !.field = IF @.source = "local" THEN NoField ELSE @]
  ELSE t

\* applyLocalPlan: the poster value and the provider of the scanned title.
PlannedPoster ==
  IF (NFORemoved \/ (NFOFound /\ import.stage.restoring)) /\ ~rows.field.locked /\ rows.nfo.poster # "unknown"
  THEN rows.nfo.poster = "shown" ELSE import.poster
PlannedProvider ==
  CASE NFORemoved -> rows.nfo.fallback
    [] NFOFound /\ NFOProvider # NoId -> NFOProvider
    [] NFOFound /\ NFOProvider = NoId /\ rows.nfo.provider # NoId -> rows.nfo.fallback
    [] OTHER -> import.provider

\* The artwork file: imported, or gone from a location that was read to its end.
FileImported == import.file = "image" /\ ~rows.field.locked
FileRemoved == import.file = "absent" /\ rows.local.row /\ import.complete /\ ~rows.field.locked

\* The local layer of a plan.  A first import keeps what was shown as its fallback.
Layer(t, object) ==
  IF FileImported
  THEN [t EXCEPT !.art = object,
          !.local = IF @.row THEN [@ EXCEPT !.object = object]
                    ELSE [row |-> TRUE, object |-> object,
                          fallback |-> IF PlannedPoster THEN t.art ELSE NoObject, value |-> PlannedPoster],
          !.field = IF @.locked THEN @ ELSE [source |-> "local", locked |-> FALSE, value |-> TRUE]]
  ELSE IF FileRemoved
  THEN FieldBack([t EXCEPT !.art = t.local.fallback, !.local = NoLocal], rows.local.value, t.local.fallback # NoObject)
  ELSE t
Unlayered(t) ==
  IF FileImported THEN (IF t.local.row THEN {t.local.object} ELSE IF PlannedPoster THEN {} ELSE {t.art})
  ELSE IF FileRemoved THEN {t.local.object} ELSE {}

\* The end of persist: the title's row, and retries of another identity dropped.
Titled(t) ==
  [t EXCEPT !.provider = PlannedProvider, !.retry = IF @ = PlannedProvider THEN @ ELSE NoId,
            !.poster = IF FileImported THEN TRUE ELSE IF FileRemoved THEN rows.local.value ELSE PlannedPoster]

\* One plan: capture, clear, provider artwork, retry, restore, document, local layer.
Persist ==
  LET stage == import.stage
      staged == stage.intent /\ import.fetched = "ok"
      new == IF staged THEN 1 ELSE 0
      capturing == stage.intent /\ ~stage.restoring /\ rows.nfo.provider = NoId
      t1 == IF capturing THEN Capture(rows) ELSE rows
      t2 == IF stage.intent /\ stage.prior # NoId THEN ClearProvider(t1) ELSE t1
      t3 == IF staged THEN ProviderArtwork(t2, made + 1) ELSE t2
      t4 == [t3 EXCEPT !.retry = IF stage.intent /\ import.fetched = "failed" THEN stage.desired ELSE @]
      t5 == IF stage.restoring THEN Restore(t4) ELSE t4
      t6 == Document(t5)
  IN
  /\ import.at = "enriched"
  /\ Begin("persist", Titled(Layer(t6, made + new + 1)), new + (IF FileImported THEN 1 ELSE 0),
           (IF stage.intent /\ stage.prior # NoId THEN Cleared(t1) ELSE {})
             \cup (IF staged THEN ReplacedBy(t2) ELSE {})
             \cup (IF stage.restoring THEN Restored(t4) ELSE {}) \cup Unlayered(t6),
           IF t1.saved = rows.saved THEN {}
           ELSE {t2.saved} \cap {t2.art, t2.local.object, t2.local.fallback})
  /\ import' = [import EXCEPT !.at = "persisting"]
  /\ UNCHANGED <<rows, disowned>>

PersistCommits == write.at = "persist" /\ Publish /\ import' = NoImport /\ UNCHANGED <<objects, made>>

\* A cancelled scan or a failed commit leaves the last catalog.
PersistFails == write.at = "persist" /\ Withdraw /\ import' = NoImport
ImportFails ==
  /\ import.at \in {"started", "enriched"} /\ write.at = "none" /\ import' = NoImport
  /\ UNCHANGED <<rows, objects, made, write, disowned>>

-----------------------------------------------------------------------------
(* The owner, while no scan runs.                                          *)

\* saveMatch and updateMatch: the chosen identity, with its artwork, without any,
\* or with a retry for it.
Matched(id, fetched) ==
  LET owned == [rows EXCEPT !.provider = id, !.owner = IF id = NoId THEN "unmatch" ELSE "match",
                  !.poster = Kept(rows, FALSE), !.saved = NoObject,
                  !.nfo = IF @.row THEN [@ EXCEPT !.fallback = id, !.poster = "blank"] ELSE @,
                  !.retry = IF fetched = "failed" THEN id ELSE NoId]
  IN IF fetched = "ok"
     THEN IF ShowsLocal(rows) THEN AsFallback(owned, made + 1) ELSE [owned EXCEPT !.art = made + 1, !.poster = TRUE]
     ELSE IF ShowsLocal(rows) THEN [owned EXCEPT !.local.fallback = NoObject, !.local.value = FALSE] ELSE owned

Match(id, fetched) ==
  /\ import.at = "none"
  /\ Begin("owner", Matched(id, fetched), IF fetched = "ok" THEN 1 ELSE 0,
           {rows.saved} \cup (IF ShowsLocal(rows) THEN {rows.local.fallback}
                              ELSE IF fetched = "ok" THEN {rows.art} ELSE {}), {})
  /\ UNCHANGED <<rows, import, disowned>>
Unmatch == Match(NoId, "none")

\* EditMetadata of the poster by the owner.
EditMetadata(source, value, locked) ==
  /\ import.at = "none"
  /\ Begin("owner", [rows EXCEPT !.retry = NoId, !.poster = value,
                       !.field = [source |-> source, locked |-> locked, value |-> value]], 0, {}, {})
  /\ UNCHANGED <<rows, import, disowned>>

\* Refresh: a provider write asks the field's source, not the local row, whether
\* local artwork is shown.
Refresh(offered) ==
  LET blank == [rows EXCEPT !.retry = NoId]
      shown == [blank EXCEPT !.art = made + 1, !.poster = TRUE,
                  !.field = [source |-> "provider", locked |-> FALSE, value |-> TRUE]]
  IN
  /\ import.at = "none" /\ rows.provider # NoId
  /\ IF rows.field.locked \/ ~offered THEN Begin("owner", blank, 0, {}, {})
     ELSE IF rows.field.source = "local"
     THEN ShowsLocal(rows) /\ Begin("owner", AsFallback(blank, made + 1), 1, {rows.local.fallback}, {})
     ELSE Begin("owner", shown, 1, {rows.art}, IF rows.local.row THEN {rows.local.object} ELSE {})
  /\ UNCHANGED <<rows, import, disowned>>

OwnerCommits == write.at = "owner" /\ Publish /\ UNCHANGED <<objects, made, import>>
OwnerFails == write.at = "owner" /\ Withdraw /\ UNCHANGED import

-----------------------------------------------------------------------------
(* Maintenance and crashes.                                                *)

\* cleanupArtworkObjectsLocked reads the directory in batches, each of whatever
\* it finds, and removes what no row names.
CleanupArtworkObjects(batch) ==
  /\ write.at = "none" /\ batch \ References(rows) # {}
  /\ objects' = objects \ (batch \ References(rows))
  /\ UNCHANGED <<rows, made, write, import, disowned>>

\* The process dies; files and committed rows stay.
CrashArtwork ==
  /\ write.at # "none" \/ import.at # "none"
  /\ write' = NoWrite /\ import' = NoImport
  /\ UNCHANGED <<rows, objects, made, disowned>>

\* What a scan or an owner begins.
Begins ==
  \/ \E nfo \in ProviderIds \cup {"absent", "plain", "bad", "bad_id"}, file \in {"absent", "image", "bad"},
        complete, unchanged \in BOOLEAN : StartImport(nfo, file, complete, unchanged)
  \/ \E id \in ProviderIds, f \in {"none", "ok", "failed"} : Match(id, f)
  \/ Unmatch
  \/ \E offered \in BOOLEAN : Refresh(offered)
  \/ \E source \in {"owner", "local"}, value, locked \in BOOLEAN : EditMetadata(source, value, locked)

\* What carries it on, or happens meanwhile.
Proceeds ==
  \/ EnrichNothing
  \/ \E f \in {"none", "ok", "failed"} : EnrichIdentity(f)
  \/ \E id \in ProviderIds, f \in {"none", "failed"} : EnrichWithout(id, f)
  \/ \E id \in ProviderIds : CacheArtworkAndClearRetry(id)
  \/ CacheCommits \/ CacheFails \/ Persist \/ PersistCommits \/ PersistFails \/ ImportFails
  \/ OwnerCommits \/ OwnerFails \/ RemoveObsolete
  \/ \E batch \in SUBSET objects : CleanupArtworkObjects(batch)
  \/ CrashArtwork

ArtworkNext ==
  \/ steps < MaxArtSteps /\ steps' = steps + 1 /\ Begins
  \/ UNCHANGED steps /\ Proceeds

ArtworkSpec == ArtworkInit /\ [][ArtworkNext]_artworkVars

-----------------------------------------------------------------------------
(* Properties.                                                             *)

\* Every object that a committed row names is on disk, whatever writer stopped
\* where: Artwork serves it and a backup copies it.  The objects excepted are
\* the ones of `disowned`: the local artwork that a refresh replaced without
\* asking for its row, and the artwork captured for an identity while another
\* row goes on naming it, so that whichever row goes first takes the file.
ReferencesKept == References(rows) \subseteq objects \cup disowned

\* The local artwork stays the one shown through matches, refreshes and retries
\* of the provider's, for as long as the poster's field says local.
LocalVisible ==
  rows.local.row /\ rows.field.source = "local" /\ rows.local.object \notin disowned => rows.art = rows.local.object

\* The poster's rows and its files agree, through every writer, crash and collection.
ArtworkInv == ArtworkTypeOK /\ ReferencesKept /\ LocalVisible
=============================================================================
