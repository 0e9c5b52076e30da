------------------------------ MODULE MCServer ------------------------------
(* TLC instance of the catalog, of media versions and of artwork.        *)
(* They share no state (each has its own tables, lock and goroutines; what   *)
(* one uses of another is part of its own module), so a behaviour is one of  *)
(* one part and the others rest in an initial state.                         *)
EXTENDS TLC, CatalogScan, MediaVersions, Artwork

CONSTANTS
  Parts,               \* the components whose behaviours are explored
  r1, r2, la, lb, x

\* Two files with the same content in two libraries, and room for a third.
MCDisk ==
  (<<r1, 1>> :> [content |-> x, token |-> 1]) @@ (<<r1, 2>> :> NoFile)
    @@ (<<r2, 1>> :> [content |-> x, token |-> 2])
MCLocations == 1 :> [library |-> la, root |-> r1] @@ 2 :> [library |-> lb, root |-> r2]

\* One library of one file, and copies of it in two directories that are not configured.
MCCopies == [d \in Roots \X Paths |-> [content |-> x, token |-> IF d[1] = r1 THEN 1 ELSE IF d[1] = r2 THEN 2 ELSE 3]]
MCOneLocation == 1 :> [library |-> la, root |-> r1]

\* Three encodings: the second plays directly, the third is in a library the
\* profile may not use.
MCCoordinates == [t \in Anchors |-> {}]
MCRank == <<1, 0, 1>>
MCBitrate == <<1, 1, 2>>
MCAllowed == [a \in Audience |-> {1, 2}]
MCDevices == {{1, 3}, Anchors}

VARIABLE part

serverVars == <<part, catalogVars, versionVars, artworkVars>>

ServerInit ==
  /\ part \in Parts
  /\ CatalogInit /\ VersionsInit /\ ArtworkInit

ServerNext ==
  /\ UNCHANGED part
  /\ \/ part = "catalog" /\ CatalogNext
        /\ UNCHANGED <<versionVars, artworkVars>>
     \/ part = "versions" /\ VersionsNext
        /\ UNCHANGED <<catalogVars, artworkVars>>
     \/ part = "artwork" /\ ArtworkNext
        /\ UNCHANGED <<catalogVars, versionVars>>

ServerSpec == ServerInit /\ [][ServerNext]_serverVars
=============================================================================
