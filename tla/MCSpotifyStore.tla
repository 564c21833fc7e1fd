--------------------------- MODULE MCSpotifyStore ---------------------------
(* A small catalogue and a listening history for TLC.  Tracks X and Y share
   artist P, Y has a second artist, and track Z has none but shares Y's album. *)
EXTENDS SpotifyStore, TLC

CONSTANTS c1, c2, u1, trkX, trkY, trkZ, albX, albY, artP, artQ

CatalogueAlbumOf   == (trkX :> albX) @@ (trkY :> albY) @@ (trkZ :> albY)
CatalogueArtistsOf == (trkX :> <<artP>>) @@ (trkY :> <<artQ, artP>>) @@ (trkZ :> <<>>)
ThreePlays         == u1 :> <<trkZ, trkY, trkX>>

(* Lists that share the second play: StoreV1 refuses the first of them after it
   has inserted that play; the first and the second take the rows of the albums
   and artists in opposite orders in StoreV2. *)
OverlappingLists   == {<<2, 1>>, <<3, 2>>, <<2>>}
=============================================================================
