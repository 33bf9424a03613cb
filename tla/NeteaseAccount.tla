--------------------------- MODULE NeteaseAccount ---------------------------
(***************************************************************************)
(* What the server does at Netease on behalf of an account: login by QR    *)
(* code and favourites, requests of both in progress at once.              *)
(***************************************************************************)
EXTENDS Favorites, QRLogin

vars == <<requestVars, favoriteVars, keyVars>>

(* Types of the requests, the playlists and the keys. *)
NeteaseTypeOK == RequestTypeOK /\ FavoritesTypeOK /\ KeysTypeOK

Init == RequestsInit /\ FavoritesInit /\ KeysInit

Arrive(h) ==
  \/ FavoriteRequest(h) /\ KeysStay
  \/ QRRequest(h) /\ UNCHANGED favoriteVars

Work(h) ==
  \/ FavoriteStep(h) /\ KeysStay
  \/ QRStep(h) /\ UNCHANGED favoriteVars

Next ==
  \/ \E h \in Handlers : Arrive(h) \/ Work(h)
  \/ Phone /\ UNCHANGED favoriteVars

Spec == Init /\ [][Next]_vars

\* Calls end by the timeouts of their clients; nobody has to send requests.
FairSpec == Spec /\ \A h \in Handlers : WF_vars(Work(h))

(* Every request is answered, after at most four calls and their retries   *)
(* (router.go:57, direct_chaunsin.go:493).                                 *)
NeteaseAnswered == \A h \in Handlers : Busy(h) ~> ~Busy(h)
=============================================================================
