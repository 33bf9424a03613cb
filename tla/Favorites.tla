----------------------------- MODULE Favorites -----------------------------
(***************************************************************************)
(* neteaseToggleFavorite, neteaseCreatePlaylist and neteaseDeletePlaylist  *)
(* of internal/httpapi/handlers_netease_bilibili.go over the playlists an  *)
(* account has at Netease.  The server keeps nothing of its own: which     *)
(* playlist holds the favourites is looked up by name every time.          *)
(***************************************************************************)
EXTENDS NeteaseRequests

VARIABLES
  playlists,     \* id -> [owner, name, songs], kept by Netease
  lastPlaylist,
  word,          \* history: what an account was last told of a song
  disturbed      \* history: accounts whose toggles overlapped, lost the answer
                 \* to a creation, or that made a namesake themselves

favoriteVars == <<playlists, lastPlaylist, word, disturbed>>
netease == <<playlists, lastPlaylist>>

(* Types of what Netease keeps and of the history. *)
FavoritesTypeOK ==
  /\ lastPlaylist \in 0..MaxPlaylists
  /\ DOMAIN playlists \subseteq 1..lastPlaylist
  /\ \A p \in DOMAIN playlists :
       playlists[p] \in [owner : Accounts, name : {"favorites", "other"}, songs : SUBSET Songs]
  /\ word \in [Accounts \X Songs -> {TRUE, FALSE, None}]
  /\ disturbed \subseteq Accounts

FavoritesInit ==
  /\ playlists = << >> /\ lastPlaylist = 0
  /\ word = [w \in Accounts \X Songs |-> None]
  /\ disturbed = {}

FavoritesOf(a) ==
  {p \in DOMAIN playlists : playlists[p].owner = a /\ playlists[p].name = "favorites"}

-----------------------------------------------------------------------------
(* Netease (external) *)

Make(a, name) ==
  /\ lastPlaylist < MaxPlaylists
  /\ lastPlaylist' = lastPlaylist + 1
  /\ playlists' = [p \in DOMAIN playlists \cup {lastPlaylist + 1} |->
       IF p \in DOMAIN playlists THEN playlists[p]
       ELSE [owner |-> a, name |-> name, songs |-> {}]]

Drop(p) ==
  /\ playlists' = [q \in DOMAIN playlists \ {p} |-> playlists[q]]
  /\ UNCHANGED lastPlaylist

Change(p, song, remove) ==
  /\ p \in DOMAIN playlists
  /\ playlists' = [playlists EXCEPT ![p].songs = IF remove THEN @ \ {song} ELSE @ \cup {song}]
  /\ UNCHANGED lastPlaylist

-----------------------------------------------------------------------------
(* History: whose effects may cross *)

Toggling(h, a) == Busy(h) /\ req[h].op = "toggle" /\ req[h].account = a

\* A toggle crosses one of the same song, and any deletion of a playlist.
Cross(q, r) ==
  /\ q.account = r.account
  /\ {q.op, r.op} \subseteq {"toggle", "delete"}
  /\ "delete" \in {q.op, r.op} \/ q.song = r.song

\* r arrives: what was said of the songs it is about is no longer the word.
Begin(h, call, r) ==
  /\ Arrives(h)
  /\ pc' = [pc EXCEPT ![h] = call]
  /\ req' = [g \in Handlers |->
       IF g = h THEN [r EXCEPT !.crossed = \E f \in Handlers : Busy(f) /\ Cross(req[f], r)]
       ELSE [req[g] EXCEPT !.crossed = @ \/ (Busy(g) /\ Cross(req[g], r))]]
  /\ word' = [w \in DOMAIN word |->
       IF w[1] = r.account /\ (r.op = "delete" \/ w[2] = r.song) THEN None ELSE word[w]]

Disturb(a, how) == disturbed' = IF how THEN disturbed \cup {a} ELSE disturbed

-----------------------------------------------------------------------------
(* Toggle *)

\* 501 in compatible mode.
ToggleFavorite(h) ==
  \E a \in Accounts, s \in Songs, remove \in BOOLEAN :
    LET r == [NoReq EXCEPT !.op = "toggle", !.account = a, !.song = s, !.remove = remove]
    IN  /\ \/ /\ direct
              /\ Begin(h, "playlists", r)
              /\ Disturb(a, \E g \in Handlers : Toggling(g, a))
           \/ /\ ~direct
              /\ Arrives(h)
              /\ Reply(h)
              /\ UNCHANGED <<word, disturbed>>
        /\ UNCHANGED netease

\* Mutant: a playlist without songs is passed over.
PlaylistsWithSongs(h) ==
  /\ pc[h] = "playlists"
  /\ \/ \E p \in FavoritesOf(req[h].account) :
          /\ playlists[p].songs # {}
          /\ Goto(h, "update", [req[h] EXCEPT !.playlist = p])
     \/ /\ \A p \in FavoritesOf(req[h].account) : playlists[p].songs = {}
        /\ Goto(h, "make", req[h])
     \/ Reply(h)
  /\ UNCHANGED favoriteVars

\* Who the account is and what it has, two calls that only read, so that a
\* second try changes nothing.  The first playlist of the name is taken, in
\* an order that is Netease's.
Playlists(h) ==
  /\ pc[h] = "playlists"
  /\ \/ \E p \in FavoritesOf(req[h].account) :
          Goto(h, "update", [req[h] EXCEPT !.playlist = p])
     \/ FavoritesOf(req[h].account) = {} /\ Goto(h, "make", req[h])
     \/ Reply(h)
  /\ UNCHANGED favoriteVars

\* Also for a removal: the playlist is made to remove from it.
MakeFavorites(h) ==
  /\ pc[h] = "make"
  /\ \/ /\ Make(req[h].account, "favorites")
        /\ \/ /\ Goto(h, "update", [req[h] EXCEPT !.playlist = lastPlaylist + 1])
              /\ UNCHANGED disturbed
           \/ NoAnswer(h) /\ Disturb(req[h].account, TRUE)
     \/ /\ Reply(h) \/ NoAnswer(h)
        /\ UNCHANGED <<netease, disturbed>>
  /\ UNCHANGED word

Say(h) ==
  word' = IF req[h].crossed THEN word
          ELSE [word EXCEPT ![<<req[h].account, req[h].song>>] = ~req[h].remove]

\* Mutant: the code of Netease's answer is not looked at.
UpdateUnchecked(h) ==
  /\ pc[h] = "update"
  /\ \/ /\ Change(req[h].playlist, req[h].song, req[h].remove) \/ UNCHANGED netease
        /\ Reply(h) /\ Say(h)
     \/ /\ NoAnswer(h)
        /\ UNCHANGED <<netease, word>>
  /\ UNCHANGED disturbed

\* Netease refuses a playlist that is gone, and may refuse any other.
Update(h) ==
  /\ pc[h] = "update"
  /\ \/ /\ Change(req[h].playlist, req[h].song, req[h].remove)
        /\ \/ Reply(h) /\ Say(h)
           \/ NoAnswer(h) /\ UNCHANGED word
     \/ /\ Reply(h) \/ NoAnswer(h)
        /\ UNCHANGED <<netease, word>>
  /\ UNCHANGED disturbed

-----------------------------------------------------------------------------
(* Create and delete *)

CreatePlaylist(h) ==
  \E a \in Accounts, name \in {"favorites", "other"} :
    /\ Begin(h, "new", [NoReq EXCEPT !.op = "create", !.account = a, !.name = name])
    /\ Disturb(a, name = "favorites")
    /\ UNCHANGED netease

\* A compatible upstream's answer is not looked into: 201 for a refusal too.
New(h) ==
  /\ pc[h] = "new"
  /\ \/ /\ Make(req[h].account, req[h].name)
        /\ Reply(h) \/ NoAnswer(h)
     \/ /\ Reply(h) \/ NoAnswer(h)
        /\ UNCHANGED netease
  /\ UNCHANGED <<word, disturbed>>

DeletePlaylist(h) ==
  \E a \in Accounts, p \in 1..lastPlaylist :
    /\ Begin(h, "drop", [NoReq EXCEPT !.op = "delete", !.account = a, !.playlist = p])
    /\ UNCHANGED <<netease, disturbed>>

\* As with New, {"deleted": true} for a refusal of the upstream.
DropPlaylist(h) ==
  LET p == req[h].playlist IN
  /\ pc[h] = "drop"
  /\ \/ /\ p \in DOMAIN playlists /\ playlists[p].owner = req[h].account
        /\ Drop(p)
        /\ Reply(h) \/ NoAnswer(h)
     \/ /\ Reply(h) \/ NoAnswer(h)
        /\ UNCHANGED netease
  /\ UNCHANGED <<word, disturbed>>

FavoriteRequest(h) == ToggleFavorite(h) \/ CreatePlaylist(h) \/ DeletePlaylist(h)

FavoriteStep(h) ==
  Playlists(h) \/ MakeFavorites(h) \/ Update(h) \/ New(h) \/ DropPlaylist(h)

-----------------------------------------------------------------------------
(* Properties *)

(* handlers_netease_bilibili.go:637-666.  Without a table of its own the   *)
(* handler still gives an account one playlist of favourites: a second one *)
(* takes toggles that overlap, a creation whose answer was lost and that   *)
(* Retry: 1 repeated, or a namesake the user made.                         *)
OnePlaylistUnlessDisturbed ==
  \A a \in Accounts \ disturbed : Cardinality(FavoritesOf(a)) <= 1

(* "favorite": true of an answer stays true, whatever fails and whichever  *)
(* playlist later requests find, until the song's next toggle or a         *)
(* deletion of a playlist arrives; "favorite": false does too for an       *)
(* account with one favourites playlist.                                   *)
WordIsKept ==
  \A a \in Accounts, s \in Songs :
    LET listed == \E p \in FavoritesOf(a) : s \in playlists[p].songs
    IN  /\ word[<<a, s>>] = TRUE => listed
        /\ word[<<a, s>>] = FALSE /\ a \notin disturbed => ~listed
=============================================================================
