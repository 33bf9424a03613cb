--------------------------- MODULE NeteaseProofs ---------------------------
(***************************************************************************)
(* What the server promises about favourites and QR logins, for any number *)
(* of requests, accounts, songs, playlists and keys, in both modes, with   *)
(* calls that fail before or after they took effect.                       *)
(***************************************************************************)
EXTENDS NeteaseAccount, FiniteSetTheorems, TLAPS

Labels == {"idle", "new", "drop"} \cup ToggleCalls \cup QRCalls

Reqs ==
  [op : Ops \cup {None}, account : Accounts \cup {None}, song : Songs \cup {None},
   remove : BOOLEAN, playlist : 1..MaxPlaylists \cup {None},
   name : {"favorites", "other", None}, key : 1..MaxKeys \cup {None},
   tries : {0, 1}, crossed : BOOLEAN, failed : BOOLEAN, confirmed : BOOLEAN]

\* Which request waits for which call.
Fits(label, r) ==
  /\ label = "idle" => r = NoReq
  /\ label \in ToggleCalls => r.op = "toggle" /\ r.account \in Accounts /\ r.song \in Songs
  /\ label = "new" => r.op = "create" /\ r.account \in Accounts /\ r.name \in {"favorites", "other"}
  /\ label = "drop" => r.op = "delete" /\ r.account \in Accounts
  /\ label \in {"key1", "key3", "key", "image"} => r.op = "qr"
  /\ label \in {"check1", "check3", "check"} => r.op = "poll"

FormInv ==
  /\ direct \in Modes
  /\ pc \in [Handlers -> Labels]
  /\ req \in [Handlers -> Reqs]
  /\ \A h \in Handlers : Fits(pc[h], req[h])

-----------------------------------------------------------------------------
(* Records of requests *)

LEMMA NoReqIsAReq == NoReq \in Reqs /\ [NoReq EXCEPT !.tries = 0] = NoReq
<1>1. NoReq \in Reqs
  BY DEF NoReq, Reqs, Ops
<1>2. [NoReq EXCEPT !.tries = 0] = NoReq
  <2>1. PICK none : none = NoReq
    OBVIOUS
  <2>2. none = [f \in DOMAIN none |-> none[f]] /\ none["tries"] = 0
    BY <2>1, Zenon DEF NoReq
  <2>3. [none EXCEPT !["tries"] = 0] = none
    BY ONLY <2>2
  <2> QED BY <2>1, <2>3
<1> QED BY <1>1, <1>2

\* Everything but the number of tries.
Alike(r, x) ==
  /\ x.op = r.op /\ x.account = r.account /\ x.song = r.song /\ x.remove = r.remove
  /\ x.playlist = r.playlist /\ x.name = r.name /\ x.key = r.key
  /\ x.crossed = r.crossed /\ x.failed = r.failed /\ x.confirmed = r.confirmed

LEMMA TriesSet ==
  ASSUME NEW r \in Reqs, NEW n \in {0, 1}, NEW x, x = [r EXCEPT !.tries = n]
  PROVE  x \in Reqs /\ Alike(r, x) /\ x.tries = n
BY DEF Reqs, Alike

\* What the next call of a request finds of the one before it.
Follows(r, x) ==
  /\ x.op = r.op /\ x.account = r.account /\ x.song = r.song /\ x.remove = r.remove
  /\ x.name = r.name /\ x.crossed = r.crossed /\ x.confirmed = r.confirmed

LEMMA PlaylistSet ==
  ASSUME NEW r \in Reqs, NEW p \in 1..MaxPlaylists, NEW x, x = [r EXCEPT !.playlist = p]
  PROVE  x \in Reqs /\ Follows(r, x) /\ x.playlist = p
BY DEF Reqs, Follows

LEMMA KeySet ==
  ASSUME NEW r \in Reqs, NEW k \in 1..MaxKeys, NEW x, x = [r EXCEPT !.key = k]
  PROVE  x \in Reqs /\ Follows(r, x) /\ x.key = k
BY DEF Reqs, Follows

LEMMA FailedSet ==
  ASSUME NEW r \in Reqs, NEW x, x = [r EXCEPT !.failed = TRUE]
  PROVE  x \in Reqs /\ Follows(r, x) /\ x.failed = TRUE /\ x.key = r.key
BY DEF Reqs, Follows

LEMMA CrossedSet ==
  ASSUME NEW r \in Reqs, NEW b \in BOOLEAN, NEW x, x = [r EXCEPT !.crossed = b]
  PROVE  /\ x \in Reqs /\ x.crossed = b
         /\ x.op = r.op /\ x.account = r.account /\ x.song = r.song /\ x.remove = r.remove
         /\ x.playlist = r.playlist /\ x.name = r.name /\ x.key = r.key
         /\ x.failed = r.failed /\ x.confirmed = r.confirmed
BY DEF Reqs

-----------------------------------------------------------------------------
(* The ends of a call *)

Others(h) == \A g \in Handlers : g # h => pc'[g] = pc[g] /\ req'[g] = req[g]

LEMMA FitsAlike ==
  ASSUME NEW label, NEW r, NEW x, label # "idle", Fits(label, r), Alike(r, x)
  PROVE  Fits(label, x)
BY DEF Fits, Alike

LEMMA FormKept ==
  ASSUME FormInv, UNCHANGED direct, NEW h \in Handlers, NEW label \in Labels, NEW r \in Reqs,
         Fits(label, r), pc' = [pc EXCEPT ![h] = label], req' = [req EXCEPT ![h] = r]
  PROVE  FormInv' /\ Others(h) /\ pc'[h] = label /\ req'[h] = r
<1>1. pc' \in [Handlers -> Labels] /\ req' \in [Handlers -> Reqs]
  BY DEF FormInv
<1>2. \A g \in Handlers : /\ pc'[g] = IF g = h THEN label ELSE pc[g]
                          /\ req'[g] = IF g = h THEN r ELSE req[g]
  BY DEF FormInv
<1>3. \A g \in Handlers : Fits(pc'[g], req'[g])
  BY <1>2 DEF FormInv
<1> QED BY <1>1, <1>2, <1>3 DEF FormInv, Others

LEMMA ReplyReq ==
  ASSUME FormInv, NEW h \in Handlers, Reply(h)
  PROVE  FormInv' /\ Others(h) /\ pc'[h] = "idle" /\ req'[h] = NoReq
<1>1. Fits("idle", NoReq) /\ "idle" \in Labels
  BY DEF Fits, Labels, ToggleCalls
<1> QED BY <1>1, NoReqIsAReq, FormKept DEF Reply, Goto

LEMMA GotoReq ==
  ASSUME FormInv, NEW h \in Handlers, NEW label \in Labels, NEW r \in Reqs,
         label # "idle", Fits(label, r), Goto(h, label, r)
  PROVE  FormInv' /\ Others(h) /\ pc'[h] = label /\ Alike(r, req'[h])
<1>1. PICK x : x = [r EXCEPT !.tries = 0]
  OBVIOUS
<1>2. x \in Reqs /\ Alike(r, x)
  BY <1>1, TriesSet
<1>3. Fits(label, x)
  BY <1>2, FitsAlike
<1> QED BY <1>1, <1>2, <1>3, FormKept DEF Goto

LEMMA NoAnswerReq ==
  ASSUME FormInv, NEW h \in Handlers, Busy(h), NoAnswer(h)
  PROVE  /\ FormInv' /\ Others(h)
         /\ \/ pc'[h] = "idle" /\ req'[h] = NoReq
            \/ pc'[h] = pc[h] /\ Alike(req[h], req'[h])
<1>1. CASE Reply(h)
  BY <1>1, ReplyReq
<1>2. CASE /\ req[h].tries + 1 < Tries
           /\ req' = [req EXCEPT ![h].tries = @ + 1]
           /\ UNCHANGED <<direct, pc>>
  <2>1. req[h] \in Reqs /\ req[h].tries = 0
    BY <1>2 DEF FormInv, Reqs, Tries
  <2>2. PICK x : x = [req[h] EXCEPT !.tries = 1]
    OBVIOUS
  <2>3. req' = [req EXCEPT ![h] = x]
    BY <1>2, <2>1, <2>2
  <2>4. x \in Reqs /\ Alike(req[h], x)
    BY <2>1, <2>2, TriesSet
  <2>5. pc' = [pc EXCEPT ![h] = pc[h]] /\ pc[h] \in Labels
    BY <1>2 DEF FormInv
  <2>6. Fits(pc[h], x)
    BY <2>4, FitsAlike DEF FormInv, Busy
  <2> QED BY <1>2, <2>3, <2>4, <2>5, <2>6, FormKept
<1> QED BY <1>1, <1>2 DEF NoAnswer

-----------------------------------------------------------------------------
(* The arrival of a favourites request *)

\* Everything but whether another request crossed it.
SameRequest(r, x) ==
  /\ x.op = r.op /\ x.account = r.account /\ x.song = r.song /\ x.remove = r.remove
  /\ x.playlist = r.playlist /\ x.name = r.name /\ x.key = r.key
  /\ x.failed = r.failed /\ x.confirmed = r.confirmed

LEMMA CrossedReq ==
  ASSUME NEW r \in Reqs, NEW b \in BOOLEAN, NEW x, x = [r EXCEPT !.crossed = b]
  PROVE  x \in Reqs /\ SameRequest(r, x) /\ x.crossed = b
BY CrossedSet DEF SameRequest

LEMMA FitsSame ==
  ASSUME NEW label, NEW r, NEW x, label # "idle", Fits(label, r), SameRequest(r, x)
  PROVE  Fits(label, x)
BY DEF Fits, SameRequest

LEMMA NoReqUncrossed == [NoReq EXCEPT !.crossed = FALSE] = NoReq
<1>1. PICK none : none = NoReq
  OBVIOUS
<1>2. none = [f \in DOMAIN none |-> none[f]] /\ none["crossed"] = FALSE
  BY <1>1, Zenon DEF NoReq
<1>3. [none EXCEPT !["crossed"] = FALSE] = none
  BY ONLY <1>2
<1> QED BY <1>1, <1>3

LEMMA BeginReq ==
  ASSUME FormInv, NEW h \in Handlers, NEW label \in Labels, NEW r \in Reqs,
         label # "idle", Fits(label, r), Begin(h, label, r)
  PROVE  /\ FormInv' /\ pc[h] = "idle" /\ pc'[h] = label /\ SameRequest(r, req'[h])
         /\ req'[h].crossed <=> \E f \in Handlers : Busy(f) /\ Cross(req[f], r)
         /\ \A g \in Handlers \ {h} :
              /\ pc'[g] = pc[g] /\ SameRequest(req[g], req'[g])
              /\ req'[g].crossed <=> req[g].crossed \/ (Busy(g) /\ Cross(req[g], r))
<1> DEFINE early == \E f \in Handlers : Busy(f) /\ Cross(req[f], r)
           late(g) == req[g].crossed \/ (Busy(g) /\ Cross(req[g], r))
<1>1. /\ UNCHANGED direct /\ pc[h] = "idle" /\ pc' = [pc EXCEPT ![h] = label]
      /\ req' = [g \in Handlers |-> IF g = h THEN [r EXCEPT !.crossed = early]
                                    ELSE [req[g] EXCEPT !.crossed = late(g)]]
  <2>1. /\ UNCHANGED direct /\ pc[h] = "idle" /\ pc' = [pc EXCEPT ![h] = label]
    BY DEF Begin, Arrives, Busy
  <2>2. req' = [g \in Handlers |-> IF g = h THEN [r EXCEPT !.crossed = early]
                                    ELSE [req[g] EXCEPT !.crossed = late(g)]]
    BY Zenon DEF Begin
  <2> QED BY <2>1, <2>2
<1>2. early \in BOOLEAN /\ \A g \in Handlers : req[g] \in Reqs /\ late(g) \in BOOLEAN
  BY DEF FormInv
<1> HIDE DEF early, late
<1>3. req'[h] = [r EXCEPT !.crossed = early]
  BY <1>1
<1>4. req'[h] \in Reqs /\ SameRequest(r, req'[h]) /\ req'[h].crossed = early
  BY <1>2, <1>3, CrossedReq
<1>5. ASSUME NEW g \in Handlers \ {h}
      PROVE  /\ pc'[g] = pc[g] /\ req'[g] \in Reqs /\ SameRequest(req[g], req'[g])
             /\ req'[g].crossed = late(g) /\ Fits(pc'[g], req'[g])
  <2>1. req'[g] = [req[g] EXCEPT !.crossed = late(g)] /\ pc'[g] = pc[g]
    BY <1>1 DEF FormInv
  <2>2. req'[g] \in Reqs /\ SameRequest(req[g], req'[g]) /\ req'[g].crossed = late(g)
    BY <1>2, <2>1, CrossedReq
  <2>3. CASE pc[g] = "idle"
    <3>1. req[g] = NoReq
      BY <2>3 DEF FormInv, Fits
    <3>2. late(g) = FALSE
      BY <2>3, <3>1 DEF late, Busy, NoReq
    <3> QED BY <2>1, <2>2, <2>3, <3>1, <3>2, NoReqUncrossed DEF Fits, ToggleCalls
  <2>4. CASE pc[g] # "idle"
    BY <2>1, <2>2, <2>4, FitsSame DEF FormInv
  <2> QED BY <2>1, <2>2, <2>3, <2>4
<1>6. FormInv'
  <2>1. pc' \in [Handlers -> Labels] /\ pc'[h] = label
    BY <1>1 DEF FormInv
  <2>2. Fits(pc'[h], req'[h])
    BY <1>4, <2>1, FitsSame
  <2>3. req' = [g \in Handlers |-> req'[g]]
    BY <1>1
  <2>4. req' \in [Handlers -> Reqs]
    BY <1>4, <1>5, <2>3
  <2> QED BY <1>1, <1>5, <2>1, <2>2, <2>4 DEF FormInv
<1> QED BY <1>1, <1>4, <1>5, <1>6 DEF early, late, FormInv

-----------------------------------------------------------------------------
(* The playlists at Netease *)

PlaylistsTypeOK ==
  /\ lastPlaylist \in 0..MaxPlaylists
  /\ DOMAIN playlists \subseteq 1..lastPlaylist
  /\ \A p \in DOMAIN playlists :
       playlists[p] \in [owner : Accounts, name : {"favorites", "other"}, songs : SUBSET Songs]

LEMMA MakeEffect ==
  ASSUME PlaylistsTypeOK, NEW a \in Accounts, NEW name \in {"favorites", "other"}, Make(a, name)
  PROVE  /\ PlaylistsTypeOK'
         /\ lastPlaylist' = lastPlaylist + 1 /\ lastPlaylist' \in 1..MaxPlaylists
         /\ DOMAIN playlists' = DOMAIN playlists \cup {lastPlaylist'}
         /\ lastPlaylist' \notin DOMAIN playlists
         /\ \A p \in DOMAIN playlists : playlists'[p] = playlists[p]
         /\ playlists'[lastPlaylist'].owner = a /\ playlists'[lastPlaylist'].name = name
         /\ playlists'[lastPlaylist'].songs = {}
<1>1. lastPlaylist' = lastPlaylist + 1 /\ lastPlaylist \in Nat /\ lastPlaylist' \in 1..MaxPlaylists
  BY NeteaseAssumption DEF Make, PlaylistsTypeOK
<1>2. lastPlaylist' \notin DOMAIN playlists
  BY <1>1 DEF PlaylistsTypeOK
<1>3. /\ DOMAIN playlists' = DOMAIN playlists \cup {lastPlaylist'}
      /\ \A p \in DOMAIN playlists : playlists'[p] = playlists[p]
      /\ playlists'[lastPlaylist'] = [owner |-> a, name |-> name, songs |-> {}]
  BY <1>1, <1>2 DEF Make
<1>4. DOMAIN playlists' \subseteq 1..lastPlaylist'
  BY <1>1, <1>3 DEF PlaylistsTypeOK
<1>5. \A p \in DOMAIN playlists' :
        playlists'[p] \in [owner : Accounts, name : {"favorites", "other"}, songs : SUBSET Songs]
  BY <1>3 DEF PlaylistsTypeOK
<1>6. PlaylistsTypeOK'
  BY <1>1, <1>4, <1>5, NeteaseAssumption DEF PlaylistsTypeOK
<1>7. /\ playlists'[lastPlaylist'].owner = a /\ playlists'[lastPlaylist'].name = name
      /\ playlists'[lastPlaylist'].songs = {}
  BY <1>3
<1> QED BY <1>1, <1>2, <1>3, <1>6, <1>7

LEMMA DropEffect ==
  ASSUME PlaylistsTypeOK, NEW p, Drop(p)
  PROVE  /\ PlaylistsTypeOK' /\ UNCHANGED lastPlaylist
         /\ DOMAIN playlists' = DOMAIN playlists \ {p}
         /\ \A q \in DOMAIN playlists' : playlists'[q] = playlists[q]
BY DEF PlaylistsTypeOK, Drop

LEMMA ChangeEffect ==
  ASSUME PlaylistsTypeOK, NEW p, NEW song \in Songs, NEW remove \in BOOLEAN, Change(p, song, remove)
  PROVE  /\ PlaylistsTypeOK' /\ UNCHANGED lastPlaylist /\ p \in DOMAIN playlists
         /\ DOMAIN playlists' = DOMAIN playlists
         /\ \A q \in DOMAIN playlists :
              /\ playlists'[q].owner = playlists[q].owner
              /\ playlists'[q].name = playlists[q].name
              /\ q # p => playlists'[q].songs = playlists[q].songs
         /\ song \in playlists'[p].songs <=> ~remove
         /\ \A s : s # song => (s \in playlists'[p].songs <=> s \in playlists[p].songs)
<1> DEFINE songs == IF remove THEN playlists[p].songs \ {song} ELSE playlists[p].songs \cup {song}
<1>1. p \in DOMAIN playlists /\ UNCHANGED lastPlaylist
  BY DEF Change
<1>2. playlists' = [playlists EXCEPT ![p].songs = songs]
  BY DEF Change
<1>3. songs \in SUBSET Songs
  BY <1>1 DEF PlaylistsTypeOK
<1> HIDE DEF songs
<1>4. /\ DOMAIN playlists' = DOMAIN playlists
      /\ \A q \in DOMAIN playlists : q # p => playlists'[q] = playlists[q]
      /\ playlists'[p] = [playlists[p] EXCEPT !.songs = songs]
  BY <1>1, <1>2
<1>5. /\ playlists'[p] \in [owner : Accounts, name : {"favorites", "other"}, songs : SUBSET Songs]
      /\ playlists'[p].owner = playlists[p].owner /\ playlists'[p].name = playlists[p].name
      /\ playlists'[p].songs = songs
  BY <1>1, <1>3, <1>4 DEF PlaylistsTypeOK
<1>6. PlaylistsTypeOK'
  BY <1>1, <1>4, <1>5 DEF PlaylistsTypeOK
<1>7. /\ song \in songs <=> ~remove
      /\ \A s : s # song => (s \in songs <=> s \in playlists[p].songs)
  BY DEF songs
<1> QED BY <1>1, <1>4, <1>5, <1>6, <1>7

-----------------------------------------------------------------------------
(* What the steps of a favourites request leave of it *)

LEMMA AlikeFollows ==
  ASSUME NEW r, NEW x, Alike(r, x)
  PROVE  Follows(r, x)
BY DEF Alike, Follows

LEMMA FollowsTransitive ==
  ASSUME NEW r, NEW x, NEW y, Follows(r, x), Alike(x, y)
  PROVE  Follows(r, y) /\ y.playlist = x.playlist /\ y.key = x.key /\ y.failed = x.failed
BY DEF Alike, Follows

LEMMA FollowsItself ==
  ASSUME NEW r
  PROVE  Follows(r, r)
BY DEF Follows

LEMMA FitsToggle ==
  ASSUME NEW label \in ToggleCalls, NEW next \in ToggleCalls, NEW r, NEW x,
         Fits(label, r), Follows(r, x)
  PROVE  Fits(next, x)
BY DEF Fits, Follows, ToggleCalls

LEMMA PlaylistsReq ==
  ASSUME FormInv, PlaylistsTypeOK, NEW h \in Handlers, Playlists(h)
  PROVE  /\ FormInv' /\ Others(h)
         /\ \/ pc'[h] = "idle"
            \/ /\ pc'[h] = "update" /\ Follows(req[h], req'[h])
               /\ req'[h].playlist \in FavoritesOf(req[h].account)
            \/ /\ pc'[h] = "make" /\ Follows(req[h], req'[h])
               /\ FavoritesOf(req[h].account) = {}
<1>1. pc[h] = "playlists" /\ req[h] \in Reqs /\ Fits(pc[h], req[h])
  BY DEF Playlists, FormInv
<1>2. {"playlists", "update", "make"} \subseteq ToggleCalls \cap Labels
  BY DEF ToggleCalls, Labels
<1>3. CASE Reply(h)
  BY <1>3, ReplyReq
<1>4. ASSUME NEW p \in FavoritesOf(req[h].account),
             Goto(h, "update", [req[h] EXCEPT !.playlist = p])
      PROVE  /\ FormInv' /\ Others(h) /\ pc'[h] = "update"
             /\ Follows(req[h], req'[h]) /\ req'[h].playlist = p
  <2>1. PICK r : r = [req[h] EXCEPT !.playlist = p]
    OBVIOUS
  <2>2. p \in 1..MaxPlaylists
    BY NeteaseAssumption DEF FavoritesOf, PlaylistsTypeOK
  <2>3. r \in Reqs /\ Follows(req[h], r) /\ r.playlist = p
    BY <1>1, <2>1, <2>2, PlaylistSet
  <2>4. Fits("update", r)
    BY <1>1, <1>2, <2>3, FitsToggle
  <2>5. FormInv' /\ Others(h) /\ pc'[h] = "update" /\ Alike(r, req'[h])
    BY <1>2, <1>4, <2>1, <2>3, <2>4, GotoReq
  <2> QED BY <2>3, <2>5, FollowsTransitive
<1>5. CASE FavoritesOf(req[h].account) = {} /\ Goto(h, "make", req[h])
  <2>1. Fits("make", req[h])
    BY <1>1, <1>2, FitsToggle, FollowsItself
  <2>2. FormInv' /\ Others(h) /\ pc'[h] = "make" /\ Alike(req[h], req'[h])
    BY <1>1, <1>2, <1>5, <2>1, GotoReq
  <2> QED BY <1>5, <2>2, AlikeFollows
<1> QED BY <1>3, <1>4, <1>5 DEF Playlists

\* A call that is answered, or was not and is tried again.
LEMMA EndsReq ==
  ASSUME FormInv, NEW h \in Handlers, Busy(h), Reply(h) \/ NoAnswer(h)
  PROVE  /\ FormInv' /\ Others(h)
         /\ pc'[h] = "idle" \/ (pc'[h] = pc[h] /\ Follows(req[h], req'[h]) /\ req'[h].playlist = req[h].playlist)
<1>1. CASE Reply(h)
  BY <1>1, ReplyReq
<1>2. CASE NoAnswer(h)
  BY <1>2, NoAnswerReq, AlikeFollows DEF Alike
<1> QED BY <1>1, <1>2

LEMMA MadeReq ==
  ASSUME FormInv, PlaylistsTypeOK, NEW h \in Handlers, pc[h] = "make",
         Make(req[h].account, "favorites"),
         Goto(h, "update", [req[h] EXCEPT !.playlist = lastPlaylist + 1])
  PROVE  /\ FormInv' /\ Others(h) /\ pc'[h] = "update"
         /\ Follows(req[h], req'[h]) /\ req'[h].playlist = lastPlaylist'
<1>1. req[h] \in Reqs /\ Fits(pc[h], req[h]) /\ {"make", "update"} \subseteq ToggleCalls \cap Labels
  BY DEF FormInv, ToggleCalls, Labels
<1>2. PICK r : r = [req[h] EXCEPT !.playlist = lastPlaylist + 1]
  OBVIOUS
<1>3. lastPlaylist + 1 \in 1..MaxPlaylists /\ lastPlaylist' = lastPlaylist + 1
  BY <1>1, MakeEffect DEF Fits
<1>4. r \in Reqs /\ Follows(req[h], r) /\ r.playlist = lastPlaylist'
  BY <1>1, <1>2, <1>3, PlaylistSet
<1>5. Fits("update", r)
  BY <1>1, <1>4, FitsToggle
<1>6. FormInv' /\ Others(h) /\ pc'[h] = "update" /\ Alike(r, req'[h])
  BY <1>1, <1>2, <1>4, <1>5, GotoReq
<1> QED BY <1>4, <1>6, FollowsTransitive

-----------------------------------------------------------------------------
(* The favourites of an account *)

Listed(a, s) == \E p \in FavoritesOf(a) : s \in playlists[p].songs

LEMMA FavoritesMade ==
  ASSUME PlaylistsTypeOK, NEW a \in Accounts, NEW name \in {"favorites", "other"}, Make(a, name),
         NEW b
  PROVE  /\ FavoritesOf(b)' = FavoritesOf(b) \cup
                (IF b = a /\ name = "favorites" THEN {lastPlaylist'} ELSE {})
         /\ \A s : Listed(b, s)' <=> Listed(b, s)
<1>1. FavoritesOf(b)' = FavoritesOf(b) \cup (IF b = a /\ name = "favorites" THEN {lastPlaylist'} ELSE {})
  BY MakeEffect DEF FavoritesOf
<1>2. \A p \in FavoritesOf(b) : playlists'[p] = playlists[p]
  BY MakeEffect DEF FavoritesOf
<1>3. playlists'[lastPlaylist'].songs = {}
  BY MakeEffect
<1> QED BY <1>1, <1>2, <1>3 DEF Listed

LEMMA FavoritesDropped ==
  ASSUME PlaylistsTypeOK, NEW p, p \in DOMAIN playlists, Drop(p), NEW b
  PROVE  /\ FavoritesOf(b)' = FavoritesOf(b) \ {p}
         /\ playlists[p].owner # b => \A s : Listed(b, s)' <=> Listed(b, s)
<1>1. FavoritesOf(b)' = FavoritesOf(b) \ {p}
  BY DropEffect DEF FavoritesOf
<1>2. \A q \in FavoritesOf(b)' : playlists'[q] = playlists[q]
  BY DropEffect DEF FavoritesOf
<1>3. playlists[p].owner # b => p \notin FavoritesOf(b)
  BY DEF FavoritesOf
<1> QED BY <1>1, <1>2, <1>3 DEF Listed

LEMMA FavoritesChanged ==
  ASSUME PlaylistsTypeOK, NEW p, NEW song \in Songs, NEW remove \in BOOLEAN,
         Change(p, song, remove), NEW b
  PROVE  /\ FavoritesOf(b)' = FavoritesOf(b)
         /\ \A s : p \notin FavoritesOf(b) \/ s # song => (Listed(b, s)' <=> Listed(b, s))
         /\ song \in playlists'[p].songs <=> ~remove
<1>0. /\ p \in DOMAIN playlists /\ DOMAIN playlists' = DOMAIN playlists
      /\ \A q \in DOMAIN playlists :
           /\ playlists'[q].owner = playlists[q].owner
           /\ playlists'[q].name = playlists[q].name
           /\ q # p => playlists'[q].songs = playlists[q].songs
      /\ song \in playlists'[p].songs <=> ~remove
      /\ \A s : s # song => (s \in playlists'[p].songs <=> s \in playlists[p].songs)
  BY ChangeEffect
<1>1. FavoritesOf(b)' = FavoritesOf(b)
  BY <1>0 DEF FavoritesOf
<1>2. ASSUME NEW s, p \notin FavoritesOf(b) \/ s # song, NEW q \in FavoritesOf(b)
      PROVE  s \in playlists'[q].songs <=> s \in playlists[q].songs
  <2>1. CASE q = p
    <3>1. s # song
      BY <1>2, <2>1
    <3> QED BY <2>1, <3>1, <1>0
  <2>2. CASE q # p
    <3>1. q \in DOMAIN playlists
      BY DEF FavoritesOf
    <3>2. playlists'[q].songs = playlists[q].songs
      BY <2>2, <3>1, <1>0
    <3> QED BY <3>2
  <2> QED BY <2>1, <2>2
<1>3. song \in playlists'[p].songs <=> ~remove
  BY <1>0
<1> QED BY <1>1, <1>2, <1>3 DEF Listed

-----------------------------------------------------------------------------
(* The invariant of favourites *)

\* Whoever may cross another request knows it, and while a request is in
\* progress nothing counts as said of what it is about.
CrossInv ==
  \A h \in Handlers : Busy(h) =>
    /\ \A g \in Handlers \ {h} : Busy(g) /\ Cross(req[h], req[g]) => req[h].crossed
    /\ req[h].op = "toggle" => word[<<req[h].account, req[h].song>>] = None
    /\ req[h].op = "delete" => \A s \in Songs : word[<<req[h].account, s>>] = None

\* The playlist a toggle found or made is one of favourites, or gone.
UpdateInv ==
  \A h \in Handlers : pc[h] = "update" =>
    /\ req[h].playlist \in 1..lastPlaylist
    /\ req[h].playlist \in DOMAIN playlists => req[h].playlist \in FavoritesOf(req[h].account)

\* A toggle of an undisturbed account is alone, and makes a playlist only
\* where there is none.
AloneInv ==
  \A h \in Handlers : Busy(h) /\ req[h].account \notin disturbed =>
    /\ pc[h] = "make" => FavoritesOf(req[h].account) = {}
    /\ req[h].op = "toggle" => \A g \in Handlers \ {h} : ~Toggling(g, req[h].account)
    /\ req[h].op = "create" => req[h].name # "favorites"

SingleInv == \A a \in Accounts \ disturbed : \A p, q \in FavoritesOf(a) : p = q

HistoryTypeOK ==
  /\ word \in [Accounts \X Songs -> {TRUE, FALSE, None}]
  /\ disturbed \subseteq Accounts

FavoritesInv ==
  /\ PlaylistsTypeOK /\ HistoryTypeOK
  /\ CrossInv /\ UpdateInv /\ AloneInv /\ SingleInv /\ WordIsKept

\* A step of a request in progress, as the other requests see it.
Works(h) ==
  /\ Busy(h) /\ Others(h)
  /\ \/ pc'[h] = "idle"
     \/ pc'[h] # "idle" /\ Follows(req[h], req'[h])

LEMMA CrossKept ==
  ASSUME CrossInv, NEW h \in Handlers, Works(h), UNCHANGED word
  PROVE  CrossInv'
BY DEF CrossInv, Works, Others, Busy, Cross, Follows

LEMMA CrossSaid ==
  ASSUME CrossInv, HistoryTypeOK, FormInv, NEW h \in Handlers, pc[h] \in ToggleCalls,
         Works(h), pc'[h] = "idle", Say(h)
  PROVE  CrossInv'
<1>1. CASE req[h].crossed
  BY <1>1, CrossKept DEF Say
<1>2. CASE ~req[h].crossed
  <2>1. req[h].op = "toggle" /\ req[h].account \in Accounts /\ req[h].song \in Songs
    BY DEF FormInv, Fits
  <2>2. \A g \in Handlers \ {h} : Busy(g) => ~Cross(req[h], req[g])
    BY <1>2 DEF CrossInv, Works
  <2>3. \A w \in Accounts \X Songs : w # <<req[h].account, req[h].song>> => word'[w] = word[w]
    BY <1>2, <2>1 DEF Say, HistoryTypeOK
  <2>4. ASSUME NEW g \in Handlers, Busy(g)'
        PROVE  /\ g # h /\ Busy(g) /\ req'[g] = req[g]
               /\ req[g].op = "toggle" => word'[<<req[g].account, req[g].song>>] = None
               /\ req[g].op = "delete" => \A s \in Songs : word'[<<req[g].account, s>>] = None
    <3>1. g # h /\ Busy(g) /\ req'[g] = req[g] /\ pc'[g] = pc[g]
      BY <2>4 DEF Works, Others, Busy
    <3>2. CASE req[g].op = "toggle"
      <4>1. req[g].account \in Accounts /\ req[g].song \in Songs
        BY <3>1, <3>2 DEF FormInv, Fits, Labels, Busy, QRCalls
      <4>2. <<req[g].account, req[g].song>> # <<req[h].account, req[h].song>>
        BY <2>1, <2>2, <3>1, <3>2 DEF Cross
      <4> QED BY <2>3, <3>1, <3>2, <4>1, <4>2 DEF CrossInv
    <3>3. CASE req[g].op = "delete"
      <4>1. req[g].account \in Accounts
        BY <3>1, <3>3 DEF FormInv, Fits, Labels, Busy, QRCalls
      <4>2. req[g].account # req[h].account
        BY <2>1, <2>2, <3>1, <3>3 DEF Cross
      <4> QED BY <2>3, <3>1, <3>3, <4>1, <4>2 DEF CrossInv
    <3> QED BY <3>1, <3>2, <3>3
  <2>5. \A g \in Handlers : Busy(g)' => g # h /\ Busy(g) /\ req'[g] = req[g]
    BY <2>4
  <2>6. ASSUME NEW g \in Handlers, Busy(g)', NEW f \in Handlers \ {g}, Busy(f)', Cross(req'[g], req'[f])
        PROVE  req'[g].crossed
    <3>1. Busy(g) /\ Busy(f) /\ f # g /\ req'[g] = req[g] /\ req'[f] = req[f]
      BY <2>5, <2>6
    <3>2. Cross(req[g], req[f])
      BY <2>6, <3>1, Zenon
    <3>3. req[g].crossed
      BY <3>1, <3>2 DEF CrossInv
    <3> QED BY <3>1, <3>3
  <2> QED BY <2>4, <2>5, <2>6 DEF CrossInv
<1> QED BY <1>1, <1>2

LEMMA AloneKept ==
  ASSUME FormInv, AloneInv, NEW h \in Handlers, Works(h), disturbed \subseteq disturbed',
         NEW a, a = req[h].account,
         pc'[h] = "make" /\ a \notin disturbed' => FavoritesOf(a)' = {},
         \A g \in Handlers \ {h}, b \in Accounts \ disturbed' :
           pc[g] = "make" /\ req[g].account = b => FavoritesOf(b)' \subseteq FavoritesOf(b)
  PROVE  AloneInv'
<1>1. ASSUME NEW g \in Handlers, pc'[g] # "idle"
      PROVE  /\ Busy(g) /\ req'[g].op = req[g].op /\ req'[g].account = req[g].account
             /\ req'[g].name = req[g].name
  BY <1>1 DEF Works, Others, Follows, Busy
<1>2. ASSUME NEW g \in Handlers, pc'[g] # "idle", req[g].account \notin disturbed'
      PROVE  req[g].op = "create" => req[g].name # "favorites"
  BY <1>1, <1>2 DEF AloneInv
<1>3. ASSUME NEW g \in Handlers, pc'[g] = "make", NEW b, b = req[g].account, b \notin disturbed'
      PROVE  FavoritesOf(b)' = {}
  <2>1. CASE g = h
    BY <1>3, <2>1
  <2>2. CASE g # h
    <3>1. pc[g] = "make" /\ b \in Accounts
      BY <1>3, <2>2 DEF Works, Others, FormInv, Fits, ToggleCalls
    <3>2. FavoritesOf(b) = {}
      BY <1>3, <3>1 DEF AloneInv, Busy
    <3> QED BY <1>3, <2>2, <3>1, <3>2
  <2> QED BY <2>1, <2>2
<1>4. ASSUME NEW g \in Handlers, pc'[g] # "idle", req[g].account \notin disturbed',
             req[g].op = "toggle", NEW f \in Handlers \ {g}, pc'[f] # "idle",
             req[f].op = "toggle", req[f].account = req[g].account
      PROVE  FALSE
  BY <1>1, <1>4 DEF AloneInv, Toggling
<1>5. ASSUME NEW g \in Handlers, pc'[g] # "idle", NEW b, b = req'[g].account, b \notin disturbed'
      PROVE  /\ pc'[g] = "make" => FavoritesOf(b)' = {}
             /\ req'[g].op = "toggle" => \A f \in Handlers \ {g} : ~Toggling(f, b)'
             /\ req'[g].op = "create" => req'[g].name # "favorites"
  <2>1. pc'[g] = "make" => FavoritesOf(b)' = {}
    BY <1>1, <1>3, <1>5
  <2>2. req'[g].op = "toggle" => \A f \in Handlers \ {g} : ~Toggling(f, b)'
    BY <1>1, <1>4, <1>5 DEF Toggling, Busy
  <2> QED BY <1>1, <1>2, <1>5, <2>1, <2>2
<1> QED BY <1>5 DEF AloneInv, Busy

LEMMA UpdateKept ==
  ASSUME UpdateInv, NEW h \in Handlers, Works(h), lastPlaylist \in Nat, lastPlaylist' \in Nat,
         lastPlaylist <= lastPlaylist', NEW a, a = req[h].account,
         pc'[h] = "update" => /\ req'[h].playlist \in 1..lastPlaylist'
                              /\ req'[h].playlist \in DOMAIN playlists' =>
                                   req'[h].playlist \in FavoritesOf(a)',
         DOMAIN playlists' \cap 1..lastPlaylist \subseteq DOMAIN playlists,
         \A b : FavoritesOf(b) \cap DOMAIN playlists' \subseteq FavoritesOf(b)'
  PROVE  UpdateInv'
<1>1. ASSUME NEW g \in Handlers, pc'[g] = "update", NEW b, b = req'[g].account
      PROVE  /\ req'[g].playlist \in 1..lastPlaylist'
             /\ req'[g].playlist \in DOMAIN playlists' => req'[g].playlist \in FavoritesOf(b)'
  <2>1. CASE g = h
    BY <1>1, <2>1 DEF Works, Follows
  <2>2. CASE g # h
    <3>1. pc[g] = "update" /\ req'[g] = req[g]
      BY <1>1, <2>2 DEF Works, Others
    <3>2. /\ req[g].playlist \in 1..lastPlaylist
          /\ req[g].playlist \in DOMAIN playlists => req[g].playlist \in FavoritesOf(b)
      BY <1>1, <3>1 DEF UpdateInv
    <3> QED BY <3>1, <3>2
  <2> QED BY <2>1, <2>2
<1> QED BY <1>1 DEF UpdateInv

\* A step that leaves the playlists and what was said alone.
LEMMA NothingChanged ==
  ASSUME FormInv, FavoritesInv, NEW h \in Handlers, Works(h), UNCHANGED <<netease, word>>,
         disturbed \subseteq disturbed', disturbed' \subseteq Accounts,
         pc'[h] = "make" /\ req[h].account \notin disturbed' => FavoritesOf(req[h].account) = {},
         pc'[h] = "update" => \/ pc[h] = "update" /\ req'[h].playlist = req[h].playlist
                             \/ req'[h].playlist \in FavoritesOf(req[h].account)
  PROVE  FavoritesInv'
<1> PICK a : a = req[h].account
  OBVIOUS
<1>0. playlists' = playlists /\ lastPlaylist' = lastPlaylist /\ word' = word
  BY DEF netease
<1>1. \A b : FavoritesOf(b)' = FavoritesOf(b)
  BY <1>0 DEF FavoritesOf
<1>2. PlaylistsTypeOK' /\ HistoryTypeOK' /\ SingleInv'
  BY <1>0, <1>1 DEF FavoritesInv, PlaylistsTypeOK, HistoryTypeOK, SingleInv
<1>3. WordIsKept'
  BY <1>0, <1>1 DEF FavoritesInv, WordIsKept
<1>4. CrossInv'
  BY <1>0, CrossKept DEF FavoritesInv
<1>5. AloneInv'
  BY <1>1, AloneKept DEF FavoritesInv
<1>6. UpdateInv'
  <2>1. pc'[h] = "update" => /\ req'[h].playlist \in 1..lastPlaylist'
                             /\ req'[h].playlist \in DOMAIN playlists' =>
                                  req'[h].playlist \in FavoritesOf(a)'
    <3>1. FavoritesOf(a) \subseteq 1..lastPlaylist
      BY DEF FavoritesOf, FavoritesInv, PlaylistsTypeOK
    <3> QED BY <1>0, <1>1, <3>1 DEF FavoritesInv, UpdateInv
  <2>2. lastPlaylist \in Nat
    BY NeteaseAssumption DEF FavoritesInv, PlaylistsTypeOK
  <2> QED BY <1>0, <1>1, <2>1, <2>2, UpdateKept DEF FavoritesInv
<1> QED BY <1>2, <1>3, <1>4, <1>5, <1>6 DEF FavoritesInv

\* A playlist was made: for a toggle, whose account had none or is disturbed
\* now, or at the user's wish.
LEMMA PlaylistMade ==
  ASSUME FormInv, FavoritesInv, NEW h \in Handlers, Works(h), UNCHANGED word,
         NEW name \in {"favorites", "other"}, NEW a \in Accounts, a = req[h].account,
         Make(a, name), disturbed \subseteq disturbed', disturbed' \subseteq Accounts,
         name = "favorites" /\ a \notin disturbed' =>
           FavoritesOf(a) = {} /\ req[h].op = "toggle",
         pc'[h] = "make" => a \in disturbed',
         pc'[h] = "update" => req'[h].playlist = lastPlaylist' /\ name = "favorites"
  PROVE  FavoritesInv'
<1>0. PlaylistsTypeOK
  BY DEF FavoritesInv
<1>1. /\ PlaylistsTypeOK' /\ lastPlaylist' = lastPlaylist + 1
      /\ DOMAIN playlists' = DOMAIN playlists \cup {lastPlaylist'}
  BY <1>0, MakeEffect
<1>2. lastPlaylist \in Nat /\ DOMAIN playlists \subseteq 1..lastPlaylist
  BY <1>0, NeteaseAssumption DEF PlaylistsTypeOK
<1>3. ASSUME NEW b
      PROVE  /\ FavoritesOf(b)' = FavoritesOf(b) \cup
                    (IF b = a /\ name = "favorites" THEN {lastPlaylist'} ELSE {})
             /\ \A s : Listed(b, s)' <=> Listed(b, s)
  BY <1>0, FavoritesMade
<1>4. CrossInv' /\ HistoryTypeOK'
  BY CrossKept DEF FavoritesInv, HistoryTypeOK
<1>5. UpdateInv'
  <2>1. pc'[h] = "update" => /\ req'[h].playlist \in 1..lastPlaylist'
                             /\ req'[h].playlist \in DOMAIN playlists' =>
                                  req'[h].playlist \in FavoritesOf(a)'
    BY <1>1, <1>2, <1>3
  <2>2. \A b : FavoritesOf(b) \subseteq FavoritesOf(b)'
    BY <1>3
  <2>3. DOMAIN playlists' \cap 1..lastPlaylist \subseteq DOMAIN playlists
    BY <1>1, <1>2
  <2> QED BY <1>1, <1>2, <2>1, <2>2, <2>3, UpdateKept DEF FavoritesInv
<1>6. AloneInv'
  <2>1. ASSUME NEW g \in Handlers \ {h}, NEW b \in Accounts \ disturbed', pc[g] = "make",
               req[g].account = b
        PROVE  FavoritesOf(b)' \subseteq FavoritesOf(b)
    <3>1. Toggling(g, b)
      BY <2>1 DEF FormInv, Fits, Toggling, Busy, ToggleCalls
    <3>2. b = a => name # "favorites"
      BY <2>1, <3>1 DEF FavoritesInv, AloneInv, Works
    <3> QED BY <1>3, <3>2
  <2> QED BY <2>1, AloneKept DEF FavoritesInv
<1>7. SingleInv'
  BY <1>3 DEF FavoritesInv, SingleInv
<1>8. WordIsKept'
  BY <1>3 DEF FavoritesInv, WordIsKept, Listed
<1> QED BY <1>1, <1>4, <1>5, <1>6, <1>7, <1>8 DEF FavoritesInv

\* A deletion: nothing counts as said of the songs of its account.
LEMMA PlaylistDropped ==
  ASSUME FormInv, FavoritesInv, NEW h \in Handlers, Works(h), UNCHANGED <<word, disturbed>>,
         pc[h] = "drop", pc'[h] \in {"idle", "drop"},
         NEW p, p \in DOMAIN playlists, playlists[p].owner = req[h].account, Drop(p)
  PROVE  FavoritesInv'
<1> PICK a : a = req[h].account
  OBVIOUS
<1>0. /\ PlaylistsTypeOK /\ req[h].op = "delete" /\ Busy(h)
  BY DEF FavoritesInv, FormInv, Fits, Works
<1>1. /\ PlaylistsTypeOK' /\ lastPlaylist' = lastPlaylist /\ lastPlaylist \in Nat
      /\ DOMAIN playlists' = DOMAIN playlists \ {p}
  BY <1>0, DropEffect, NeteaseAssumption DEF PlaylistsTypeOK
<1>2. ASSUME NEW b
      PROVE  /\ FavoritesOf(b)' = FavoritesOf(b) \ {p}
             /\ b # a => \A s : Listed(b, s)' <=> Listed(b, s)
  BY <1>0, FavoritesDropped
<1>3. CrossInv' /\ HistoryTypeOK'
  BY CrossKept DEF FavoritesInv, HistoryTypeOK
<1>4. UpdateInv'
  BY <1>1, <1>2, UpdateKept DEF FavoritesInv
<1>5. AloneInv'
  BY <1>2, AloneKept DEF FavoritesInv
<1>6. SingleInv'
  BY <1>2 DEF FavoritesInv, SingleInv
<1>7. WordIsKept'
  <2>1. ASSUME NEW s \in Songs
        PROVE  word[<<a, s>>] # TRUE /\ word[<<a, s>>] # FALSE
    BY <1>0, NeteaseAssumption DEF FavoritesInv, CrossInv
  <2>2. ASSUME NEW b \in Accounts, NEW s \in Songs
        PROVE  /\ word'[<<b, s>>] = TRUE => Listed(b, s)'
               /\ word'[<<b, s>>] = FALSE /\ b \notin disturbed' => ~Listed(b, s)'
    <3>1. CASE b = a
      BY <2>1, <3>1
    <3>2. CASE b # a
      BY <1>2, <3>2 DEF FavoritesInv, WordIsKept, Listed
    <3> QED BY <3>1, <3>2
  <2> QED BY <2>2 DEF WordIsKept, Listed
<1> QED BY <1>1, <1>3, <1>4, <1>5, <1>6, <1>7 DEF FavoritesInv

\* An update that took effect, and was answered or not.
LEMMA PlaylistChanged ==
  ASSUME FormInv, FavoritesInv, NEW h \in Handlers, Works(h), UNCHANGED disturbed,
         pc[h] = "update", pc'[h] = "idle" \/ (pc'[h] = "update" /\ req'[h].playlist = req[h].playlist),
         Change(req[h].playlist, req[h].song, req[h].remove),
         UNCHANGED word \/ (pc'[h] = "idle" /\ Say(h))
  PROVE  FavoritesInv'
<1> PICK p, song, remove, a :
      p = req[h].playlist /\ song = req[h].song /\ remove = req[h].remove /\ a = req[h].account
  OBVIOUS
<1>0. /\ PlaylistsTypeOK /\ req[h].op = "toggle" /\ Busy(h)
      /\ a \in Accounts /\ song \in Songs /\ remove \in BOOLEAN /\ Change(p, song, remove)
  BY DEF FavoritesInv, FormInv, Fits, Works, ToggleCalls, Reqs
<1>1. /\ PlaylistsTypeOK' /\ lastPlaylist' = lastPlaylist /\ p \in DOMAIN playlists
      /\ DOMAIN playlists' = DOMAIN playlists
  BY <1>0, ChangeEffect
<1>2. lastPlaylist \in Nat
  BY <1>0, NeteaseAssumption DEF PlaylistsTypeOK
<1>3. p \in FavoritesOf(a) /\ p \in 1..lastPlaylist
  BY <1>1 DEF FavoritesInv, UpdateInv
<1>4. ASSUME NEW b
      PROVE  /\ FavoritesOf(b)' = FavoritesOf(b)
             /\ \A s : b # a \/ s # song => (Listed(b, s)' <=> Listed(b, s))
  <2>1. b # a => p \notin FavoritesOf(b)
    BY <1>3 DEF FavoritesOf
  <2>2. /\ FavoritesOf(b)' = FavoritesOf(b)
        /\ \A s : p \notin FavoritesOf(b) \/ s # song => (Listed(b, s)' <=> Listed(b, s))
    BY ONLY <1>0, FavoritesChanged
  <2> QED BY <2>1, <2>2
<1>5. song \in playlists'[p].songs <=> ~remove
  BY <1>0, FavoritesChanged
<1>6. CrossInv'
  <2>1. pc[h] \in ToggleCalls
    BY DEF ToggleCalls
  <2> QED BY <2>1, CrossKept, CrossSaid DEF FavoritesInv
<1>7. HistoryTypeOK' /\ \A w \in Accounts \X Songs : w # <<a, song>> => word'[w] = word[w]
  BY <1>0 DEF FavoritesInv, HistoryTypeOK, Say
<1>8. UpdateInv'
  BY <1>1, <1>2, <1>3, <1>4, UpdateKept DEF FavoritesInv
<1>9. AloneInv'
  BY <1>4, AloneKept DEF FavoritesInv
<1>10. SingleInv'
  BY <1>4 DEF FavoritesInv, SingleInv
<1>11. WordIsKept'
  <2>1. word[<<a, song>>] = None
    BY <1>0 DEF FavoritesInv, CrossInv
  <2>2. word'[<<a, song>>] = None \/ word'[<<a, song>>] = ~remove
    BY <1>0, <2>1 DEF FavoritesInv, HistoryTypeOK, Say
  <2>3. word'[<<a, song>>] = TRUE => Listed(a, song)'
    BY <1>0, <1>3, <1>4, <1>5, <2>2, NeteaseAssumption DEF Listed
  <2>4. word'[<<a, song>>] = FALSE /\ a \notin disturbed' => ~Listed(a, song)'
    <3>1. a \notin disturbed' => \A q \in FavoritesOf(a)' : q = p
      BY <1>0, <1>3, <1>4, <1>10 DEF SingleInv
    <3>2. word'[<<a, song>>] = FALSE => remove
      BY <1>0, <2>2, NeteaseAssumption
    <3> QED BY <1>5, <3>1, <3>2 DEF Listed
  <2>5. ASSUME NEW b \in Accounts, NEW s \in Songs
        PROVE  /\ word'[<<b, s>>] = TRUE => Listed(b, s)'
               /\ word'[<<b, s>>] = FALSE /\ b \notin disturbed' => ~Listed(b, s)'
    <3>1. CASE b = a /\ s = song
      BY <2>3, <2>4, <3>1
    <3>2. CASE b # a \/ s # song
      BY <1>4, <1>7, <3>2 DEF FavoritesInv, WordIsKept, Listed
    <3> QED BY <3>1, <3>2
  <2> QED BY <2>5 DEF WordIsKept, Listed
<1> QED BY <1>1, <1>6, <1>7, <1>8, <1>9, <1>10, <1>11 DEF FavoritesInv

\* What an arrival leaves of the requests that poll.
Bystanders(h) ==
  /\ UNCHANGED direct /\ pc'[h] \notin QRCalls
  /\ \A g \in Handlers \ {h} :
       /\ pc'[g] = pc[g] /\ req'[g].key = req[g].key
       /\ req'[g].confirmed = req[g].confirmed /\ req'[g].failed = req[g].failed

\* A request arrives.
LEMMA RequestBegun ==
  ASSUME FormInv, FavoritesInv, NEW h \in Handlers, NEW label \in Labels, NEW r \in Reqs,
         label \notin {"idle", "make", "update"} \cup QRCalls, Fits(label, r), Begin(h, label, r),
         UNCHANGED netease, disturbed \subseteq disturbed', disturbed' \subseteq Accounts,
         r.account \in Accounts,
         r.op = "toggle" /\ r.account \notin disturbed' => \A g \in Handlers : ~Toggling(g, r.account),
         r.op = "create" /\ r.account \notin disturbed' => r.name # "favorites"
  PROVE  FormInv' /\ FavoritesInv' /\ Bystanders(h)
<1>1. /\ FormInv' /\ pc[h] = "idle" /\ pc'[h] = label /\ SameRequest(r, req'[h])
      /\ req'[h].crossed <=> \E f \in Handlers : Busy(f) /\ Cross(req[f], r)
      /\ \A g \in Handlers \ {h} :
           /\ pc'[g] = pc[g] /\ SameRequest(req[g], req'[g])
           /\ req'[g].crossed <=> req[g].crossed \/ (Busy(g) /\ Cross(req[g], r))
  BY BeginReq
<1>2. word' = [w \in DOMAIN word |->
                 IF w[1] = r.account /\ (r.op = "delete" \/ w[2] = r.song) THEN None ELSE word[w]]
  BY DEF Begin
<1>3. \A a \in Accounts, s \in Songs :
        word'[<<a, s>>] = IF a = r.account /\ (r.op = "delete" \/ s = r.song)
                          THEN None ELSE word[<<a, s>>]
  BY <1>2 DEF FavoritesInv, HistoryTypeOK
<1>4. playlists' = playlists /\ lastPlaylist' = lastPlaylist /\ \A b : FavoritesOf(b)' = FavoritesOf(b)
  BY DEF netease, FavoritesOf
<1>5. PlaylistsTypeOK' /\ HistoryTypeOK' /\ SingleInv'
  <2>1. word' \in [Accounts \X Songs -> {TRUE, FALSE, None}]
    BY <1>2 DEF FavoritesInv, HistoryTypeOK
  <2> QED BY <1>4, <2>1 DEF FavoritesInv, PlaylistsTypeOK, HistoryTypeOK, SingleInv
<1>6. WordIsKept'
  <2>1. ASSUME NEW b \in Accounts, NEW s \in Songs
        PROVE  /\ word'[<<b, s>>] = TRUE => Listed(b, s)'
               /\ word'[<<b, s>>] = FALSE /\ b \notin disturbed' => ~Listed(b, s)'
    <3>1. Listed(b, s)' <=> Listed(b, s)
      BY <1>4 DEF Listed
    <3>2. word'[<<b, s>>] \in {None, word[<<b, s>>]}
      BY <1>3
    <3>3. None # TRUE /\ None # FALSE
      BY NeteaseAssumption
    <3> QED BY <3>1, <3>2, <3>3 DEF FavoritesInv, WordIsKept, Listed
  <2> QED BY <2>1 DEF WordIsKept, Listed
<1>7. UpdateInv'
  <2>1. ASSUME NEW g \in Handlers, pc'[g] = "update", NEW b, b = req'[g].account
        PROVE  /\ req'[g].playlist \in 1..lastPlaylist'
               /\ req'[g].playlist \in DOMAIN playlists' => req'[g].playlist \in FavoritesOf(b)'
    <3>1. pc[g] = "update" /\ req'[g].playlist = req[g].playlist /\ req'[g].account = req[g].account
      BY <1>1, <2>1 DEF SameRequest
    <3> QED BY <1>4, <2>1, <3>1 DEF FavoritesInv, UpdateInv
  <2> QED BY <2>1 DEF UpdateInv
<1>8. AloneInv'
  <2>1. ASSUME NEW g \in Handlers, pc'[g] # "idle", NEW b, b = req'[g].account, b \notin disturbed'
        PROVE  /\ pc'[g] = "make" => FavoritesOf(b)' = {}
               /\ req'[g].op = "toggle" => \A f \in Handlers \ {g} : ~Toggling(f, b)'
               /\ req'[g].op = "create" => req'[g].name # "favorites"
    <3>1. CASE g = h
      <4>1. /\ pc'[g] # "make" /\ b = r.account
            /\ req'[g].op = "create" => req'[g].name # "favorites"
        BY <1>1, <2>1, <3>1 DEF SameRequest
      <4>2. ASSUME NEW f \in Handlers \ {g}, req'[g].op = "toggle"
            PROVE  ~Toggling(f, b)'
        <5>1. ~Toggling(f, b)
          BY <1>1, <2>1, <3>1, <4>1, <4>2 DEF SameRequest
        <5> QED BY <1>1, <3>1, <5>1 DEF Toggling, Busy, SameRequest
      <4> QED BY <4>1, <4>2
    <3>2. CASE g # h
      <4>1. /\ Busy(g) /\ req[g].account = b /\ pc'[g] = pc[g]
            /\ req'[g].op = req[g].op /\ req'[g].name = req[g].name
        BY <1>1, <2>1, <3>2 DEF SameRequest, Busy
      <4>2. /\ pc'[g] = "make" => FavoritesOf(b)' = {}
            /\ req'[g].op = "create" => req'[g].name # "favorites"
        BY <1>4, <2>1, <4>1 DEF FavoritesInv, AloneInv
      <4>3. ASSUME NEW f \in Handlers \ {g}, req'[g].op = "toggle"
            PROVE  ~Toggling(f, b)'
        <5>1. ~Toggling(f, b)
          BY <2>1, <4>1, <4>3 DEF FavoritesInv, AloneInv
        <5>2. CASE f = h
          <6>1. Toggling(g, b)
            BY <4>1, <4>3 DEF Toggling
          <6>2. r.account = b => r.op # "toggle"
            BY <2>1, <6>1
          <6> QED BY <1>1, <5>2, <6>2 DEF Toggling, SameRequest
        <5>3. CASE f # h
          BY <1>1, <5>1, <5>3 DEF Toggling, Busy, SameRequest
        <5> QED BY <5>2, <5>3
      <4> QED BY <4>2, <4>3
    <3> QED BY <3>1, <3>2
  <2> QED BY <2>1 DEF AloneInv, Busy
<1>9. CrossInv'
  <2>1. ASSUME NEW g \in Handlers, Busy(g)', NEW f \in Handlers \ {g}, Busy(f)',
               Cross(req'[g], req'[f])
        PROVE  req'[g].crossed
    <3>1. CASE g = h
      BY <1>1, <2>1, <3>1 DEF Busy, Cross, SameRequest
    <3>2. CASE f = h
      BY <1>1, <2>1, <3>2 DEF Busy, Cross, SameRequest
    <3>3. CASE g # h /\ f # h
      <4>1. Busy(g) /\ Busy(f) /\ Cross(req[g], req[f])
        BY <1>1, <2>1, <3>3 DEF Busy, Cross, SameRequest
      <4>2. req[g].crossed
        BY <4>1 DEF FavoritesInv, CrossInv
      <4> QED BY <1>1, <3>3, <4>2
    <3> QED BY <3>1, <3>2, <3>3
  <2>2. ASSUME NEW g \in Handlers, Busy(g)'
        PROVE  /\ req'[g].op = "toggle" => word'[<<req'[g].account, req'[g].song>>] = None
               /\ req'[g].op = "delete" => \A s \in Songs : word'[<<req'[g].account, s>>] = None
    <3>1. CASE g = h
      <4>1. /\ req'[g].op = r.op /\ req'[g].account = r.account /\ req'[g].song = r.song
            /\ r.op = "toggle" => r.song \in Songs
        BY <1>1, <3>1 DEF SameRequest, Fits, Labels, ToggleCalls, QRCalls
      <4> QED BY <1>3, <4>1
    <3>2. CASE g # h
      <4>1. /\ Busy(g) /\ req'[g].op = req[g].op /\ req'[g].account = req[g].account
            /\ req'[g].song = req[g].song
        BY <1>1, <2>2, <3>2 DEF SameRequest, Busy
      <4>2. /\ req[g].op \in {"toggle", "delete"} => req[g].account \in Accounts
            /\ req[g].op = "toggle" => req[g].song \in Songs
        BY <4>1 DEF FormInv, Fits, Labels, Busy, ToggleCalls, QRCalls
      <4> QED BY <1>3, <4>1, <4>2 DEF FavoritesInv, CrossInv
    <3> QED BY <3>1, <3>2
  <2> QED BY <2>1, <2>2 DEF CrossInv
<1>10. Bystanders(h)
  BY <1>1 DEF Bystanders, SameRequest, Begin, Arrives
<1> QED BY <1>1, <1>5, <1>6, <1>7, <1>8, <1>9, <1>10 DEF FavoritesInv

-----------------------------------------------------------------------------
(* The actions on favourites *)

LEMMA FavoritesSame ==
  ASSUME FavoritesInv, UNCHANGED <<pc, req>>, UNCHANGED favoriteVars
  PROVE  FavoritesInv'
<1>0. /\ pc' = pc /\ req' = req /\ playlists' = playlists /\ lastPlaylist' = lastPlaylist
      /\ word' = word /\ disturbed' = disturbed
  BY DEF favoriteVars
<1>1. PlaylistsTypeOK' /\ HistoryTypeOK' /\ CrossInv'
  BY <1>0 DEF FavoritesInv, PlaylistsTypeOK, HistoryTypeOK, CrossInv, Busy
<1>2. UpdateInv' /\ AloneInv'
  BY <1>0 DEF FavoritesInv, UpdateInv, AloneInv, FavoritesOf, Busy, Toggling
<1>3. SingleInv' /\ WordIsKept'
  BY <1>0 DEF FavoritesInv, SingleInv, WordIsKept, FavoritesOf
<1> QED BY <1>1, <1>2, <1>3 DEF FavoritesInv

LEMMA FavoriteArrival ==
  ASSUME FormInv, FavoritesInv, NEW h \in Handlers, FavoriteRequest(h)
  PROVE  FormInv' /\ FavoritesInv' /\ Bystanders(h)
<1>0. {"playlists", "new", "drop"} \subseteq Labels \ ({"idle", "make", "update"} \cup QRCalls)
  BY DEF Labels, ToggleCalls, QRCalls
<1>1. ASSUME NEW a \in Accounts, NEW s \in Songs, NEW remove \in BOOLEAN, UNCHANGED netease, NEW r,
             r = [NoReq EXCEPT !.op = "toggle", !.account = a, !.song = s, !.remove = remove],
             Begin(h, "playlists", r), Disturb(a, \E g \in Handlers : Toggling(g, a))
      PROVE  FormInv' /\ FavoritesInv' /\ Bystanders(h)
  <2>1. r \in Reqs /\ r.op = "toggle" /\ r.account = a /\ r.song = s
    BY <1>1 DEF NoReq, Reqs, Ops
  <2>2. Fits("playlists", r)
    BY <2>1 DEF Fits, ToggleCalls
  <2>3. /\ disturbed \subseteq disturbed' /\ disturbed' \subseteq Accounts
        /\ a \notin disturbed' => \A g \in Handlers : ~Toggling(g, a)
    BY <1>1 DEF Disturb, FavoritesInv, HistoryTypeOK
  <2> QED BY <1>0, <1>1, <2>1, <2>2, <2>3, RequestBegun
<1>2. ASSUME Arrives(h), Reply(h), UNCHANGED favoriteVars
      PROVE  FormInv' /\ FavoritesInv' /\ Bystanders(h)
  <2>1. FormInv' /\ Others(h) /\ pc'[h] = "idle" /\ req'[h] = NoReq
    BY <1>2, ReplyReq
  <2>2. pc[h] = "idle" /\ req[h] = NoReq
    BY <1>2 DEF Arrives, Busy, FormInv, Fits
  <2>3. pc' = pc /\ req' = req
    <3>1. \A g \in Handlers : pc'[g] = pc[g] /\ req'[g] = req[g]
      BY <2>1, <2>2 DEF Others
    <3>2. /\ pc \in [Handlers -> Labels] /\ pc' \in [Handlers -> Labels]
          /\ req \in [Handlers -> Reqs] /\ req' \in [Handlers -> Reqs]
      BY <2>1 DEF FormInv
    <3> QED BY ONLY <3>1, <3>2
  <2>4. Bystanders(h)
    BY <1>2, <2>1, <2>3 DEF Bystanders, Arrives, QRCalls
  <2> QED BY <1>2, <2>1, <2>3, <2>4, FavoritesSame
<1>3. ASSUME NEW a \in Accounts, NEW name \in {"favorites", "other"}, UNCHANGED netease, NEW r,
             r = [NoReq EXCEPT !.op = "create", !.account = a, !.name = name],
             Begin(h, "new", r), Disturb(a, name = "favorites")
      PROVE  FormInv' /\ FavoritesInv' /\ Bystanders(h)
  <2>1. r \in Reqs /\ r.op = "create" /\ r.account = a /\ r.name = name
    BY <1>3 DEF NoReq, Reqs, Ops
  <2>2. Fits("new", r)
    BY <2>1 DEF Fits, ToggleCalls
  <2>3. /\ disturbed \subseteq disturbed' /\ disturbed' \subseteq Accounts
        /\ a \notin disturbed' => name # "favorites"
    BY <1>3 DEF Disturb, FavoritesInv, HistoryTypeOK
  <2> QED BY <1>0, <1>3, <2>1, <2>2, <2>3, RequestBegun
<1>4. ASSUME NEW a \in Accounts, NEW p \in 1..lastPlaylist, UNCHANGED <<netease, disturbed>>, NEW r,
             r = [NoReq EXCEPT !.op = "delete", !.account = a, !.playlist = p],
             Begin(h, "drop", r)
      PROVE  FormInv' /\ FavoritesInv' /\ Bystanders(h)
  <2>0. p \in 1..MaxPlaylists
    BY NeteaseAssumption DEF FavoritesInv, PlaylistsTypeOK
  <2>1. r \in Reqs /\ r.op = "delete" /\ r.account = a
    BY <1>4, <2>0 DEF NoReq, Reqs, Ops
  <2>2. Fits("drop", r)
    BY <2>1 DEF Fits, ToggleCalls
  <2>3. disturbed \subseteq disturbed' /\ disturbed' \subseteq Accounts
    BY <1>4 DEF FavoritesInv, HistoryTypeOK
  <2> QED BY <1>0, <1>4, <2>1, <2>2, <2>3, RequestBegun
<1>5. CASE ToggleFavorite(h)
  BY <1>1, <1>2, <1>5 DEF ToggleFavorite, favoriteVars, netease
<1>6. CASE CreatePlaylist(h)
  BY <1>3, <1>6 DEF CreatePlaylist
<1>7. CASE DeletePlaylist(h)
  BY <1>4, <1>7 DEF DeletePlaylist
<1> QED BY <1>5, <1>6, <1>7 DEF FavoriteRequest

LEMMA FavoriteWork ==
  ASSUME FormInv, FavoritesInv, NEW h \in Handlers, FavoriteStep(h)
  PROVE  FormInv' /\ FavoritesInv' /\ Works(h) /\ pc'[h] \notin QRCalls
<1>0. /\ PlaylistsTypeOK /\ HistoryTypeOK /\ req[h] \in Reqs /\ Fits(pc[h], req[h])
      /\ pc[h] \in {"playlists", "make", "update", "new", "drop"}
  BY DEF FavoritesInv, FormInv, FavoriteStep, Playlists, MakeFavorites, Update, New, DropPlaylist
<1>b. Busy(h)
  BY <1>0 DEF Busy
<1>c. /\ \A label \in {"idle", "playlists", "make", "update", "new", "drop"} : label \notin QRCalls
      /\ {"playlists", "make", "update"} \subseteq ToggleCalls
  BY DEF QRCalls, ToggleCalls
<1>e. ASSUME Reply(h) \/ NoAnswer(h)
      PROVE  /\ FormInv' /\ Works(h) /\ pc'[h] \in {"idle", pc[h]}
             /\ pc'[h] = pc[h] => req'[h].playlist = req[h].playlist
  BY <1>0, <1>b, <1>e, EndsReq DEF Works
<1>1. CASE Playlists(h)
  <2>1. /\ FormInv' /\ Works(h) /\ pc'[h] \in {"idle", "make", "update"}
        /\ pc'[h] = "make" => FavoritesOf(req[h].account) = {}
        /\ pc'[h] = "update" => req'[h].playlist \in FavoritesOf(req[h].account)
    BY <1>0, <1>b, <1>1, PlaylistsReq DEF Works
  <2>2. UNCHANGED <<netease, word>> /\ disturbed' = disturbed /\ disturbed \subseteq Accounts
    BY <1>0, <1>1 DEF Playlists, favoriteVars, netease, HistoryTypeOK
  <2> QED BY <1>c, <2>1, <2>2, NothingChanged
<1>2. CASE MakeFavorites(h)
  <2>0. /\ pc[h] = "make" /\ UNCHANGED word /\ req[h].account \in Accounts /\ req[h].op = "toggle"
        /\ req[h].account \notin disturbed => FavoritesOf(req[h].account) = {}
    BY <1>0, <1>b, <1>2, <1>c DEF MakeFavorites, Fits, FavoritesInv, AloneInv
  <2>1. ASSUME Make(req[h].account, "favorites"), UNCHANGED disturbed,
               Goto(h, "update", [req[h] EXCEPT !.playlist = lastPlaylist + 1])
        PROVE  FormInv' /\ FavoritesInv' /\ Works(h) /\ pc'[h] = "update"
    <3>1. /\ FormInv' /\ Works(h) /\ pc'[h] = "update" /\ req'[h].playlist = lastPlaylist'
      BY <1>0, <1>b, <2>0, <2>1, MadeReq DEF Works
    <3>2. disturbed \subseteq disturbed' /\ disturbed' \subseteq Accounts
      BY <1>0, <2>1 DEF HistoryTypeOK
    <3> QED BY <2>0, <2>1, <3>1, <3>2, PlaylistMade
  <2>2. ASSUME Make(req[h].account, "favorites"), NoAnswer(h), Disturb(req[h].account, TRUE)
        PROVE  FormInv' /\ FavoritesInv' /\ Works(h) /\ pc'[h] \in {"idle", "make"}
    <3>1. FormInv' /\ Works(h) /\ pc'[h] \in {"idle", "make"}
      BY <1>e, <2>0, <2>2
    <3>2. /\ disturbed \subseteq disturbed' /\ disturbed' \subseteq Accounts
          /\ req[h].account \in disturbed'
      BY <1>0, <2>0, <2>2 DEF Disturb, HistoryTypeOK
    <3> QED BY <2>0, <2>2, <3>1, <3>2, PlaylistMade
  <2>3. ASSUME Reply(h) \/ NoAnswer(h), UNCHANGED <<netease, disturbed>>
        PROVE  FormInv' /\ FavoritesInv' /\ Works(h) /\ pc'[h] \in {"idle", "make"}
    <3>1. FormInv' /\ Works(h) /\ pc'[h] \in {"idle", "make"}
      BY <1>e, <2>0, <2>3
    <3>2. UNCHANGED <<netease, word>> /\ disturbed' = disturbed /\ disturbed \subseteq Accounts
      BY <1>0, <2>0, <2>3 DEF HistoryTypeOK
    <3> QED BY <2>0, <3>1, <3>2, NothingChanged
  <2> QED BY <1>c, <1>2, <2>1, <2>2, <2>3 DEF MakeFavorites
<1>3. CASE Update(h)
  <2>0. pc[h] = "update" /\ UNCHANGED disturbed /\ disturbed \subseteq Accounts
    BY <1>0, <1>3 DEF Update, HistoryTypeOK
  <2>1. Reply(h) \/ NoAnswer(h)
    BY <1>3 DEF Update
  <2>2. /\ FormInv' /\ Works(h) /\ pc'[h] \in {"idle", "update"}
        /\ pc'[h] = "update" => req'[h].playlist = req[h].playlist
    BY <1>e, <2>0, <2>1
  <2>3. CASE Change(req[h].playlist, req[h].song, req[h].remove)
    <3>1. UNCHANGED word \/ (pc'[h] = "idle" /\ Say(h))
      <4>1. CASE Reply(h)
        <5>1. pc'[h] = "idle"
          BY <4>1, ReplyReq
        <5> QED BY <1>3, <5>1 DEF Update
      <4>2. CASE ~Reply(h)
        BY <1>3, <4>2 DEF Update
      <4> QED BY <4>1, <4>2
    <3> QED BY <1>c, <2>0, <2>2, <2>3, <3>1, PlaylistChanged
  <2>4. CASE UNCHANGED <<netease, word>>
    BY <1>c, <2>0, <2>2, <2>4, NothingChanged
  <2> QED BY <1>3, <2>3, <2>4 DEF Update
<1>4. CASE New(h)
  <2>0. /\ pc[h] = "new" /\ UNCHANGED <<word, disturbed>> /\ disturbed \subseteq Accounts
        /\ req[h].account \in Accounts /\ req[h].name \in {"favorites", "other"}
        /\ req[h].account \notin disturbed => req[h].name # "favorites"
    BY <1>0, <1>4, <1>b DEF New, Fits, FavoritesInv, AloneInv, HistoryTypeOK
  <2>1. FormInv' /\ Works(h) /\ pc'[h] \in {"idle", "new"}
    BY <1>4, <1>e, <2>0 DEF New
  <2>2. CASE Make(req[h].account, req[h].name)
    BY <1>c, <2>0, <2>1, <2>2, PlaylistMade
  <2>3. CASE UNCHANGED netease
    BY <1>c, <2>0, <2>1, <2>3, NothingChanged
  <2> QED BY <1>4, <2>2, <2>3 DEF New
<1>5. CASE DropPlaylist(h)
  <2>0. pc[h] = "drop" /\ UNCHANGED <<word, disturbed>> /\ disturbed \subseteq Accounts
    BY <1>0, <1>5 DEF DropPlaylist, HistoryTypeOK
  <2>1. FormInv' /\ Works(h) /\ pc'[h] \in {"idle", "drop"}
    BY <1>5, <1>e, <2>0 DEF DropPlaylist
  <2>2. ASSUME NEW p, p = req[h].playlist, p \in DOMAIN playlists,
               playlists[p].owner = req[h].account, Drop(p)
        PROVE  FavoritesInv'
    BY <2>0, <2>1, <2>2, PlaylistDropped
  <2>3. CASE UNCHANGED netease
    BY <1>c, <2>0, <2>1, <2>3, NothingChanged
  <2> QED BY <1>5, <1>c, <2>1, <2>2, <2>3 DEF DropPlaylist
<1> QED BY <1>1, <1>2, <1>3, <1>4, <1>5 DEF FavoriteStep

-----------------------------------------------------------------------------
(* The keys of QR logins *)

\* What a request about a key knows of it: a poll that goes on to type 3
\* without a failure asked about a key of that type.
Asks(h) ==
  /\ pc[h] \in {"key1", "key3", "check1", "check3"} => direct
  /\ pc[h] \in {"key", "image", "check"} => ~direct
  /\ pc[h] \in {"check1", "check3", "check"} =>
       /\ req[h].key \in DOMAIN keys
       /\ req[h].confirmed => keys[req[h].key].state # "waiting"
       /\ pc[h] = "check3" /\ ~req[h].failed => keys[req[h].key].type = "type3"

AskInv == \A h \in Handlers : Asks(h)

\* Each mode has its types.
KeyModeInv == \A k \in DOMAIN keys : keys[k].type = "any" <=> ~direct

KeysInv == KeysTypeOK /\ KeyModeInv /\ AskInv /\ ConfirmationIsReported

\* Keys keep their type, and none goes back to waiting.
KeysGrow ==
  \A k \in DOMAIN keys :
    /\ k \in DOMAIN keys' /\ keys'[k].type = keys[k].type
    /\ keys[k].state # "waiting" => keys'[k].state # "waiting"

LEMMA AskKept ==
  ASSUME AskInv, UNCHANGED direct, KeysGrow, NEW h \in Handlers, Asks(h)',
         \A g \in Handlers \ {h} :
           /\ pc'[g] = pc[g] /\ req'[g].key = req[g].key
           /\ req'[g].confirmed = req[g].confirmed /\ req'[g].failed = req[g].failed
  PROVE  AskInv'
<1>1. ASSUME NEW g \in Handlers \ {h}
      PROVE  Asks(g)'
  BY <1>1 DEF AskInv, Asks, KeysGrow
<1> QED BY <1>1 DEF AskInv

LEMMA KeyIssued ==
  ASSUME KeysTypeOK, KeyModeInv, UNCHANGED direct, NEW type \in KeyTypes, IssueKey(type),
         type = "any" <=> ~direct, told' = None
  PROVE  /\ KeysTypeOK' /\ KeyModeInv' /\ KeysGrow
         /\ lastKey' = lastKey + 1 /\ lastKey' \in 1..MaxKeys /\ lastKey' \in DOMAIN keys'
<1>1. lastKey \in Nat /\ lastKey' = lastKey + 1 /\ lastKey' \in 1..MaxKeys
  BY NeteaseAssumption DEF KeysTypeOK, IssueKey
<1>2. /\ DOMAIN keys' = 1..lastKey'
      /\ \A k \in DOMAIN keys : k \in DOMAIN keys' /\ keys'[k] = keys[k]
      /\ \A k \in DOMAIN keys' : k \notin DOMAIN keys => keys'[k] = [type |-> type, state |-> "waiting"]
  BY <1>1 DEF IssueKey, KeysTypeOK
<1>3. \A k \in DOMAIN keys' : keys'[k] \in [type : KeyTypes, state : KeyStates]
  BY <1>2 DEF KeysTypeOK, KeyStates
<1>4. KeysTypeOK'
  BY <1>1, <1>2, <1>3, NeteaseAssumption DEF KeysTypeOK
<1>5. KeyModeInv' /\ KeysGrow
  BY <1>2 DEF KeyModeInv, KeysGrow
<1> QED BY <1>1, <1>2, <1>4, <1>5

LEMMA KeysSame ==
  ASSUME KeysTypeOK, KeyModeInv, UNCHANGED direct, UNCHANGED netKeys, told' = None
  PROVE  KeysTypeOK' /\ KeyModeInv' /\ KeysGrow
BY DEF KeysTypeOK, KeyModeInv, KeysGrow, netKeys

LEMMA PhoneStep ==
  ASSUME KeysInv, Phone
  PROVE  KeysInv'
<1>0. /\ direct' = direct /\ pc' = pc /\ req' = req /\ told' = None /\ lastKey' = lastKey
  BY DEF Phone, requestVars
<1>1. PICK k \in DOMAIN keys, state \in {"confirmed", "expired"} :
        keys' = [keys EXCEPT ![k].state = state]
  BY DEF Phone
<1>2. /\ DOMAIN keys' = DOMAIN keys /\ \A j \in DOMAIN keys : j # k => keys'[j] = keys[j]
      /\ keys'[k] = [keys[k] EXCEPT !.state = state]
  BY <1>1
<1>3. keys'[k] \in [type : KeyTypes, state : KeyStates] /\ keys'[k].type = keys[k].type /\ keys'[k].state = state
  BY <1>2 DEF KeysInv, KeysTypeOK, KeyStates
<1>4. KeysTypeOK'
  BY <1>0, <1>2, <1>3 DEF KeysInv, KeysTypeOK
<1>5. KeyModeInv' /\ KeysGrow
  BY <1>0, <1>2, <1>3 DEF KeysInv, KeyModeInv, KeysGrow
<1>6. AskInv'
  BY <1>0, <1>5 DEF KeysInv, AskInv, Asks, KeysGrow
<1>7. ConfirmationIsReported'
  BY <1>0 DEF ConfirmationIsReported
<1> QED BY <1>4, <1>5, <1>6, <1>7 DEF KeysInv

\* What a poll makes of the answer about a key.
LEMMA AnswerOfKey ==
  ASSUME KeysTypeOK, NEW k \in DOMAIN keys, NEW type, NEW cookie \in BOOLEAN
  PROVE  /\ AnswerFor(Code(k, type), cookie) \in {"confirmed", "expired", "pending"}
         /\ type \in {keys[k].type, "any"} /\ keys[k].state # "waiting" /\ cookie =>
              AnswerFor(Code(k, type), cookie) = "confirmed" \/ keys[k].state = "expired"
         /\ type \in {keys[k].type, "any"} => Code(k, type) # 0
<1>1. keys[k].state \in KeyStates
  BY DEF KeysTypeOK
<1>2. CASE type \notin {keys[k].type, "any"}
  BY <1>2 DEF Code, AnswerFor
<1>3. CASE type \in {keys[k].type, "any"}
  <2>1. CASE keys[k].state = "waiting"
    <3>1. Code(k, type) = 801
      BY <1>3, <2>1 DEF Code
    <3> QED BY <2>1, <3>1 DEF AnswerFor
  <2>2. CASE keys[k].state = "confirmed"
    <3>1. Code(k, type) = 803
      BY <1>3, <2>2 DEF Code
    <3> QED BY <2>2, <3>1 DEF AnswerFor
  <2>3. CASE keys[k].state = "expired"
    <3>1. Code(k, type) = 800
      BY <1>3, <2>3 DEF Code
    <3> QED BY <2>3, <3>1 DEF AnswerFor
  <2> QED BY <1>1, <2>1, <2>2, <2>3 DEF KeyStates
<1> QED BY <1>2, <1>3

\* A poll is answered: by a code, or after a call that failed.
LEMMA Told ==
  ASSUME FormInv, KeysInv, NEW h \in Handlers, UNCHANGED netKeys, Busy(h),
         req[h].key \in DOMAIN keys, NEW cookie \in BOOLEAN,
         NEW answer \in {"confirmed", "expired", "pending", "error"}, Tell(h, answer, cookie),
         req[h].confirmed /\ ~req[h].failed /\ cookie =>
           answer = "confirmed" \/ keys[req[h].key].state = "expired"
  PROVE  FormInv' /\ Works(h) /\ pc'[h] = "idle" /\ KeysInv'
<1>1. FormInv' /\ Others(h) /\ pc'[h] = "idle" /\ UNCHANGED direct
  BY ReplyReq DEF Tell, Reply, Goto
<1>2. PICK due : due = (req[h].confirmed /\ ~req[h].failed /\ cookie)
  OBVIOUS
<1>3. due \in BOOLEAN /\ told' = [key |-> req[h].key, answer |-> answer, due |-> due]
  BY <1>2 DEF Tell
<1>4. /\ told'.key = req[h].key /\ told'.answer = answer /\ told'.due = due
      /\ told' \in [key : DOMAIN keys, due : BOOLEAN,
                   answer : {"confirmed", "expired", "pending", "error"}]
  BY <1>3
<1>5. keys' = keys /\ lastKey' = lastKey
  BY DEF netKeys
<1>6. KeysTypeOK' /\ KeyModeInv' /\ KeysGrow
  BY <1>1, <1>4, <1>5 DEF KeysInv, KeysTypeOK, KeyModeInv, KeysGrow
<1>7. AskInv'
  <2>1. Asks(h)'
    BY <1>1 DEF Asks
  <2> QED BY <1>1, <1>6, <2>1, AskKept DEF KeysInv, Others
<1>8. ConfirmationIsReported'
  BY <1>2, <1>4, <1>5 DEF ConfirmationIsReported
<1> QED BY <1>1, <1>6, <1>7, <1>8 DEF KeysInv, Works

\* A call of a QR request ends and its answer changes nothing that was told.
LEMMA QRCallEnds ==
  ASSUME FormInv, KeysInv, NEW h \in Handlers, Busy(h), Works(h), FormInv', UNCHANGED direct,
         KeysTypeOK', KeyModeInv', KeysGrow, told' = None, Asks(h)'
  PROVE  KeysInv'
<1>1. AskInv'
  BY AskKept DEF KeysInv, Works, Others
<1>2. ConfirmationIsReported'
  BY DEF ConfirmationIsReported
<1> QED BY <1>1, <1>2 DEF KeysInv

LEMMA QRWork ==
  ASSUME FormInv, KeysInv, NEW h \in Handlers, QRStep(h)
  PROVE  FormInv' /\ KeysInv' /\ Works(h) /\ pc'[h] \in QRCalls \cup {"idle"}
<1>0. /\ KeysTypeOK /\ KeyModeInv /\ Asks(h) /\ req[h] \in Reqs /\ Fits(pc[h], req[h])
      /\ pc[h] \in QRCalls /\ Busy(h)
  <2>1. pc[h] \in {"key1", "key3", "key", "image", "check1", "check3", "check"}
    BY DEF QRStep, CreateQR, UpstreamKey, UpstreamImage, CheckQR, UpstreamCheck
  <2> QED BY <2>1 DEF KeysInv, AskInv, FormInv, Busy, QRCalls
<1>1. UNCHANGED direct
  BY DEF QRStep, CreateQR, DirectKey, UpstreamKey, UpstreamImage, CheckQR, UpstreamCheck, Reply, Goto,
         TellCode, Tell
<1>2. ASSUME Reply(h), KeysTypeOK', KeyModeInv', KeysGrow, told' = None
      PROVE  FormInv' /\ KeysInv' /\ Works(h) /\ pc'[h] = "idle"
  <2>1. FormInv' /\ Others(h) /\ pc'[h] = "idle"
    BY <1>2, ReplyReq
  <2>2. Asks(h)'
    BY <2>1 DEF Asks
  <2> QED BY <1>0, <1>1, <1>2, <2>1, <2>2, QRCallEnds DEF Works
<1>3. UNCHANGED netKeys /\ told' = None => KeysTypeOK' /\ KeyModeInv' /\ KeysGrow
  BY <1>0, <1>1, KeysSame
<1>4. {"key3", "image", "check3"} \subseteq (Labels \cap QRCalls) \ {"idle"}
  BY DEF Labels, QRCalls
<1>5. CASE CreateQR(h)
  <2>0. told' = None /\ direct /\ pc[h] \in {"key1", "key3"}
    BY <1>0, <1>5 DEF CreateQR, Asks
  <2>1. ASSUME NEW type \in {"type1", "type3"}, IssueKey(type), Reply(h)
        PROVE  FormInv' /\ KeysInv' /\ Works(h) /\ pc'[h] = "idle"
    <3>1. KeysTypeOK' /\ KeyModeInv' /\ KeysGrow
      BY <1>0, <1>1, <2>0, <2>1, KeyIssued DEF KeyTypes
    <3> QED BY <1>2, <2>0, <2>1, <3>1
  <2>2. ASSUME Goto(h, "key3", req[h]), UNCHANGED netKeys
        PROVE  FormInv' /\ KeysInv' /\ Works(h) /\ pc'[h] = "key3"
    <3>1. Fits("key3", req[h])
      BY <1>0, <2>0 DEF Fits, ToggleCalls
    <3>2. FormInv' /\ Others(h) /\ pc'[h] = "key3" /\ Alike(req[h], req'[h])
      BY <1>0, <1>4, <2>2, <3>1, GotoReq
    <3>3. Asks(h)' /\ Works(h)
      BY <1>0, <1>1, <2>0, <3>2, AlikeFollows DEF Asks, Works
    <3> QED BY <1>0, <1>1, <1>3, <2>0, <2>2, <3>2, <3>3, QRCallEnds
  <2>3. ASSUME Reply(h), UNCHANGED netKeys
        PROVE  FormInv' /\ KeysInv' /\ Works(h) /\ pc'[h] = "idle"
    BY <1>2, <1>3, <2>0, <2>3
  <2> QED BY <1>4, <1>5, <2>1, <2>2, <2>3 DEF CreateQR, DirectKey
<1>6. CASE UpstreamKey(h)
  <2>0. told' = None /\ ~direct /\ pc[h] = "key" /\ req[h].op = "qr"
    BY <1>0, <1>6 DEF UpstreamKey, Asks, Fits
  <2>1. ASSUME IssueKey("any"), Goto(h, "image", [req[h] EXCEPT !.key = lastKey + 1])
        PROVE  FormInv' /\ KeysInv' /\ Works(h) /\ pc'[h] = "image"
    <3>1. KeysTypeOK' /\ KeyModeInv' /\ KeysGrow /\ lastKey + 1 \in 1..MaxKeys
      BY <1>0, <1>1, <2>0, <2>1, KeyIssued DEF KeyTypes
    <3>2. PICK r : r = [req[h] EXCEPT !.key = lastKey + 1]
      OBVIOUS
    <3>3. r \in Reqs /\ Follows(req[h], r)
      BY <1>0, <3>1, <3>2, KeySet
    <3>4. Fits("image", r)
      BY <2>0, <3>3 DEF Fits, Follows, ToggleCalls
    <3>5. FormInv' /\ Others(h) /\ pc'[h] = "image" /\ Alike(r, req'[h])
      BY <1>4, <2>1, <3>2, <3>3, <3>4, GotoReq
    <3>6. Asks(h)' /\ Works(h)
      BY <1>0, <1>1, <2>0, <3>3, <3>5, FollowsTransitive DEF Asks, Works
    <3> QED BY <1>0, <1>1, <2>0, <3>1, <3>5, <3>6, QRCallEnds
  <2>2. ASSUME Reply(h), UNCHANGED netKeys
        PROVE  FormInv' /\ KeysInv' /\ Works(h) /\ pc'[h] = "idle"
    BY <1>2, <1>3, <2>0, <2>2
  <2> QED BY <1>4, <1>6, <2>1, <2>2 DEF UpstreamKey
<1>7. CASE UpstreamImage(h)
  BY <1>2, <1>3, <1>7 DEF UpstreamImage, KeysStay
<1>8. CASE CheckQR(h) \/ UpstreamCheck(h)
  <2>0. /\ UNCHANGED netKeys /\ pc[h] \in {"check1", "check3", "check"} /\ req[h].key \in DOMAIN keys
        /\ req[h].op = "poll"
        /\ req[h].confirmed => keys[req[h].key].state # "waiting"
    BY <1>0, <1>8 DEF CheckQR, UpstreamCheck, Asks, Fits
  <2>1. ASSUME NEW type, TellCode(h, type),
               req[h].confirmed /\ ~req[h].failed => type \in {keys[req[h].key].type, "any"}
        PROVE  FormInv' /\ KeysInv' /\ Works(h) /\ pc'[h] = "idle"
    <3>0. PICK cookie \in BOOLEAN : Tell(h, AnswerFor(Code(req[h].key, type), cookie), cookie)
      BY <2>1 DEF TellCode
    <3>1. PICK answer : answer = AnswerFor(Code(req[h].key, type), cookie)
      OBVIOUS
    <3>2. /\ answer \in {"confirmed", "expired", "pending", "error"} /\ Tell(h, answer, cookie)
          /\ req[h].confirmed /\ ~req[h].failed /\ cookie =>
               answer = "confirmed" \/ keys[req[h].key].state = "expired"
      BY <1>0, <2>0, <2>1, <3>0, <3>1, AnswerOfKey
    <3> QED BY <1>0, <2>0, <3>2, Told
  <2>2. ASSUME NEW answer \in {"pending", "error"}, Tell(h, answer, FALSE)
        PROVE  FormInv' /\ KeysInv' /\ Works(h) /\ pc'[h] = "idle"
    BY <1>0, <2>0, <2>2, Told
  <2>3. ASSUME pc[h] = "check1", NEW r \in Reqs, Code(req[h].key, "type1") = 0 \/ r.failed,
               Follows(req[h], r), r.key = req[h].key, Goto(h, "check3", r), told' = None
        PROVE  FormInv' /\ KeysInv' /\ Works(h) /\ pc'[h] = "check3"
    <3>1. Fits("check3", r) /\ direct
      BY <1>0, <2>0, <2>3 DEF Fits, Follows, ToggleCalls, Asks
    <3>2. FormInv' /\ Others(h) /\ pc'[h] = "check3" /\ Alike(r, req'[h])
      BY <1>4, <2>3, <3>1, GotoReq
    <3>3. ~r.failed => keys[req[h].key].type = "type3"
      <4>1. ASSUME ~r.failed
            PROVE  keys[req[h].key].type \notin {"type1", "any"}
        BY <1>0, <2>0, <2>3, <3>1, <4>1, AnswerOfKey DEF KeyModeInv
      <4> QED BY <1>0, <2>0, <4>1 DEF KeysTypeOK, KeyTypes
    <3>4. KeysTypeOK' /\ KeyModeInv' /\ KeysGrow /\ keys' = keys
      BY <1>3, <2>0, <2>3 DEF netKeys
    <3>5. Works(h)
      BY <1>0, <2>3, <3>2, FollowsTransitive DEF Works
    <3>6. Asks(h)'
      BY <1>1, <2>0, <2>3, <3>1, <3>2, <3>3, <3>4 DEF Asks, Follows, Alike
    <3> QED BY <1>0, <1>1, <2>3, <3>2, <3>4, <3>5, <3>6, QRCallEnds
  <2>4. CASE pc[h] = "check1" /\ Code(req[h].key, "type1") # 0 /\ TellCode(h, "type1")
    <3>1. "type1" \in {keys[req[h].key].type, "any"}
      BY <2>4 DEF Code
    <3> QED BY <2>1, <2>4, <3>1
  <2>5. CASE pc[h] = "check1" /\ Code(req[h].key, "type1") = 0 /\ Goto(h, "check3", req[h]) /\ told' = None
    BY <1>0, <1>4, <2>3, <2>5, FollowsItself
  <2>6. CASE /\ pc[h] = "check1" /\ told' = None
             /\ Goto(h, "check3", [req[h] EXCEPT !.failed = TRUE])
    <3>1. PICK r : r = [req[h] EXCEPT !.failed = TRUE]
      OBVIOUS
    <3>2. r \in Reqs /\ Follows(req[h], r) /\ r.failed = TRUE /\ r.key = req[h].key
      BY <1>0, <3>1, FailedSet
    <3> QED BY <1>4, <2>3, <2>6, <3>1, <3>2
  <2>7. CASE pc[h] = "check3" /\ TellCode(h, "type3")
    BY <1>0, <2>1, <2>7 DEF Asks
  <2>8. CASE TellCode(h, "any")
    BY <2>1, <2>8
  <2>9. CASE Tell(h, "pending", FALSE) \/ Tell(h, "error", FALSE)
    BY <2>2, <2>9
  <2> QED BY <1>4, <1>8, <2>4, <2>5, <2>6, <2>7, <2>8, <2>9 DEF CheckQR, UpstreamCheck
<1> QED BY <1>4, <1>5, <1>6, <1>7, <1>8 DEF QRStep

LEMMA QRArrival ==
  ASSUME FormInv, KeysInv, NEW h \in Handlers, QRRequest(h)
  PROVE  /\ FormInv' /\ KeysInv' /\ Others(h) /\ pc[h] = "idle" /\ pc'[h] \in QRCalls
         /\ req'[h].op \in {"qr", "poll"}
<1>0. /\ pc[h] = "idle" /\ UNCHANGED direct /\ keys' = keys /\ told' = None
      /\ KeysTypeOK' /\ KeyModeInv' /\ KeysGrow
  <2>1. pc[h] = "idle" /\ UNCHANGED direct /\ UNCHANGED netKeys /\ told' = None
    BY DEF QRRequest, NewQR, Poll, Arrives, Busy, KeysStay
  <2> QED BY <2>1, KeysSame DEF KeysInv, netKeys
<1>1. ASSUME NEW label \in {"key1", "key", "check1", "check"}, NEW r \in Reqs, Fits(label, r),
             pc' = [pc EXCEPT ![h] = label], req' = [req EXCEPT ![h] = r],
             label \in {"key1", "check1"} <=> direct,
             label \in {"check1", "check"} =>
               r.key \in DOMAIN keys /\ (r.confirmed => keys[r.key].state # "waiting"),
             r.op \in {"qr", "poll"}
      PROVE  /\ FormInv' /\ KeysInv' /\ Others(h) /\ pc'[h] \in QRCalls
             /\ req'[h].op \in {"qr", "poll"}
  <2>1. FormInv' /\ Others(h) /\ pc'[h] = label /\ req'[h] = r
    BY <1>0, <1>1, FormKept DEF Labels, QRCalls
  <2>2. Asks(h)'
    BY <1>0, <1>1, <2>1 DEF Asks
  <2>3. AskInv'
    BY <1>0, <2>1, <2>2, AskKept DEF KeysInv, Others
  <2>4. ConfirmationIsReported'
    BY <1>0 DEF ConfirmationIsReported
  <2> QED BY <1>0, <1>1, <2>1, <2>3, <2>4 DEF KeysInv, QRCalls
<1>2. CASE NewQR(h)
  <2>1. PICK r : r = [NoReq EXCEPT !.op = "qr"]
    OBVIOUS
  <2>2. r \in Reqs /\ r.op = "qr"
    BY <2>1 DEF NoReq, Reqs, Ops
  <2>3. PICK label : label = IF direct THEN "key1" ELSE "key"
    OBVIOUS
  <2>4. Fits(label, r)
    BY <2>2, <2>3 DEF Fits, ToggleCalls
  <2>5. pc' = [pc EXCEPT ![h] = label] /\ req' = [req EXCEPT ![h] = r]
    BY <1>2, <2>1, <2>3 DEF NewQR
  <2> QED BY <1>0, <1>1, <2>2, <2>3, <2>4, <2>5
<1>3. CASE Poll(h)
  <2>0. PICK k \in DOMAIN keys :
          req' = [req EXCEPT ![h] = [NoReq EXCEPT !.op = "poll", !.key = k,
                                                  !.confirmed = keys[k].state = "confirmed"]]
    BY <1>3 DEF Poll
  <2>1. PICK confirmed : confirmed = (keys[k].state = "confirmed")
    OBVIOUS
  <2>2. confirmed \in BOOLEAN /\ k \in 1..MaxKeys
    BY <2>1, NeteaseAssumption DEF KeysInv, KeysTypeOK
  <2>3. PICK r : r = [NoReq EXCEPT !.op = "poll", !.key = k, !.confirmed = confirmed]
    OBVIOUS
  <2>4. r \in Reqs /\ r.op = "poll" /\ r.key = k /\ r.confirmed = confirmed
    BY <2>2, <2>3 DEF NoReq, Reqs, Ops
  <2>5. PICK label : label = IF direct THEN "check1" ELSE "check"
    OBVIOUS
  <2>6. Fits(label, r)
    BY <2>4, <2>5 DEF Fits, ToggleCalls
  <2>7. pc' = [pc EXCEPT ![h] = label] /\ req' = [req EXCEPT ![h] = r]
    BY <1>3, <2>0, <2>1, <2>3, <2>5 DEF Poll
  <2>8. r.confirmed => keys[r.key].state # "waiting"
    BY <2>1, <2>4
  <2> QED BY <1>0, <1>1, <2>4, <2>5, <2>6, <2>7, <2>8
<1> QED BY <1>0, <1>2, <1>3 DEF QRRequest

-----------------------------------------------------------------------------
(* Both together *)

\* A request about a key comes or goes on beside the favourites.
LEMMA FavoritesBesideQR ==
  ASSUME FormInv, FavoritesInv, NEW h \in Handlers, UNCHANGED favoriteVars,
         \/ Works(h) /\ pc'[h] \in QRCalls \cup {"idle"}
         \/ Others(h) /\ pc[h] = "idle" /\ pc'[h] \in QRCalls /\ req'[h].op \in {"qr", "poll"}
  PROVE  FavoritesInv'
<1>0. /\ "make" \notin QRCalls \cup {"idle"} /\ "update" \notin QRCalls \cup {"idle"}
      /\ "idle" \notin QRCalls
  BY DEF QRCalls
<1>1. CASE Works(h) /\ pc'[h] \in QRCalls \cup {"idle"}
  <2>1. /\ UNCHANGED <<netease, word>> /\ disturbed \subseteq disturbed'
        /\ disturbed' \subseteq Accounts
    BY DEF favoriteVars, netease, FavoritesInv, HistoryTypeOK
  <2> QED BY <1>0, <1>1, <2>1, NothingChanged
<1>2. CASE Others(h) /\ pc[h] = "idle" /\ pc'[h] \in QRCalls /\ req'[h].op \in {"qr", "poll"}
  <2>0. /\ playlists' = playlists /\ lastPlaylist' = lastPlaylist
        /\ word' = word /\ disturbed' = disturbed
    BY DEF favoriteVars
  <2>1. PlaylistsTypeOK' /\ HistoryTypeOK' /\ SingleInv' /\ WordIsKept'
    <3>1. PlaylistsTypeOK' /\ HistoryTypeOK'
      BY <2>0 DEF FavoritesInv, PlaylistsTypeOK, HistoryTypeOK
    <3>2. \A b : FavoritesOf(b)' = FavoritesOf(b)
      BY <2>0 DEF FavoritesOf
    <3>3. SingleInv' /\ WordIsKept'
      BY <2>0, <3>2 DEF FavoritesInv, SingleInv, WordIsKept
    <3> QED BY <3>1, <3>3
  <2>2. ASSUME NEW g \in Handlers, pc'[g] # "idle", g # h
        PROVE  pc'[g] = pc[g] /\ req'[g] = req[g]
    BY <1>2, <2>2 DEF Others
  <2>3. CrossInv'
    BY <1>2, <2>0, <2>2 DEF FavoritesInv, CrossInv, Cross, Busy
  <2>4. UpdateInv'
    BY <1>0, <1>2, <2>0, <2>2 DEF FavoritesInv, UpdateInv, FavoritesOf
  <2>5. AloneInv'
    BY <1>0, <1>2, <2>0, <2>2 DEF FavoritesInv, AloneInv, Toggling, Busy, FavoritesOf
  <2> QED BY <2>1, <2>3, <2>4, <2>5 DEF FavoritesInv
<1> QED BY <1>1, <1>2

\* A request about favourites comes or goes on beside the polls.
LEMMA KeysBesideFavorites ==
  ASSUME KeysInv, NEW h \in Handlers, KeysStay, UNCHANGED direct, pc'[h] \notin QRCalls,
         Others(h) \/ Bystanders(h)
  PROVE  KeysInv'
<1>1. KeysTypeOK' /\ KeyModeInv' /\ KeysGrow /\ told' = None
  BY KeysSame DEF KeysInv, KeysStay
<1>2. Asks(h)'
  BY DEF Asks, QRCalls
<1>3. AskInv'
  BY <1>1, <1>2, AskKept DEF KeysInv, Others, Bystanders
<1>4. ConfirmationIsReported'
  BY <1>1 DEF ConfirmationIsReported
<1> QED BY <1>1, <1>3, <1>4 DEF KeysInv

NeteaseInv == FormInv /\ FavoritesInv /\ KeysInv

LEMMA NeteaseInit ==
  ASSUME Init
  PROVE  NeteaseInv
<1>1. FormInv
  BY NoReqIsAReq DEF Init, RequestsInit, FormInv, Labels, Fits, ToggleCalls
<1>2. \A h \in Handlers : pc[h] = "idle"
  BY DEF Init, RequestsInit
<1>3. DOMAIN playlists = {} /\ DOMAIN keys = {}
  BY DEF Init, FavoritesInit, KeysInit
<1>4. PlaylistsTypeOK /\ HistoryTypeOK /\ SingleInv
  BY <1>3, NeteaseAssumption DEF Init, FavoritesInit, PlaylistsTypeOK, HistoryTypeOK, SingleInv, FavoritesOf
<1>5. CrossInv /\ UpdateInv /\ AloneInv
  BY <1>2 DEF CrossInv, UpdateInv, AloneInv, Busy
<1>6. WordIsKept
  BY NeteaseAssumption DEF Init, FavoritesInit, WordIsKept
<1>7. KeysTypeOK /\ KeyModeInv /\ AskInv
  BY <1>2, <1>3, NeteaseAssumption DEF Init, KeysInit, KeysTypeOK, KeyModeInv, AskInv, Asks
<1>8. ConfirmationIsReported
  BY DEF Init, KeysInit, ConfirmationIsReported
<1> QED BY <1>1, <1>4, <1>5, <1>6, <1>7, <1>8 DEF NeteaseInv, FavoritesInv, KeysInv

LEMMA NeteaseNext ==
  ASSUME NeteaseInv, [Next]_vars
  PROVE  NeteaseInv'
<1> USE DEF NeteaseInv
<1>1. ASSUME NEW h \in Handlers, FavoriteRequest(h), KeysStay
      PROVE  NeteaseInv'
  <2>1. FormInv' /\ FavoritesInv' /\ Bystanders(h)
    BY <1>1, FavoriteArrival
  <2> QED BY <1>1, <2>1, KeysBesideFavorites DEF Bystanders
<1>2. ASSUME NEW h \in Handlers, QRRequest(h), UNCHANGED favoriteVars
      PROVE  NeteaseInv'
  BY <1>2, QRArrival, FavoritesBesideQR
<1>3. ASSUME NEW h \in Handlers, FavoriteStep(h), KeysStay
      PROVE  NeteaseInv'
  <2>1. FormInv' /\ FavoritesInv' /\ Works(h) /\ pc'[h] \notin QRCalls
    BY <1>3, FavoriteWork
  <2>2. UNCHANGED direct
    BY <1>3 DEF FavoriteStep, Playlists, MakeFavorites, Update, New, DropPlaylist, Reply, NoAnswer, Goto
  <2> QED BY <1>3, <2>1, <2>2, KeysBesideFavorites DEF Works
<1>4. ASSUME NEW h \in Handlers, QRStep(h), UNCHANGED favoriteVars
      PROVE  NeteaseInv'
  BY <1>4, QRWork, FavoritesBesideQR
<1>5. ASSUME Phone, UNCHANGED favoriteVars
      PROVE  NeteaseInv'
  <2>1. pc' = pc /\ req' = req /\ direct' = direct
    BY <1>5 DEF Phone, requestVars
  <2>2. FormInv' /\ FavoritesInv'
    BY <1>5, <2>1, FavoritesSame DEF FormInv
  <2> QED BY <1>5, <2>2, PhoneStep
<1>6. ASSUME UNCHANGED vars
      PROVE  NeteaseInv'
  <2>1. /\ pc' = pc /\ req' = req /\ direct' = direct /\ UNCHANGED favoriteVars
        /\ keys' = keys /\ lastKey' = lastKey /\ told' = told
    BY <1>6 DEF vars, requestVars, keyVars
  <2>2. FormInv' /\ FavoritesInv'
    BY <2>1, FavoritesSame DEF FormInv
  <2>3. KeysInv'
    BY <2>1 DEF KeysInv, KeysTypeOK, KeyModeInv, AskInv, Asks, ConfirmationIsReported
  <2> QED BY <2>2, <2>3
<1> QED BY <1>1, <1>2, <1>3, <1>4, <1>5, <1>6 DEF Next, Arrive, Work

LEMMA NeteaseInvHolds == Spec => []NeteaseInv
BY NeteaseInit, NeteaseNext, PTL DEF Spec

-----------------------------------------------------------------------------
(* Results *)

(* The requests, the playlists, the keys and the histories keep their      *)
(* types.                                                                  *)
THEOREM NeteaseTypes == Spec => []NeteaseTypeOK
<1>1. NeteaseInv => NeteaseTypeOK
  <2>1. FormInv => RequestTypeOK
    BY DEF FormInv, RequestTypeOK, Labels, Reqs, Fits
  <2> QED BY <2>1 DEF NeteaseInv, FavoritesInv, PlaylistsTypeOK, HistoryTypeOK, KeysInv,
                      NeteaseTypeOK, FavoritesTypeOK
<1> QED BY <1>1, NeteaseInvHolds, PTL

(* An account has one playlist of favourites unless its toggles overlapped, *)
(* the answer to a creation was lost or it made a namesake.                *)
THEOREM OnePlaylistHolds == Spec => []OnePlaylistUnlessDisturbed
<1>1. NeteaseInv => OnePlaylistUnlessDisturbed
  <2> SUFFICES ASSUME NeteaseInv, NEW a \in Accounts \ disturbed
               PROVE  Cardinality(FavoritesOf(a)) <= 1
    BY DEF OnePlaylistUnlessDisturbed
  <2>1. \A p, q \in FavoritesOf(a) : p = q
    BY DEF NeteaseInv, FavoritesInv, SingleInv
  <2>2. CASE FavoritesOf(a) = {}
    BY <2>2, FS_EmptySet
  <2>3. ASSUME NEW p \in FavoritesOf(a)
        PROVE  Cardinality(FavoritesOf(a)) <= 1
    <3>1. FavoritesOf(a) = {p}
      BY <2>1
    <3>2. Cardinality({p}) = 1
      BY FS_Singleton
    <3> QED BY <3>1, <3>2
  <2> QED BY <2>2, <2>3
<1> QED BY <1>1, NeteaseInvHolds, PTL

(* What the app was told of a song is so at Netease until the song's next  *)
(* toggle or a deletion.                                                   *)
THEOREM WordIsAlwaysKept == Spec => []WordIsKept
<1>1. NeteaseInv => WordIsKept
  BY DEF NeteaseInv, FavoritesInv
<1> QED BY <1>1, NeteaseInvHolds, PTL

(* A login confirmed before a poll came is reported by it, if no call of it *)
(* failed and Netease sends the cookie (CheckQR, neteaseQRPoll).           *)
THEOREM ConfirmationsReported == Spec => []ConfirmationIsReported
<1>1. NeteaseInv => ConfirmationIsReported
  BY DEF NeteaseInv, KeysInv
<1> QED BY <1>1, NeteaseInvHolds, PTL
=============================================================================
