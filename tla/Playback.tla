------------------------------ MODULE Playback ------------------------------
(***************************************************************************)
(* From a song to its sound: the play-url handlers of both providers, the  *)
(* tokens they hand out, and the stream handlers that proxy the media      *)
(* (internal/httpapi/handlers_netease_bilibili.go on internal/stream).     *)
(*                                                                         *)
(* One song.  What the providers would serve of it to the account of each  *)
(* cookie is external and fixed; a call to a provider may fail if Flaky,   *)
(* for any reason, a cancelled request included.  The failed field of a    *)
(* request, what failing calls would have brought, is read by properties   *)
(* only.  A media URL is represented by what it is the URL of, and a path  *)
(* by its segments.                                                        *)
(***************************************************************************)
EXTENDS StreamStore, SequencesExt

CONSTANTS
  Handlers,       \* requests that may be in progress at once
  Providers,      \* of the requests of this instance: "netease", "bilibili"
  Levels,         \* values of "level" in a request; the lower ones are always tried
  Modes,          \* values of "direct" the configurations of this instance lead to
  Flaky,          \* whether calls to a provider may fail
  ClientTimeout   \* 20 s, http.Client{Timeout: 20 * time.Second} in NewRouter

VARIABLES
  pc, req,  \* label and local variables of each request
  direct,   \* Netease itself (DirectClient), or a compatible upstream
  offered,  \* cookie -> the media a provider would give it
  answers   \* answers to play-url requests so far

vars == <<entries, issued, answer, now, pc, req, direct, offered, answers>>

\* Fixed when the server starts.
world == <<direct, offered>>

FallBacks == <<"exhigh", "higher", "standard">>
SongUrl == "song_url"
BiliMedia == <<"dash", "dash_backup", "durl">>

ASSUME PlaybackAssumption ==
  /\ Providers \subseteq {"netease", "bilibili"}
  /\ ToSet(FallBacks) \subseteq Levels
  /\ Media = Levels \cup {SongUrl} \cup ToSet(BiliMedia)
  /\ Modes \subseteq BOOLEAN /\ Flaky \in BOOLEAN
  /\ ClientTimeout \in Nat
  /\ None \notin Tokens /\ None \notin Media

NoReq == [cookie |-> None, level |-> None, todo |-> <<>>, token |-> None,
          entry |-> None, started |-> 0, failed |-> {}, provider |-> None, sent |-> None]

PlaybackTypeOK ==
  /\ StreamTypeOK
  /\ \A h \in Handlers :
       /\ pc[h] \in {"idle", "try_level", "last_try", "bili_view", "bili_play",
                     "get_stream", "open_upstream", "relay"}
       /\ pc[h] \in {"try_level", "last_try", "bili_view", "bili_play"} => req[h].cookie \in Cookies
       /\ pc[h] = "last_try" => req[h].todo = <<>>
       /\ pc[h] = "get_stream" =>
            req[h].token \in Tokens /\ req[h].provider \in {"netease", "bilibili"}
       /\ pc[h] \in {"open_upstream", "relay"} =>
            req[h].entry \in Entry /\ req[h].sent \in Cookies \cup {None}

Init ==
  /\ StreamInit
  /\ pc = [h \in Handlers |-> "idle"] /\ req = [h \in Handlers |-> NoReq]
  /\ direct \in Modes /\ offered \in [Cookies -> SUBSET Media]
  /\ answers = {}

Begin(h, label, r) ==
  /\ pc[h] = "idle"
  /\ pc' = [pc EXCEPT ![h] = label]
  /\ req' = [req EXCEPT ![h] = r]

Goto(h, label) == pc' = [pc EXCEPT ![h] = label]

Reply(h) == Goto(h, "idle") /\ req' = [req EXCEPT ![h] = NoReq]

-----------------------------------------------------------------------------
(* Paths *)

ApiBase == <<"api", "v1">>
StreamPath(provider) == <<"music-sources", provider, "stream">>

\* The path in an answer: of Netease relative to the API base, of Bilibili not.
StreamURL(provider, token) ==
  (IF provider = "netease" THEN <<>> ELSE ApiBase) \o StreamPath(provider) \o <<token>>

\* The mux gives what is below the path of a stream handler to that handler, which
\* takes the rest of the path as the token.
Served(path, provider, token) == path = ApiBase \o StreamPath(provider) \o <<token>>

-----------------------------------------------------------------------------
(* neteasePlayURL *)

\* Bound: one answer per token of the instance, those in the making included.
TokensLeft ==
  Cardinality(answers)
    + Cardinality({h \in Handlers :
                     pc[h] \in {"try_level", "last_try", "bili_view", "bili_play"}})
    < Cardinality(Tokens)

\* Mutant: the levels below the one asked for come first.
LevelsFromTheBottom(level) == Reverse(FallBacks) \o (IF level = None THEN <<>> ELSE <<level>>)

\* The compatible mode skips a level it has seen; the direct mode does not.
LevelsToTry(level) ==
  IF level = None THEN FallBacks
  ELSE <<level>> \o
         (IF direct \/ level \notin ToSet(FallBacks) THEN FallBacks
          ELSE RemoveAt(FallBacks, CHOOSE i \in DOMAIN FallBacks : FallBacks[i] = level))

NeteasePlayURL(h) ==
  /\ "netease" \in Providers /\ TokensLeft
  /\ \E cookie \in Cookies, level \in Levels \cup {None} :
       Begin(h, "try_level", [NoReq EXCEPT !.cookie = cookie, !.level = level,
                                           !.todo = LevelsToTry(level)])
  /\ UNCHANGED <<streamVars, world, answers>>

\* failed is what calls that failed would have brought.
Answer(h, provider, status, media, token, failed) ==
  answers' = answers \cup
    {[provider |-> provider, status |-> status, level |-> req[h].level,
      cookie |-> req[h].cookie, media |-> media, token |-> token, failed |-> failed,
      until |-> IF token = None THEN 0 ELSE now + TTL,
      url |-> IF token = None THEN <<>> ELSE StreamURL(provider, token)]}

\* createStreamResponse and its two counterparts in bilibiliPlayURL.
CreateStreamResponse(h, provider, media) ==
  \E token \in Tokens \ issued :
    /\ Create(token, media, req[h].cookie)
    /\ Answer(h, provider, 200, media, token, req[h].failed)
    /\ Reply(h)

\* providerError, after a call that failed or brought nothing.
Unavailable(h, provider, failed) ==
  /\ Answer(h, provider, 503, None, None, req[h].failed \cup failed)
  /\ Reply(h)
  /\ UNCHANGED streamVars

\* The call for the first level of todo brings its URL.
Serves(h) ==
  /\ Head(req[h].todo) \in offered[req[h].cookie]
  /\ CreateStreamResponse(h, "netease", Head(req[h].todo))

\* Mutant: a level that fails is tried again.
TryLevelAgain(h) ==
  /\ pc[h] = "try_level"
  /\ req[h].todo # <<>>
  /\ \/ Serves(h)
     \/ /\ Flaky \/ Head(req[h].todo) \notin offered[req[h].cookie]
        /\ Goto(h, "try_level")
        /\ UNCHANGED <<streamVars, req, answers>>
  /\ UNCHANGED world

\* One call per level, the next one when it fails or has no URL; when the levels
\* are used up there is one more try.
TryLevel(h) ==
  /\ pc[h] = "try_level"
  /\ req[h].todo # <<>>
  /\ \/ Serves(h)
     \/ /\ Flaky \/ Head(req[h].todo) \notin offered[req[h].cookie]
        /\ req' = [req EXCEPT ![h].todo = Tail(@),
                              ![h].failed = @ \cup ({Head(req[h].todo)} \cap offered[req[h].cookie])]
        /\ Goto(h, IF Tail(req[h].todo) = <<>> THEN "last_try" ELSE "try_level")
        /\ UNCHANGED <<streamVars, answers>>
  /\ UNCHANGED world

\* The compatible mode ends with /song/url, which takes no level.
LastTry(h) ==
  /\ pc[h] = "last_try"
  /\ \/ /\ ~direct /\ SongUrl \in offered[req[h].cookie]
        /\ CreateStreamResponse(h, "netease", SongUrl)
     \/ /\ direct \/ Flaky \/ SongUrl \notin offered[req[h].cookie]
        /\ Unavailable(h, "netease", {SongUrl} \cap offered[req[h].cookie])
  /\ UNCHANGED world

-----------------------------------------------------------------------------
(* bilibiliPlayURL *)

\* Without a cid in the request there is a call to look it up.
BilibiliPlayURL(h) ==
  /\ "bilibili" \in Providers /\ TokensLeft
  /\ \E cookie \in Cookies, label \in {"bili_view", "bili_play"} :
       Begin(h, label, [NoReq EXCEPT !.cookie = cookie])
  /\ UNCHANGED <<streamVars, world, answers>>

BiliView(h) ==
  /\ pc[h] = "bili_view"
  /\ \/ /\ Goto(h, "bili_play")
        /\ UNCHANGED <<streamVars, req, answers>>
     \/ Flaky /\ Unavailable(h, "bilibili", ToSet(BiliMedia))
  /\ UNCHANGED world

\* The first audio track by its base or else its backup URL, or else durl; when
\* there is none the handler returns without writing, which is an empty 200.
BiliPlay(h) ==
  /\ pc[h] = "bili_play"
  /\ LET given == {i \in DOMAIN BiliMedia : BiliMedia[i] \in offered[req[h].cookie]} IN
     \/ \E i \in given :
          /\ \A j \in given : i <= j
          /\ CreateStreamResponse(h, "bilibili", BiliMedia[i])
     \/ /\ given = {}
        /\ Answer(h, "bilibili", 200, None, None, {})
        /\ Reply(h)
        /\ UNCHANGED streamVars
     \/ Flaky /\ Unavailable(h, "bilibili", ToSet(BiliMedia))
  /\ UNCHANGED world

-----------------------------------------------------------------------------
(* neteaseStream and bilibiliStream: either takes any token in its path *)

StreamRequest(h, provider) ==
  /\ \E token \in Tokens :
       Begin(h, "get_stream", [NoReq EXCEPT !.token = token, !.provider = provider])
  /\ UNCHANGED <<streamVars, world, answers>>

NeteaseStream(h) == StreamRequest(h, "netease")
BilibiliStream(h) == StreamRequest(h, "bilibili")

\* Mutant: both handlers send what the entry has.
CookieAlways(provider, cookie) == cookie

\* The Cookie header of the request for the media: bilibiliStream sets none.
CookieHeader(provider, cookie) == IF provider = "netease" THEN cookie ELSE None

\* Mutant: the handler goes on whatever Get said.
GetStreamUnchecked(h) ==
  /\ pc[h] = "get_stream"
  /\ Get(req[h].token)
  /\ Goto(h, "open_upstream")
  /\ req' = [req EXCEPT ![h].entry = answer'.entry, ![h].started = now,
                         ![h].sent = None]
  /\ UNCHANGED <<world, answers>>

\* 404 "stream has expired"; or the request for the media is built and client.Do, whose
\* timeout runs from here, sends it.
GetStream(h) ==
  /\ pc[h] = "get_stream"
  /\ Get(req[h].token)
  /\ \/ /\ answer'.entry # None
        /\ Goto(h, "open_upstream")
        /\ req' = [req EXCEPT ![h].entry = answer'.entry, ![h].started = now,
                               ![h].sent = CookieHeader(req[h].provider, answer'.entry.cookie)]
     \/ /\ answer'.entry = None
        /\ Reply(h)
  /\ UNCHANGED <<world, answers>>

InTime(h) == now <= req[h].started + ClientTimeout

OpenUpstream(h) ==
  /\ pc[h] = "open_upstream"
  /\ \/ /\ InTime(h)
        /\ Goto(h, "relay")
        /\ UNCHANGED req
     \/ Flaky /\ Reply(h)
     \/ now >= req[h].started + ClientTimeout /\ Reply(h)
  /\ UNCHANGED <<streamVars, world, answers>>

\* io.Copy ends: with the body, with a failure of either side, or because the
\* timeout of the client, which covers the body too, is over.
Relay(h) ==
  /\ pc[h] = "relay"
  /\ Reply(h)
  /\ UNCHANGED <<streamVars, world, answers>>

-----------------------------------------------------------------------------

Arrive(h) ==
  NeteasePlayURL(h) \/ BilibiliPlayURL(h) \/ NeteaseStream(h) \/ BilibiliStream(h)

Work(h) ==
  \/ TryLevel(h) \/ LastTry(h) \/ BiliView(h) \/ BiliPlay(h)
  \/ GetStream(h) \/ OpenUpstream(h) \/ Relay(h)

TimePasses == StreamTick /\ UNCHANGED <<pc, req, world, answers>>

Next == TimePasses \/ \E h \in Handlers : Arrive(h) \/ Work(h)

Spec == Init /\ [][Next]_vars

\* The runtime schedules every request, and a call to a provider ends, if only by
\* the timeout of its client. A relay also waits for its listener, without a limit.
Listening(h) == pc[h] = "relay"

FairSpec == Spec /\ \A h \in Handlers : WF_vars(~Listening(h) /\ Work(h))

-----------------------------------------------------------------------------
(* Properties *)

\* What a provider's media are to be fetched with for the request behind an answer.
OwnCookie(provider, a) == IF provider = "bilibili" THEN None ELSE a.cookie

\* GET of a path gets the media of an answer: from Netease with the cookie of the request
\* that was answered, from Bilibili without one.
Plays(path, a) ==
  \E token \in Tokens :
    /\ Served(path, a.provider, token)
    /\ Good(token)
    /\ entries[token].url = a.media
    /\ CookieHeader(a.provider, entries[token].cookie) = OwnCookie(a.provider, a)

Playing(provider) == {a \in answers : a.provider = provider /\ a.token # None /\ now <= a.until}

\* The URL a client gets for a Netease song plays that song for its 15 minutes when the
\* client puts the API base in front, whatever others create and fetch meanwhile.
\* (createStreamResponse, neteaseStream, stream.Store)
NeteaseUrlPlays == \A a \in Playing("netease") : Plays(ApiBase \o a.url, a)

\* The URL for a Bilibili video does the same when the client takes it as it is, and needs
\* no cookie for it. (bilibiliPlayURL, bilibiliStream, stream.Store)
BilibiliUrlPlays == \A a \in Playing("bilibili") : Plays(a.url, a)

\* The media in the order in which a request would rather have them.
Preference(provider, level) ==
  IF provider = "bilibili" THEN BiliMedia
  ELSE (IF level = None THEN <<>> ELSE <<level>>) \o FallBacks
       \o (IF direct THEN <<>> ELSE <<SongUrl>>)

\* The provider does not have m for the account of a, or a's calls for it failed.
Missed(m, a) == m \in offered[a.cookie] => m \in a.failed

\* A request gets the first of them that the provider has for its own account and whose
\* calls did not all fail, and none only if there is none. (neteasePlayURL, bilibiliPlayURL)
ServesTheBest ==
  \A a \in answers :
    LET wanted == Preference(a.provider, a.level) IN
    IF a.media = None THEN \A i \in DOMAIN wanted : Missed(wanted[i], a)
    ELSE \E i \in DOMAIN wanted :
           /\ wanted[i] = a.media /\ a.media \in offered[a.cookie]
           /\ \A j \in 1..i-1 : Missed(wanted[j], a)

\* A stream handler asks within the lifetime of the token for the media the token was made
\* for, and sends the cookie of the request it was made for, if it is Netease's handler, or
\* no cookie, if it is Bilibili's: whichever provider the token is of.
\* (stream.Store, neteaseStream, bilibiliStream)
RelaysItsToken ==
  \A h \in Handlers : pc[h] \in {"open_upstream", "relay"} =>
    \E a \in answers : /\ a.token = req[h].token
                      /\ a.media = req[h].entry.url
                      /\ req[h].sent = OwnCookie(req[h].provider, a)
                      /\ a.media \in offered[a.cookie]
                      /\ req[h].started <= a.until

\* Every request for a URL is answered, and every request for a stream is refused or
\* becomes a relay, whatever calls fail. (neteasePlayURL, bilibiliPlayURL, neteaseStream, bilibiliStream)
PlaybackAnswered ==
  \A h \in Handlers : pc[h] # "idle" ~> (pc[h] = "idle" \/ Listening(h))
=============================================================================
