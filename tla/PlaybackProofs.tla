--------------------------- MODULE PlaybackProofs ---------------------------
(***************************************************************************)
(* The handlers use the token store as any caller may, so what it promises *)
(* of leases holds of playback; and the URL they answer for a song plays   *)
(* it for as long as they say.  The second needs an invariant that ties    *)
(* each answer to the entry behind it: nothing overwrites the entry of a   *)
(* token that was handed out, and no cleaning takes it before its time.    *)
(* Last, which media an answer is for: what a request has still to ask for *)
(* and what it asked for in vain make up its order of preference.          *)
(***************************************************************************)
EXTENDS Playback, StreamStoreProofs, SequenceTheorems

PlayLabels == {"try_level", "last_try", "bili_view", "bili_play"}
Routes == {"netease", "bilibili"}

\* r has the fields of a request's local variables.
IsReq(r) ==
  r \in [cookie : {r.cookie}, level : {r.level}, todo : {r.todo}, token : {r.token},
         entry : {r.entry}, started : {r.started}, failed : {r.failed},
         provider : {r.provider}, sent : {r.sent}]

LocalInv ==
  /\ offered \in [Cookies -> SUBSET Media]
  /\ DOMAIN pc = Handlers /\ pc = [h \in Handlers |-> pc[h]]
  /\ DOMAIN req = Handlers /\ req = [h \in Handlers |-> req[h]]
  /\ \A h \in Handlers :
       /\ IsReq(req[h])
       /\ pc[h] \in PlayLabels => req[h].cookie \in Cookies
       /\ pc[h] = "get_stream" => req[h].token \in Tokens /\ req[h].provider \in Routes

PlayInv == StreamTypeOK /\ LocalInv

-----------------------------------------------------------------------------

LEMMA AnyReq ==
  ASSUME NEW a, NEW b, NEW c, NEW d, NEW e, NEW f, NEW g,
         NEW p, NEW s,
         NEW r \in [cookie : {a}, level : {b}, todo : {c}, token : {d}, entry : {e}, started : {f},
                    failed : {g}, provider : {p}, sent : {s}]
  PROVE  IsReq(r) /\ r.cookie = a /\ r.token = d
  BY DEF IsReq

\* What a request for a stream is after a Get that found its entry.
LEMMA StreamOpens ==
  ASSUME LocalInv, NEW h \in Handlers,
         req' = [req EXCEPT ![h].entry = answer'.entry, ![h].started = now,
                            ![h].sent = CookieHeader(req[h].provider, answer'.entry.cookie)]
  PROVE  \E r : /\ IsReq(r) /\ req' = [req EXCEPT ![h] = r]
                /\ r.token = req[h].token /\ r.provider = req[h].provider
                /\ r.entry = answer'.entry /\ r.started = now
                /\ r.sent = CookieHeader(r.provider, r.entry.cookie)
<1>1. PICK entry, started, sent :
        /\ entry = answer'.entry /\ started = now
        /\ sent = CookieHeader(req[h].provider, entry.cookie)
  OBVIOUS
<1>0. PICK old : old = req[h] /\ IsReq(old)
  BY DEF LocalInv
<1>2. PICK r : r = [old EXCEPT !.entry = entry, !.started = started, !.sent = sent]
  OBVIOUS
<1>3. req' = [req EXCEPT ![h] = r]
  BY <1>0, <1>1, <1>2 DEF LocalInv
<1>4. /\ IsReq(r) /\ r.token = old.token /\ r.provider = old.provider
      /\ r.entry = entry /\ r.started = started /\ r.sent = sent
  <2>1. r \in [cookie : {old.cookie}, level : {old.level}, todo : {old.todo},
               token : {old.token}, entry : {entry}, started : {started}, failed : {old.failed},
               provider : {old.provider}, sent : {sent}]
    BY <1>0, <1>2 DEF IsReq
  <2>2. IsReq(r)
    BY ONLY <2>1, AnyReq
  <2>3. /\ r.token = old.token /\ r.provider = old.provider
        /\ r.entry = entry /\ r.started = started /\ r.sent = sent
    BY ONLY <2>1
  <2>. QED BY <2>2, <2>3
<1>. QED BY <1>0, <1>1, <1>3, <1>4

LEMMA PlayReq ==
  ASSUME NEW cookie, NEW level, NEW todo, NEW r,
         r = [NoReq EXCEPT !.cookie = cookie, !.level = level, !.todo = todo]
  PROVE  IsReq(r) /\ r.cookie = cookie
<1>1. r \in
        [cookie : {cookie}, level : {level}, todo : {todo}, token : {None},
         entry : {None}, started : {0}, failed : {{}},
         provider : {None}, sent : {None}]
  BY DEF NoReq
<1>. QED BY ONLY <1>1, AnyReq

LEMMA BiliReq ==
  ASSUME NEW cookie, NEW r, r = [NoReq EXCEPT !.cookie = cookie]
  PROVE  IsReq(r) /\ r.cookie = cookie
  BY DEF IsReq, NoReq

LEMMA LocalStep ==
  ASSUME LocalInv, UNCHANGED offered, NEW h \in Handlers, NEW label, NEW r,
         pc' = [pc EXCEPT ![h] = label], req' = [req EXCEPT ![h] = r], IsReq(r),
         label \in PlayLabels => r.cookie \in Cookies,
         label = "get_stream" => r.token \in Tokens /\ r.provider \in Routes
  PROVE  LocalInv'
<1>1. ASSUME NEW g \in Handlers
      PROVE  pc'[g] = (IF g = h THEN label ELSE pc[g]) /\ req'[g] = (IF g = h THEN r ELSE req[g])
  BY DEF LocalInv
<1>2. /\ DOMAIN pc' = Handlers /\ pc' = [g \in Handlers |-> pc'[g]]
      /\ DOMAIN req' = Handlers /\ req' = [g \in Handlers |-> req'[g]]
  BY DEF LocalInv
<1>3. ASSUME NEW g \in Handlers
      PROVE  /\ IsReq(req'[g])
             /\ pc'[g] \in PlayLabels => req'[g].cookie \in Cookies
             /\ pc'[g] = "get_stream" => req'[g].token \in Tokens /\ req'[g].provider \in Routes
  <2>1. CASE g = h
    BY <1>1, <2>1
  <2>2. CASE g # h
    BY <1>1, <2>2 DEF LocalInv
  <2>. QED BY <2>1, <2>2
<1>. QED BY <1>2, <1>3 DEF LocalInv, IsReq

LEMMA BeginStep ==
  ASSUME LocalInv, UNCHANGED offered, NEW h \in Handlers, NEW label, NEW r,
         Begin(h, label, r), IsReq(r),
         label \in PlayLabels => r.cookie \in Cookies,
         label = "get_stream" => r.token \in Tokens /\ r.provider \in Routes
  PROVE  LocalInv'
  BY LocalStep DEF Begin

LEMMA ReplyStep ==
  ASSUME LocalInv, UNCHANGED offered, NEW h \in Handlers, Reply(h)
  PROVE  LocalInv'
<1>1. IsReq(NoReq)
  BY DEF IsReq, NoReq
<1>. QED BY <1>1, LocalStep DEF Reply, Goto, PlayLabels

LEMMA GotoStep ==
  ASSUME LocalInv, UNCHANGED <<offered, req>>, NEW h \in Handlers, NEW label, Goto(h, label),
         label \in PlayLabels => pc[h] \in PlayLabels, label # "get_stream"
  PROVE  LocalInv'
<1>1. req' = [req EXCEPT ![h] = req[h]]
  BY DEF LocalInv
<1>. QED BY <1>1, LocalStep DEF Goto, LocalInv

-----------------------------------------------------------------------------

\* The three ways the handlers touch the store.
LEMMA ResponseCreates ==
  ASSUME PlayInv, UNCHANGED offered, NEW h \in Handlers, pc[h] \in PlayLabels, NEW provider,
         NEW media \in offered[req[h].cookie], CreateStreamResponse(h, provider, media)
  PROVE  StreamNext /\ LocalInv'
<1>1. req[h].cookie \in Cookies /\ media \in Media
  BY DEF PlayInv, LocalInv
<1>2. LocalInv'
  BY ReplyStep DEF PlayInv, CreateStreamResponse
<1>. QED BY <1>1, <1>2 DEF CreateStreamResponse, StreamNext

LEMMA UnavailableKeeps ==
  ASSUME PlayInv, UNCHANGED offered, NEW h \in Handlers, NEW provider, NEW failed,
         Unavailable(h, provider, failed)
  PROVE  UNCHANGED streamVars /\ LocalInv'
  BY ReplyStep DEF PlayInv, Unavailable

LEMMA WorkStep ==
  ASSUME PlayInv, NEW h \in Handlers, Work(h)
  PROVE  [StreamNext]_streamVars /\ LocalInv'
<1>0. LocalInv /\ \A g \in Handlers : IsReq(req[g])
  BY DEF PlayInv, LocalInv
<1>1. CASE TryLevel(h)
  <2>1. CASE CreateStreamResponse(h, "netease", Head(req[h].todo))
             /\ Head(req[h].todo) \in offered[req[h].cookie]
    BY <1>1, <2>1, ResponseCreates DEF world, TryLevel, PlayLabels
  <2>2. ASSUME UNCHANGED streamVars, NEW label \in {"last_try", "try_level"}, Goto(h, label),
               req' = [req EXCEPT ![h].todo = Tail(@),
                                  ![h].failed = @ \cup ({Head(req[h].todo)} \cap offered[req[h].cookie])]
        PROVE  LocalInv'
    <3>1. PICK todo, failed : /\ todo = Tail(req[h].todo)
                              /\ failed = req[h].failed \cup ({Head(req[h].todo)} \cap offered[req[h].cookie])
      OBVIOUS
    <3>2. PICK r : r = [req[h] EXCEPT !.todo = todo, !.failed = failed]
      OBVIOUS
    <3>3. IsReq(r) /\ r.cookie = req[h].cookie /\ req' = [req EXCEPT ![h] = r]
      <4>0. IsReq(req[h])
        BY <1>0
      <4>1. IsReq(r) /\ r.cookie = req[h].cookie
        <5>1. r \in [cookie : {req[h].cookie}, level : {req[h].level}, todo : {todo},
                     token : {req[h].token}, entry : {req[h].entry},
                     started : {req[h].started}, failed : {failed},
                     provider : {req[h].provider}, sent : {req[h].sent}]
          BY <3>2, <4>0 DEF IsReq
        <5>. QED BY ONLY <5>1, AnyReq
      <4>2. req' = [req EXCEPT ![h] = r]
        BY <2>2, <3>1, <3>2
      <4>. QED BY <4>1, <4>2
    <3>4. req[h].cookie \in Cookies
      BY <1>0, <1>1 DEF world, TryLevel, LocalInv, PlayLabels
    <3>. QED BY <1>0, <1>1, <2>2, <3>3, <3>4, LocalStep DEF Goto, world, TryLevel, PlayLabels
  <2>. QED BY <1>1, <2>1, <2>2 DEF TryLevel, Serves
<1>2. CASE LastTry(h)
  BY <1>2, ResponseCreates, UnavailableKeeps DEF world, LastTry, PlayLabels
<1>3. CASE BiliView(h)
  <2>1. CASE Unavailable(h, "bilibili", ToSet(BiliMedia))
    BY <1>3, <2>1, UnavailableKeeps DEF world, BiliView
  <2>2. CASE Goto(h, "bili_play") /\ UNCHANGED <<streamVars, req, answers>>
    BY <1>0, <1>3, <2>2, GotoStep DEF world, BiliView, PlayLabels
  <2>. QED BY <1>3, <2>1, <2>2 DEF BiliView
<1>4. CASE BiliPlay(h)
  <2>1. CASE \E i \in DOMAIN BiliMedia : /\ BiliMedia[i] \in offered[req[h].cookie]
                                          /\ CreateStreamResponse(h, "bilibili", BiliMedia[i])
    BY <1>4, <2>1, ResponseCreates DEF world, BiliPlay, PlayLabels
  <2>2. CASE Reply(h) /\ UNCHANGED streamVars
    BY <1>0, <1>4, <2>2, ReplyStep DEF world, BiliPlay
  <2>3. CASE Unavailable(h, "bilibili", ToSet(BiliMedia))
    BY <1>4, <2>3, UnavailableKeeps DEF world, BiliPlay
  <2>. QED BY <1>4, <2>1, <2>2, <2>3 DEF BiliPlay
<1>5. CASE GetStream(h)
  <2>1. req[h].token \in Tokens
    BY <1>0, <1>5 DEF world, GetStream, LocalInv
  <2>2. StreamNext
    BY <1>5, <2>1 DEF world, GetStream, StreamNext
  <2>3. CASE Reply(h)
    BY <1>0, <1>5, <2>2, <2>3, ReplyStep DEF world, GetStream
  <2>4. CASE Goto(h, "open_upstream")
             /\ req' = [req EXCEPT ![h].entry = answer'.entry, ![h].started = now,
                  ![h].sent = CookieHeader(req[h].provider, answer'.entry.cookie)]
    <3>1. PICK r : IsReq(r) /\ req' = [req EXCEPT ![h] = r]
      BY <1>0, <2>4, StreamOpens
    <3>. QED BY <1>0, <1>5, <2>2, <2>4, <3>1, LocalStep DEF Goto, world, GetStream, PlayLabels
  <2>. QED BY <1>5, <2>3, <2>4 DEF GetStream
<1>6. CASE OpenUpstream(h)
  <2>1. CASE Reply(h)
    BY <1>0, <1>6, <2>1, ReplyStep DEF world, OpenUpstream
  <2>2. CASE Goto(h, "relay") /\ UNCHANGED req
    BY <1>0, <1>6, <2>2, GotoStep DEF world, OpenUpstream, PlayLabels
  <2>. QED BY <1>6, <2>1, <2>2 DEF OpenUpstream
<1>7. CASE Relay(h)
  BY <1>0, <1>7, ReplyStep DEF world, Relay
<1>. QED BY <1>1, <1>2, <1>3, <1>4, <1>5, <1>6, <1>7 DEF Work

LEMMA ArriveStep ==
  ASSUME PlayInv, NEW h \in Handlers, Arrive(h)
  PROVE  UNCHANGED <<streamVars, answers>> /\ LocalInv'
<1>0. LocalInv
  BY DEF PlayInv
<1>2. CASE NeteasePlayURL(h)
  <2>1. PICK cookie \in Cookies, level \in Levels \cup {None} :
          Begin(h, "try_level", [NoReq EXCEPT !.cookie = cookie, !.level = level,
                                              !.todo = LevelsToTry(level)])
    BY <1>2 DEF world, NeteasePlayURL
  <2>2. PICK r : r = [NoReq EXCEPT !.cookie = cookie, !.level = level,
                                   !.todo = LevelsToTry(level)]
    OBVIOUS
  <2>3. IsReq(r) /\ r.cookie \in Cookies
    BY <2>2, PlayReq
  <2>4. Begin(h, "try_level", r)
    BY <2>1, <2>2
  <2>. QED BY <1>0, <1>2, <2>3, <2>4, BeginStep DEF world, NeteasePlayURL
<1>3. CASE BilibiliPlayURL(h)
  <2>1. PICK cookie \in Cookies, label \in {"bili_view", "bili_play"} :
          Begin(h, label, [NoReq EXCEPT !.cookie = cookie])
    BY <1>3 DEF world, BilibiliPlayURL
  <2>2. PICK r : r = [NoReq EXCEPT !.cookie = cookie]
    OBVIOUS
  <2>3. IsReq(r) /\ r.cookie \in Cookies /\ Begin(h, label, r)
    BY <2>1, <2>2, BiliReq
  <2>. QED BY <1>0, <1>3, <2>3, BeginStep DEF world, BilibiliPlayURL
<1>4. ASSUME NEW provider \in Routes, StreamRequest(h, provider)
      PROVE  UNCHANGED <<streamVars, answers>> /\ LocalInv'
  <2>1. PICK token \in Tokens :
          Begin(h, "get_stream", [NoReq EXCEPT !.token = token, !.provider = provider])
    BY <1>4 DEF world, StreamRequest
  <2>2. PICK r : r = [NoReq EXCEPT !.token = token, !.provider = provider]
    OBVIOUS
  <2>3. Begin(h, "get_stream", r)
    BY <2>1, <2>2
  <2>4. IsReq(r) /\ r.token = token /\ r.provider = provider
    <3>1. r \in [cookie : {None}, level : {None}, todo : {<<>>}, token : {token}, entry : {None},
                 started : {0}, failed : {{}}, provider : {provider}, sent : {None}]
      BY <2>2 DEF NoReq
    <3>2. IsReq(r)
      BY ONLY <3>1, AnyReq
    <3>3. r.token = token /\ r.provider = provider
      BY ONLY <3>1
    <3>. QED BY <3>2, <3>3
  <2>5. LocalInv'
    BY <1>0, <1>4, <2>3, <2>4, BeginStep DEF world, StreamRequest, PlayLabels
  <2>. QED BY <1>4, <2>5 DEF StreamRequest
<1>. QED BY <1>2, <1>3, <1>4 DEF Arrive, NeteaseStream, BilibiliStream, Routes

LEMMA PlaybackStep ==
  ASSUME PlayInv, [Next]_vars
  PROVE  [StreamNext]_streamVars /\ PlayInv'
<1>1. [StreamNext]_streamVars /\ LocalInv'
  <2>1. ASSUME NEW h \in Handlers, Arrive(h) PROVE [StreamNext]_streamVars /\ LocalInv'
    BY <2>1, ArriveStep
  <2>2. ASSUME NEW h \in Handlers, Work(h) PROVE [StreamNext]_streamVars /\ LocalInv'
    BY <2>2, WorkStep
  <2>3. CASE TimePasses \/ UNCHANGED vars
    BY <2>3 DEF world, TimePasses, vars, StreamNext, streamVars, PlayInv, LocalInv
  <2>. QED BY <2>1, <2>2, <2>3 DEF Next
<1>. QED BY <1>1, StreamTypeStep DEF PlayInv

LEMMA PlaybackInit == Init => PlayInv
<1>1. IsReq(NoReq)
  BY DEF IsReq, NoReq
<1>2. StreamInit => StreamTypeOK
  BY StreamAssumption DEF StreamInit, StreamTypeOK
<1>. QED BY <1>1, <1>2 DEF Init, PlayInv, LocalInv, PlayLabels

\* Playback implements the leases: whatever the handlers of both providers do, a token
\* yields its entry until its time is up and nothing later.
\* (handlers_netease_bilibili.go on internal/stream)
THEOREM PlaybackImplementsLease == Spec => LeaseSpec
<1>1. Init => StreamInit
  BY DEF Init
<1>2. Spec => StreamSpec
  BY <1>1, PlaybackInit, PlaybackStep, PTL DEF Spec, StreamSpec
<1>. QED BY <1>2, StoreImplementsLease

-----------------------------------------------------------------------------

\* The entry behind an answer whose time is not up is the one made for it.
Backed(a) ==
  /\ a.token \in Tokens /\ a.token \in issued /\ a.until \in Nat
  /\ a.media \in Media /\ a.cookie \in Cookies
  /\ a.url = StreamURL(a.provider, a.token)
  /\ now <= a.until =>
       entries[a.token] = [url |-> a.media, cookie |-> a.cookie, expires |-> a.until]

AnswersInv == \A a \in answers : a.token # None => Backed(a)

LEMMA BackedKept ==
  ASSUME PlayInv, NEW a, Backed(a),
         \/ \E t \in Tokens : Get(t)
         \/ \E t \in Tokens \ issued : \E media, cookie : Create(t, media, cookie)
         \/ StreamTick \/ UNCHANGED streamVars
  PROVE  Backed(a)'
<1>0. StreamTypeOK /\ now \in Nat /\ a.until \in Nat /\ a.token \in Tokens
  BY StreamAssumption DEF PlayInv, StreamTypeOK, Backed
<1>1. a.token \in Held /\ now <= a.until =>
        entries[a.token].expires = a.until /\ ~Expired(a.token, now) /\ Good(a.token)
  BY <1>0 DEF Backed, Good, Expired
<1>2. now <= a.until => a.token \in Held
  <2>1. [url |-> a.media, cookie |-> a.cookie, expires |-> a.until] # None
    BY StreamAssumption DEF Backed, Entry
  <2>. QED BY <2>1 DEF Backed, Held
<1>3. ASSUME NEW t \in Tokens, Get(t) PROVE Backed(a)'
  <2>1. now' = now /\ issued' = issued
    BY <1>3 DEF Get
  <2>2. now <= a.until => entries'[a.token] = entries[a.token]
    BY <1>0, <1>1, <1>2, <1>3 DEF Get, StreamTypeOK
  <2>. QED BY <2>1, <2>2 DEF Backed
<1>4. ASSUME NEW t \in Tokens \ issued, NEW media, NEW cookie, Create(t, media, cookie)
      PROVE  Backed(a)'
  <2>1. now' = now /\ issued' = issued \cup {t} /\ a.token # t
    BY <1>4 DEF Create, Backed
  <2>2. PICK first \in 0..now : entries'[a.token] = Kept(a.token, first)
    BY <1>0, <1>4, <2>1 DEF Create
  <2>3. now <= a.until => entries'[a.token] = entries[a.token]
    BY <1>0, <1>1, <1>2, <2>2 DEF Kept, Expired
  <2>. QED BY <2>1, <2>3 DEF Backed
<1>5. CASE StreamTick
  BY <1>0, <1>5 DEF StreamTick, Backed
<1>6. CASE UNCHANGED streamVars
  BY <1>6 DEF streamVars, Backed
<1>. QED BY <1>3, <1>4, <1>5, <1>6

LEMMA ResponseBacked ==
  ASSUME PlayInv, AnswersInv, NEW h \in Handlers, NEW provider \in {"netease", "bilibili"},
         pc[h] \in PlayLabels, NEW media \in offered[req[h].cookie],
         CreateStreamResponse(h, provider, media)
  PROVE  AnswersInv'
<1>0. req[h].cookie \in Cookies /\ media \in Media
  BY DEF PlayInv, LocalInv
<1>1. PICK t \in Tokens \ issued : Create(t, media, req[h].cookie) /\ Answer(h, provider, 200, media, t, req[h].failed)
  BY DEF CreateStreamResponse
<1>2. ASSUME NEW a \in answers, a.token # None PROVE Backed(a)'
  BY <1>1, <1>2, BackedKept DEF AnswersInv
<1>3. PICK new : /\ new \in [provider : {provider}, status : {200}, level : {req[h].level},
                             cookie : {req[h].cookie}, media : {media}, token : {t},
                             failed : {req[h].failed}, until : {IF t = None THEN 0 ELSE now + TTL},
                             url : {IF t = None THEN <<>> ELSE StreamURL(provider, t)}]
                 /\ answers' = answers \cup {new}
  BY <1>1 DEF Answer
<1>4. ASSUME new.token # None PROVE Backed(new)'
  <2>1. /\ new.provider = provider /\ new.cookie = req[h].cookie /\ new.media = media
        /\ new.token = t /\ new.until = now + TTL /\ new.url = StreamURL(provider, t)
    BY <1>3, <1>4
  <2>2. /\ entries'[t] = [url |-> media, cookie |-> req[h].cookie, expires |-> now + TTL]
        /\ t \in issued'
    BY <1>1 DEF Create
  <2>3. now + TTL \in Nat
    BY StreamAssumption DEF PlayInv, StreamTypeOK
  <2>. QED BY <1>0, <2>1, <2>2, <2>3 DEF Backed
<1>. QED BY <1>2, <1>3, <1>4 DEF AnswersInv

\* An answer that names no stream changes nothing.
LEMMA EmptyAnswerBacked ==
  ASSUME PlayInv, AnswersInv, NEW h \in Handlers, NEW provider, NEW status, NEW failed,
         Answer(h, provider, status, None, None, failed), UNCHANGED streamVars
  PROVE  AnswersInv'
<1>1. \A a \in answers' : a \in answers \/ a.token = None
  BY DEF Answer
<1>. QED BY <1>1, BackedKept DEF AnswersInv

LEMMA SameAnswersBacked ==
  ASSUME PlayInv, AnswersInv, UNCHANGED answers,
         (\E t \in Tokens : Get(t)) \/ StreamTick \/ UNCHANGED streamVars
  PROVE  AnswersInv'
  BY BackedKept DEF AnswersInv

LEMMA AnswersStep ==
  ASSUME PlayInv, AnswersInv, [Next]_vars
  PROVE  AnswersInv'
<1>1. ASSUME NEW h \in Handlers, Arrive(h) PROVE AnswersInv'
  BY <1>1, ArriveStep, SameAnswersBacked
<1>2. ASSUME NEW h \in Handlers, Work(h) PROVE AnswersInv'
  <2>1. CASE TryLevel(h)
    BY <2>1, ResponseBacked, SameAnswersBacked DEF world, TryLevel, Serves, PlayLabels
  <2>2. CASE LastTry(h)
    BY <2>2, ResponseBacked, EmptyAnswerBacked DEF world, LastTry, Unavailable, PlayLabels
  <2>3. CASE BiliView(h)
    BY <2>3, SameAnswersBacked, EmptyAnswerBacked DEF world, BiliView, Unavailable
  <2>4. CASE BiliPlay(h)
    BY <2>4, ResponseBacked, EmptyAnswerBacked DEF world, BiliPlay, Unavailable, PlayLabels
  <2>5. CASE GetStream(h)
    <3>1. req[h].token \in Tokens
      BY <2>5 DEF world, GetStream, PlayInv, LocalInv
    <3>. QED BY <2>5, <3>1, SameAnswersBacked DEF world, GetStream
  <2>6. CASE OpenUpstream(h) \/ Relay(h)
    BY <2>6, SameAnswersBacked DEF OpenUpstream, world, Relay
  <2>. QED BY <1>2, <2>1, <2>2, <2>3, <2>4, <2>5, <2>6 DEF Work
<1>3. CASE TimePasses \/ UNCHANGED vars
  BY <1>3, SameAnswersBacked DEF world, TimePasses, vars, streamVars
<1>. QED BY <1>1, <1>2, <1>3 DEF Next

LEMMA NeteasePath ==
  ASSUME NEW t
  PROVE  Served(ApiBase \o StreamURL("netease", t), "netease", t)
<1>1. <<>> \o StreamPath("netease") = StreamPath("netease")
  BY DEF StreamPath
<1>2. ApiBase \o (StreamPath("netease") \o <<t>>) = ApiBase \o StreamPath("netease") \o <<t>>
  BY DEF ApiBase, StreamPath
<1>. QED BY <1>1, <1>2 DEF Served, StreamURL

LEMMA BilibiliPath ==
  ASSUME NEW t
  PROVE  Served(StreamURL("bilibili", t), "bilibili", t)
  BY DEF Served, StreamURL

\* A request that leads to the token of an answer gets what the answer promised.
LEMMA TokenPlays ==
  ASSUME PlayInv, NEW a, Backed(a), now <= a.until, NEW path, Served(path, a.provider, a.token),
         a.provider \in Routes
  PROVE  Plays(path, a)
<1>1. entries[a.token] = [url |-> a.media, cookie |-> a.cookie, expires |-> a.until]
  BY DEF Backed
<1>2. a.token \in Held
  <2>1. [url |-> a.media, cookie |-> a.cookie, expires |-> a.until] # None
    BY StreamAssumption DEF Backed, Entry
  <2>. QED BY <1>1, <2>1 DEF Backed, Held
<1>3. Good(a.token)
  BY <1>1, <1>2, StreamAssumption DEF Good, Expired, Backed, PlayInv, StreamTypeOK
<1>4. a.provider \in Routes =>
        CookieHeader(a.provider, entries[a.token].cookie) = OwnCookie(a.provider, a)
  BY <1>1 DEF CookieHeader, OwnCookie, Routes
<1>. QED BY <1>1, <1>2, <1>3, <1>4 DEF Plays, Backed

LEMMA AnswersInvariant == Spec => [](PlayInv /\ AnswersInv)
<1>1. Init => AnswersInv
  BY DEF Init, AnswersInv
<1>. QED BY <1>1, PlaybackInit, PlaybackStep, AnswersStep, PTL DEF Spec

\* The URL answered for a Netease song plays that very medium, fetched with the cookie of
\* the request that asked, until its lifetime is over: for any number of requests of both
\* providers in any order. (createStreamResponse, neteaseStream, internal/stream)
THEOREM NeteaseUrlAlwaysPlays == Spec => []NeteaseUrlPlays
<1>1. PlayInv /\ AnswersInv => NeteaseUrlPlays
  BY NeteasePath, TokenPlays DEF Routes, NeteaseUrlPlays, Playing, AnswersInv, Backed
<1>. QED BY <1>1, AnswersInvariant, PTL

\* And the URL answered for a Bilibili video plays it when it is taken as it is; no cookie
\* goes with that one.
\* (bilibiliPlayURL, bilibiliStream, internal/stream)
THEOREM BilibiliUrlAlwaysPlays == Spec => []BilibiliUrlPlays
<1>1. PlayInv /\ AnswersInv => BilibiliUrlPlays
  BY BilibiliPath, TokenPlays DEF Routes, BilibiliUrlPlays, Playing, AnswersInv, Backed
<1>. QED BY <1>1, AnswersInvariant, PTL

\* However the handlers use the store, a token is only handed out by a step that leaves
\* no expired entry in the map. (removeExpiredLocked)
THEOREM HandOutAlwaysCleans == Spec => HandOutCleans
<1>1. ASSUME PlayInv, [StreamNext]_streamVars
      PROVE  [issued' # issued => \A t \in Held' : now <= entries'[t].expires + Pause]_streamVars
  <2>1. ASSUME NEW t \in Tokens, NEW url \in Media, NEW cookie \in Cookies, Create(t, url, cookie)
        PROVE  \A u \in Held' : now <= entries'[u].expires + Pause
    <3>. SUFFICES ASSUME NEW u \in Tokens, entries'[u] # None
                  PROVE  now <= entries'[u].expires + Pause
      BY DEF Held
    <3>0. now \in Nat /\ TTL \in Nat /\ Pause \in Nat
      BY <1>1, StreamAssumption DEF PlayInv, StreamTypeOK
    <3>1. CASE u = t
      <4>1. entries'[u] = [url |-> url, cookie |-> cookie, expires |-> now + TTL]
        BY <2>1, <3>1 DEF Create
      <4>. QED BY <3>0, <4>1
    <3>2. CASE u # t
      <4>0. PICK first \in 0..now : now <= first + Pause /\ entries'[u] = Kept(u, first)
        BY <2>1, <3>2 DEF Create
      <4>1. entries'[u] = entries[u] /\ u \in Held /\ ~Expired(u, first)
        BY <4>0, <3>2 DEF Kept, Held
      <4>2. entries[u].expires \in Nat
        BY <1>1, <4>1 DEF Held, PlayInv, StreamTypeOK, Entry
      <4>. QED BY <3>0, <4>0, <4>1, <4>2 DEF Expired
    <3>. QED BY <3>1, <3>2
  <2>. QED BY <1>1, <2>1 DEF StreamNext, Get, StreamTick, streamVars
<1>2. PlayInv /\ [Next]_vars =>
        PlayInv'
        /\ [issued' # issued => \A t \in Held' : now <= entries'[t].expires + Pause]_streamVars
  BY <1>1, PlaybackStep
<1>. QED BY <1>2, PlaybackInit, PTL DEF Spec, HandOutCleans

-----------------------------------------------------------------------------

\* Some answer names the token of r and is what r was opened for.
Sourced(r) ==
  \E a \in answers : /\ a.token = r.token
                     /\ a.media = r.entry.url
                     /\ r.sent = OwnCookie(r.provider, a)
                     /\ a.media \in offered[a.cookie]
                     /\ r.started <= a.until

\* Every entry in the map was made for an answer that names its token.
OriginInv ==
  \A t \in Held :
    \E a \in answers : /\ a.token = t
                       /\ a.media = entries[t].url /\ a.cookie = entries[t].cookie
                       /\ a.media \in offered[a.cookie]
                       /\ a.until = entries[t].expires

LEMMA OriginsKept ==
  ASSUME PlayInv, OriginInv, answers \subseteq answers', UNCHANGED offered,
         (\E t \in Tokens : Get(t)) \/ StreamTick \/ UNCHANGED streamVars
  PROVE  OriginInv'
<1>1. \A t \in Held' : t \in Held /\ entries'[t] = entries[t]
  BY DEF Held, Get, StreamTick, streamVars, PlayInv, StreamTypeOK
<1>. QED BY <1>1 DEF OriginInv

LEMMA ResponseOrigins ==
  ASSUME PlayInv, OriginInv, UNCHANGED offered, NEW h \in Handlers, NEW provider,
         NEW media \in offered[req[h].cookie], CreateStreamResponse(h, provider, media)
  PROVE  OriginInv' /\ answers \subseteq answers'
<1>1. PICK t \in Tokens \ issued : Create(t, media, req[h].cookie) /\ Answer(h, provider, 200, media, t, req[h].failed)
  BY DEF CreateStreamResponse
<1>2. PICK new : /\ new \in [provider : {provider}, status : {200}, level : {req[h].level},
                             cookie : {req[h].cookie}, media : {media}, token : {t},
                             failed : {req[h].failed}, until : {IF t = None THEN 0 ELSE now + TTL},
                             url : {IF t = None THEN <<>> ELSE StreamURL(provider, t)}]
                 /\ answers' = answers \cup {new}
  BY <1>1 DEF Answer
<1>3. /\ new.token = t /\ new.media = media /\ new.cookie = req[h].cookie
      /\ t # None => new.until = now + TTL
  BY <1>2
<1>4. entries'[t] = [url |-> media, cookie |-> req[h].cookie, expires |-> now + TTL]
  BY <1>1 DEF Create
<1>5. \A u \in Held' : u = t \/ (u \in Held /\ entries'[u] = entries[u])
  BY <1>1 DEF Create, Kept, Held
<1>6. ASSUME NEW u \in Held', u # t
      PROVE  \E a \in answers' : /\ a.token = u /\ a.media = entries'[u].url
                                 /\ a.cookie = entries'[u].cookie
                                 /\ a.media \in offered'[a.cookie]
                                 /\ a.until = entries'[u].expires
  BY <1>2, <1>5, <1>6 DEF OriginInv
<1>7. /\ new \in answers' /\ new.token = t /\ new.media = entries'[t].url
      /\ new.cookie = entries'[t].cookie /\ new.media \in offered'[new.cookie]
      /\ new.until = entries'[t].expires
  BY <1>2, <1>3, <1>4, PlaybackAssumption
<1>. QED BY <1>2, <1>6, <1>7 DEF OriginInv

LEMMA RelaysKept ==
  ASSUME PlayInv, RelaysItsToken, answers \subseteq answers', UNCHANGED offered,
         NEW h \in Handlers, NEW label, NEW r,
         pc' = [pc EXCEPT ![h] = label], req' = [req EXCEPT ![h] = r],
         label \in {"open_upstream", "relay"} => Sourced(r)
  PROVE  RelaysItsToken'
<1>1. \A g \in Handlers : pc[g] \in {"open_upstream", "relay"} => Sourced(req[g])
  BY DEF RelaysItsToken, Sourced
<1>2. \A g \in Handlers : g # h => pc'[g] = pc[g] /\ req'[g] = req[g]
  BY DEF PlayInv, LocalInv
<1>3. pc'[h] = label /\ req'[h] = r
  BY DEF PlayInv, LocalInv
<1>4. \A x : Sourced(x) => Sourced(x)'
  BY DEF Sourced
<1>5. \A g \in Handlers : pc'[g] \in {"open_upstream", "relay"} => Sourced(req'[g])
  BY <1>1, <1>2, <1>3
<1>6. \A g \in Handlers : pc'[g] \in {"open_upstream", "relay"} =>
        \E a \in answers' : /\ a.token = req'[g].token
                            /\ a.media = req'[g].entry.url
                            /\ req'[g].sent = OwnCookie(req'[g].provider, a)
                            /\ a.media \in offered'[a.cookie]
                            /\ req'[g].started <= a.until
  BY <1>5 DEF Sourced
<1>. QED BY <1>6 DEF RelaysItsToken

LEMMA RelaysReplied ==
  ASSUME PlayInv, RelaysItsToken, answers \subseteq answers', UNCHANGED offered,
         NEW h \in Handlers, Reply(h)
  PROVE  RelaysItsToken'
  BY RelaysKept DEF Reply, Goto

\* The two ways a play-url request ends.
LEMMA ResponseRelays ==
  ASSUME PlayInv, OriginInv, RelaysItsToken, UNCHANGED offered, NEW h \in Handlers,
         NEW provider, NEW media \in offered[req[h].cookie],
         CreateStreamResponse(h, provider, media)
  PROVE  OriginInv' /\ RelaysItsToken'
<1>1. OriginInv' /\ answers \subseteq answers' /\ Reply(h)
  BY ResponseOrigins DEF CreateStreamResponse
<1>. QED BY <1>1, RelaysReplied

LEMMA EmptyRelays ==
  ASSUME PlayInv, OriginInv, RelaysItsToken, UNCHANGED offered, NEW h \in Handlers,
         NEW provider, NEW status, NEW failed,
         Answer(h, provider, status, None, None, failed), UNCHANGED streamVars, Reply(h)
  PROVE  OriginInv' /\ RelaysItsToken'
<1>1. answers \subseteq answers'
  BY DEF Answer
<1>. QED BY <1>1, OriginsKept, RelaysReplied

LEMMA RelayStep ==
  ASSUME PlayInv, OriginInv, RelaysItsToken, [Next]_vars
  PROVE  OriginInv' /\ RelaysItsToken'
<1>1. ASSUME NEW h \in Handlers, Arrive(h) PROVE OriginInv' /\ RelaysItsToken'
  <2>1. UNCHANGED <<streamVars, answers, offered>>
    BY <1>1 DEF Arrive, NeteasePlayURL, BilibiliPlayURL, NeteaseStream, BilibiliStream,
                StreamRequest, world
  <2>2. \E label, r : /\ pc' = [pc EXCEPT ![h] = label] /\ req' = [req EXCEPT ![h] = r]
                      /\ label \notin {"open_upstream", "relay"}
    <3>1. CASE NeteasePlayURL(h)
      <4>1. \E r : Begin(h, "try_level", r)
        BY <3>1, Zenon DEF NeteasePlayURL
      <4>. QED BY <4>1 DEF Begin
    <3>2. CASE BilibiliPlayURL(h)
      BY <3>2 DEF BilibiliPlayURL, Begin
    <3>3. CASE NeteaseStream(h) \/ BilibiliStream(h)
      <4>1. \E r : Begin(h, "get_stream", r)
        BY <3>3 DEF NeteaseStream, BilibiliStream, StreamRequest
      <4>. QED BY <4>1 DEF Begin
    <3>. QED BY <1>1, <3>1, <3>2, <3>3 DEF Arrive
  <2>. QED BY <2>1, <2>2, OriginsKept, RelaysKept
<1>2. ASSUME NEW h \in Handlers, Work(h) PROVE OriginInv' /\ RelaysItsToken'
  <2>0. UNCHANGED offered
    BY <1>2 DEF Work, TryLevel, LastTry, BiliView, BiliPlay, GetStream, OpenUpstream, Relay,
                world
  <2>1. CASE TryLevel(h)
    <3>1. CASE Serves(h)
      BY <2>0, <3>1, ResponseRelays DEF Serves
    <3>2. CASE /\ UNCHANGED <<streamVars, answers>>
               /\ \E label \in {"last_try", "try_level"} : Goto(h, label)
               /\ \E r : req' = [req EXCEPT ![h] = r]
      BY <2>0, <3>2, OriginsKept, RelaysKept DEF Goto
    <3>3. ASSUME /\ req' = [req EXCEPT ![h].todo = Tail(@),
                                       ![h].failed = @ \cup ({Head(req[h].todo)} \cap offered[req[h].cookie])]
          PROVE  \E r : req' = [req EXCEPT ![h] = r]
      <4>1. PICK todo, failed : /\ todo = Tail(req[h].todo)
                                /\ failed = req[h].failed \cup ({Head(req[h].todo)} \cap offered[req[h].cookie])
        OBVIOUS
      <4>2. PICK r : r = [req[h] EXCEPT !.todo = todo, !.failed = failed]
        OBVIOUS
      <4>3. req' = [req EXCEPT ![h] = r]
        BY <3>3, <4>1, <4>2
      <4>. QED BY <4>3
    <3>. QED BY <2>1, <3>1, <3>2, <3>3 DEF TryLevel
  <2>2. CASE LastTry(h)
    BY <2>0, <2>2, ResponseRelays, EmptyRelays DEF LastTry, Unavailable
  <2>3. CASE BiliView(h)
    <3>1. CASE Unavailable(h, "bilibili", ToSet(BiliMedia))
      BY <2>0, <3>1, EmptyRelays DEF Unavailable
    <3>2. CASE Goto(h, "bili_play") /\ UNCHANGED <<streamVars, req, answers>>
      <4>1. req' = [req EXCEPT ![h] = req[h]]
        BY <3>2 DEF PlayInv, LocalInv
      <4>. QED BY <2>0, <3>2, <4>1, OriginsKept, RelaysKept DEF Goto
    <3>. QED BY <2>3, <3>1, <3>2 DEF BiliView
  <2>4. CASE BiliPlay(h)
    BY <2>0, <2>4, ResponseRelays, EmptyRelays DEF BiliPlay, Unavailable
  <2>5. CASE GetStream(h)
    <3>0. req[h].token \in Tokens /\ Get(req[h].token) /\ UNCHANGED answers
      BY <2>5 DEF GetStream, PlayInv, LocalInv
    <3>1. OriginInv'
      BY <2>0, <3>0, OriginsKept
    <3>2. CASE Reply(h)
      BY <2>0, <3>0, <3>1, <3>2, RelaysReplied
    <3>3. CASE /\ answer'.entry # None /\ Goto(h, "open_upstream")
               /\ req' = [req EXCEPT ![h].entry = answer'.entry, ![h].started = now,
                    ![h].sent = CookieHeader(req[h].provider, answer'.entry.cookie)]
      <4>1. PICK r : /\ req' = [req EXCEPT ![h] = r]
                     /\ r.token = req[h].token /\ r.provider = req[h].provider
                     /\ r.entry = answer'.entry /\ r.started = now
                     /\ r.sent = CookieHeader(r.provider, r.entry.cookie)
        BY <3>3, StreamOpens DEF PlayInv
      <4>2. req' = [req EXCEPT ![h] = r]
        BY <4>1
      <4>3. r.provider \in Routes
        BY <2>5, <4>1 DEF GetStream, PlayInv, LocalInv
      <4>4. r.token = req[h].token /\ r.entry = answer'.entry /\ r.started = now
        BY <4>1
      <4>5. Good(r.token) /\ r.entry = entries[r.token]
        BY <3>0, <3>3, <4>4 DEF Get
      <4>6. r.token \in Held /\ now <= entries[r.token].expires
        <5>1. r.token \in Held /\ ~(now > entries[r.token].expires)
          BY <4>5 DEF Good, Expired
        <5>2. now \in Nat /\ entries[r.token].expires \in Nat
          BY <5>1, StreamAssumption DEF Held, PlayInv, StreamTypeOK, Entry
        <5>. QED BY <5>1, <5>2
      <4>7. PICK a \in answers : /\ a.token = r.token
                                 /\ a.media = r.entry.url /\ a.cookie = r.entry.cookie
                                 /\ a.media \in offered[a.cookie]
                                 /\ a.until = r.entry.expires
        BY <4>5, <4>6 DEF OriginInv
      <4>8. r.sent = OwnCookie(r.provider, a)
        BY <4>1, <4>3, <4>7 DEF CookieHeader, OwnCookie, Routes
      <4>9. Sourced(r)
        BY <4>4, <4>5, <4>6, <4>7, <4>8 DEF Sourced
      <4>. QED BY <2>0, <3>0, <3>1, <3>3, <4>2, <4>9, RelaysKept DEF Goto
    <3>. QED BY <2>5, <3>2, <3>3 DEF GetStream
  <2>6. CASE OpenUpstream(h)
    <3>0. UNCHANGED <<streamVars, answers>> /\ OriginInv'
      BY <2>0, <2>6, OriginsKept DEF OpenUpstream
    <3>1. CASE Reply(h)
      BY <2>0, <3>0, <3>1, RelaysReplied
    <3>2. CASE Goto(h, "relay") /\ UNCHANGED req
      <4>1. req' = [req EXCEPT ![h] = req[h]]
        BY <3>2 DEF PlayInv, LocalInv
      <4>2. Sourced(req[h])
        BY <2>6 DEF OpenUpstream, RelaysItsToken, Sourced
      <4>. QED BY <2>0, <3>0, <3>2, <4>1, <4>2, RelaysKept DEF Goto
    <3>. QED BY <2>6, <3>1, <3>2 DEF OpenUpstream
  <2>7. CASE Relay(h)
    BY <2>0, <2>7, OriginsKept, RelaysReplied DEF Relay
  <2>. QED BY <1>2, <2>1, <2>2, <2>3, <2>4, <2>5, <2>6, <2>7 DEF Work
<1>3. CASE TimePasses
  BY <1>3, OriginsKept DEF TimePasses, world, RelaysItsToken
<1>4. CASE UNCHANGED vars
  BY <1>4, OriginsKept DEF vars, streamVars, RelaysItsToken
<1>. QED BY <1>1, <1>2, <1>3, <1>4 DEF Next

\* A stream handler asks within the lifetime of the token for the media the token was made
\* for, with that request's own cookie (Netease's handler) or with none (Bilibili's),
\* however the requests of all accounts and both providers overlap.
\* (stream.Store, neteaseStream, bilibiliStream)
THEOREM RelaysItsTokenHolds == Spec => []RelaysItsToken
<1>1. Init => OriginInv /\ RelaysItsToken
  BY DEF Init, StreamInit, OriginInv, Held, RelaysItsToken
<1>. QED BY <1>1, PlaybackInit, PlaybackStep, RelayStep, PTL DEF Spec

-----------------------------------------------------------------------------

\* What the label of a request says of its local variables, beyond LocalInv.
Fits(label, r) ==
  /\ label \in PlayLabels \cup {"idle", "get_stream", "open_upstream", "relay"}
  /\ label = "last_try" => r.todo = <<>>
  /\ label \in {"open_upstream", "relay"} => r.entry \in Entry /\ r.sent \in Cookies \cup {None}

ShapeInv == \A h \in Handlers : Fits(pc[h], req[h])

LEMMA ShapeKept ==
  ASSUME PlayInv, ShapeInv, NEW h \in Handlers, NEW label, NEW r, Fits(label, r),
         pc' = [pc EXCEPT ![h] = label], req' = [req EXCEPT ![h] = r]
  PROVE  ShapeInv'
<1>1. \A g \in Handlers : g # h => pc'[g] = pc[g] /\ req'[g] = req[g]
  BY DEF PlayInv, LocalInv
<1>2. pc'[h] = label /\ req'[h] = r
  BY DEF PlayInv, LocalInv
<1>3. \A g \in Handlers : Fits(pc'[g], req'[g])
  BY <1>1, <1>2 DEF ShapeInv
<1>. QED BY <1>3 DEF ShapeInv, Fits

LEMMA ShapeReplied ==
  ASSUME PlayInv, ShapeInv, NEW h \in Handlers, Reply(h)
  PROVE  ShapeInv'
<1>1. Fits("idle", NoReq)
  BY DEF Fits
<1>. QED BY <1>1, ShapeKept DEF Reply, Goto

LEMMA ShapeStep ==
  ASSUME PlayInv, ShapeInv, [Next]_vars
  PROVE  ShapeInv'
<1>1. ASSUME NEW h \in Handlers, Arrive(h) PROVE ShapeInv'
  <2>1. CASE NeteasePlayURL(h)
    <3>1. PICK r : Begin(h, "try_level", r)
      BY <2>1, Zenon DEF NeteasePlayURL
    <3>2. Fits("try_level", r)
      BY DEF Fits, PlayLabels
    <3>. QED BY <3>1, <3>2, ShapeKept DEF Begin
  <2>2. CASE BilibiliPlayURL(h) \/ NeteaseStream(h) \/ BilibiliStream(h)
    <3>1. \E label \in {"bili_view", "bili_play", "get_stream"} : \E r : Begin(h, label, r)
      BY <2>2 DEF BilibiliPlayURL, NeteaseStream, BilibiliStream, StreamRequest
    <3>2. PICK label \in {"bili_view", "bili_play", "get_stream"} : \E r : Begin(h, label, r)
      BY <3>1
    <3>3. PICK r : Begin(h, label, r)
      BY <3>2
    <3>4. Fits(label, r)
      BY <3>3 DEF Fits, PlayLabels
    <3>. QED BY <3>3, <3>4, ShapeKept DEF Begin
  <2>. QED BY <1>1, <2>1, <2>2 DEF Arrive
<1>2. ASSUME NEW h \in Handlers, Work(h) PROVE ShapeInv'
  <2>1. CASE TryLevel(h)
    <3>1. CASE Serves(h)
      BY <3>1, ShapeReplied DEF Serves, CreateStreamResponse
    <3>2. CASE /\ Goto(h, IF Tail(req[h].todo) = <<>> THEN "last_try" ELSE "try_level")
               /\ req' = [req EXCEPT ![h].todo = Tail(@),
                                     ![h].failed = @ \cup ({Head(req[h].todo)} \cap offered[req[h].cookie])]
      <4>1. PICK todo, failed : /\ todo = Tail(req[h].todo)
                                /\ failed = req[h].failed \cup ({Head(req[h].todo)} \cap offered[req[h].cookie])
        OBVIOUS
      <4>2. PICK r : r = [req[h] EXCEPT !.todo = todo, !.failed = failed]
        OBVIOUS
      <4>3. req' = [req EXCEPT ![h] = r]
        BY <3>2, <4>1, <4>2
      <4>4. r.todo = todo
        <5>1. IsReq(req[h])
          BY DEF PlayInv, LocalInv
        <5>2. r \in [cookie : {req[h].cookie}, level : {req[h].level}, todo : {todo},
                     token : {req[h].token}, entry : {req[h].entry},
                     started : {req[h].started}, failed : {failed},
                     provider : {req[h].provider}, sent : {req[h].sent}]
          BY <4>2, <5>1 DEF IsReq
        <5>. QED BY ONLY <5>2
      <4>5. PICK label : label = IF todo = <<>> THEN "last_try" ELSE "try_level"
        OBVIOUS
      <4>6. Fits(label, r)
        BY <4>4, <4>5 DEF Fits, PlayLabels
      <4>7. pc' = [pc EXCEPT ![h] = label]
        BY <3>2, <4>1, <4>5 DEF Goto
      <4>. QED BY <4>3, <4>6, <4>7, ShapeKept
    <3>. QED BY <2>1, <3>1, <3>2 DEF TryLevel
  <2>2. CASE LastTry(h)
    BY <2>2, ShapeReplied DEF LastTry, CreateStreamResponse, Unavailable
  <2>3. CASE BiliView(h)
    <3>1. CASE Reply(h)
      BY <3>1, ShapeReplied
    <3>2. CASE Goto(h, "bili_play") /\ UNCHANGED req
      <4>1. req' = [req EXCEPT ![h] = req[h]]
        BY <3>2 DEF PlayInv, LocalInv
      <4>2. Fits("bili_play", req[h])
        BY DEF Fits, PlayLabels
      <4>. QED BY <3>2, <4>1, <4>2, ShapeKept DEF Goto
    <3>. QED BY <2>3, <3>1, <3>2 DEF BiliView, Unavailable
  <2>4. CASE BiliPlay(h)
    BY <2>4, ShapeReplied DEF BiliPlay, CreateStreamResponse, Unavailable
  <2>5. CASE GetStream(h)
    <3>1. CASE Reply(h)
      BY <3>1, ShapeReplied
    <3>2. CASE /\ answer'.entry # None /\ Goto(h, "open_upstream")
               /\ req' = [req EXCEPT ![h].entry = answer'.entry, ![h].started = now,
                    ![h].sent = CookieHeader(req[h].provider, answer'.entry.cookie)]
      <4>1. PICK r : /\ req' = [req EXCEPT ![h] = r] /\ r.provider = req[h].provider
                     /\ r.entry = answer'.entry
                     /\ r.sent = CookieHeader(r.provider, r.entry.cookie)
        BY <3>2, StreamOpens DEF PlayInv
      <4>2. req' = [req EXCEPT ![h] = r]
        BY <4>1
      <4>3. req[h].token \in Tokens
        BY <2>5 DEF GetStream, PlayInv, LocalInv
      <4>4. r.entry = answer'.entry
        BY <4>1
      <4>5. r.entry \in Entry
        BY <2>5, <3>2, <4>3, <4>4 DEF GetStream, Get, Good, Held, PlayInv, StreamTypeOK
      <4>6. Fits("open_upstream", r)
        BY <4>1, <4>5 DEF Fits, CookieHeader, Entry
      <4>. QED BY <3>2, <4>2, <4>6, ShapeKept DEF Goto
    <3>. QED BY <2>5, <3>1, <3>2 DEF GetStream
  <2>6. CASE OpenUpstream(h)
    <3>1. CASE Reply(h)
      BY <3>1, ShapeReplied
    <3>2. CASE Goto(h, "relay") /\ UNCHANGED req
      <4>1. req' = [req EXCEPT ![h] = req[h]]
        BY <3>2 DEF PlayInv, LocalInv
      <4>2. Fits("relay", req[h])
        BY <2>6 DEF OpenUpstream, ShapeInv, Fits
      <4>. QED BY <3>2, <4>1, <4>2, ShapeKept DEF Goto
    <3>. QED BY <2>6, <3>1, <3>2 DEF OpenUpstream
  <2>7. CASE Relay(h)
    BY <2>7, ShapeReplied DEF Relay
  <2>. QED BY <1>2, <2>1, <2>2, <2>3, <2>4, <2>5, <2>6, <2>7 DEF Work
<1>3. CASE TimePasses
  BY <1>3 DEF TimePasses, ShapeInv, Fits
<1>4. CASE UNCHANGED vars
  BY <1>4 DEF vars, ShapeInv, Fits
<1>. QED BY <1>1, <1>2, <1>3, <1>4 DEF Next

LEMMA ShapeInit == Init => ShapeInv
  BY DEF Init, ShapeInv, Fits

\* The store, the labels and the local variables of every request keep their types: the
\* last call comes when the levels are used up, and nothing is opened that Get refused.
\* (neteasePlayURL, bilibiliPlayURL, neteaseStream, stream.Store)
THEOREM PlaybackTypes == Spec => []PlaybackTypeOK
<1>1. PlayInv /\ ShapeInv => PlaybackTypeOK
  BY DEF PlayInv, LocalInv, ShapeInv, Fits, PlayLabels, Routes, PlaybackTypeOK
<1>. QED BY <1>1, ShapeInit, PlaybackInit, PlaybackStep, ShapeStep, PTL DEF Spec

-----------------------------------------------------------------------------
(***************************************************************************)
(* What a request is answered.  The media it is still to ask for and those *)
(* it asked for in vain make up the order of preference between them: what *)
(* is wanted more than the next in todo has been missed already.           *)
(***************************************************************************)

Ordered(wanted, r) ==
  /\ \A i \in 1..Len(r.todo) :
       \E p \in DOMAIN wanted :
         /\ wanted[p] = r.todo[i]
         /\ \A j \in 1..p-1 : Missed(wanted[j], r) \/ \E k \in 1..i-1 : wanted[j] = r.todo[k]
  /\ \A j \in DOMAIN wanted :
       \/ Missed(wanted[j], r)
       \/ \E k \in 1..Len(r.todo) : wanted[j] = r.todo[k]
       \/ ~direct /\ j = Len(wanted)

Trying(label, r) ==
  label \in {"try_level", "last_try"} =>
    /\ r.level \in Levels \cup {None} /\ r.todo \in Seq(Levels)
    /\ Ordered(Preference("netease", r.level), r)

OrderInv ==
  \A h \in Handlers : \A label, r : label = pc[h] /\ r = req[h] => Trying(label, r)

\* What ServesTheBest says of one answer.
ServedBest(a) ==
  LET wanted == Preference(a.provider, a.level) IN
  IF a.media = None THEN \A i \in DOMAIN wanted : Missed(wanted[i], a)
  ELSE \E i \in DOMAIN wanted :
         /\ wanted[i] = a.media /\ a.media \in offered[a.cookie]
         /\ \A j \in 1..i-1 : Missed(wanted[j], a)

LEMMA FallBackLevels ==
  /\ FallBacks \in Seq(Levels) /\ Len(FallBacks) = 3 /\ None \notin Levels
  /\ \A m : m \in ToSet(FallBacks) <=> \E i \in 1..3 : m = FallBacks[i]
  /\ \A i, j \in 1..3 : FallBacks[i] = FallBacks[j] => i = j
  /\ \A i \in 1..3 : FallBacks[i] \in Levels
<1>1. Len(FallBacks) = 3 /\ DOMAIN FallBacks = 1..3
  BY DEF FallBacks
<1>2. \A m : m \in ToSet(FallBacks) <=> \E i \in 1..3 : m = FallBacks[i]
  BY <1>1 DEF ToSet
<1>3. \A i \in 1..3 : FallBacks[i] \in Levels
  BY <1>2, PlaybackAssumption
<1>4. FallBacks \in Seq(Levels)
  <2>1. "exhigh" \in Levels /\ "higher" \in Levels /\ "standard" \in Levels
    BY <1>3 DEF FallBacks
  <2>. QED BY <2>1 DEF FallBacks
<1>5. \A i, j \in 1..3 : FallBacks[i] = FallBacks[j] => i = j
  BY DEF FallBacks
<1>. QED BY <1>1, <1>2, <1>3, <1>4, <1>5, PlaybackAssumption

\* The levels in the order of preference, with or without the song's own URL behind them.
LEMMA SameOrder ==
  ASSUME NEW wanted \in Seq(Media), NEW r, r.todo \in Seq(Levels),
         Len(wanted) = Len(r.todo) \/ (~direct /\ Len(wanted) = Len(r.todo) + 1),
         \A i \in 1..Len(r.todo) : wanted[i] = r.todo[i]
  PROVE  Ordered(wanted, r)
<1>1. PICK n : n = Len(r.todo)
  OBVIOUS
<1>2. PICK m : m = Len(wanted)
  OBVIOUS
<1>3. n \in Nat /\ m \in Nat /\ DOMAIN wanted = 1..m
  BY <1>1, <1>2
<1>4. m = n \/ (~direct /\ m = n + 1)
  BY <1>1, <1>2
<1>5. ASSUME NEW i \in 1..Len(r.todo)
      PROVE  \E p \in DOMAIN wanted :
               /\ wanted[p] = r.todo[i]
               /\ \A j \in 1..p-1 : Missed(wanted[j], r) \/ \E k \in 1..i-1 : wanted[j] = r.todo[k]
  <2>1. i \in DOMAIN wanted /\ wanted[i] = r.todo[i]
    BY <1>1, <1>3, <1>4
  <2>2. \A j \in 1..i-1 : wanted[j] = r.todo[j]
    BY <1>1, <1>3
  <2>. QED BY <2>1, <2>2
<1>6. ASSUME NEW j \in DOMAIN wanted
      PROVE  (\E k \in 1..Len(r.todo) : wanted[j] = r.todo[k]) \/ (~direct /\ j = Len(wanted))
  <2>1. j \in 1..n \/ (~direct /\ j = m)
    BY <1>3, <1>4
  <2>. QED BY <1>1, <1>2, <2>1
<1>. QED BY <1>5, <1>6 DEF Ordered

\* A level that is a fall-back itself is asked for once, in front.
LEMMA OnceOrder ==
  ASSUME NEW wanted, DOMAIN wanted = 1..5, Len(wanted) = 5, ~direct,
         NEW r, Len(r.todo) = 3, NEW n \in 1..3, wanted[1] = wanted[n + 1],
         r.todo[1] = wanted[1],
         r.todo[2] = wanted[IF n = 1 THEN 3 ELSE 2],
         r.todo[3] = wanted[IF n = 3 THEN 3 ELSE 4]
  PROVE  Ordered(wanted, r)
<1>1. ASSUME NEW i \in 1..3
      PROVE  \E p \in 1..5 :
               /\ wanted[p] = r.todo[i]
               /\ \A j \in 1..p-1 : Missed(wanted[j], r) \/ \E k \in 1..i-1 : wanted[j] = r.todo[k]
  <2>1. CASE i = 1
    <3>1. \A j \in 1..1-1 : FALSE
      OBVIOUS
    <3>. QED BY <2>1, <3>1
  <2>2. CASE i = 2
    <3>1. r.todo[2] = wanted[2] \/ (n = 1 /\ r.todo[2] = wanted[3])
      OBVIOUS
    <3>2. \A j \in 1..2-1 : wanted[j] = r.todo[1]
      OBVIOUS
    <3>3. n = 1 => \A j \in 1..3-1 : wanted[j] = r.todo[1]
      OBVIOUS
    <3>4. 1 \in 1..2-1
      OBVIOUS
    <3>. QED BY <2>2, <3>1, <3>2, <3>3, <3>4
  <2>3. CASE i = 3
    <3>0. 1 \in 1..3-1 /\ 2 \in 1..3-1
      OBVIOUS
    <3>1. CASE n = 3
      <4>1. \A j \in 1..3-1 : wanted[j] = r.todo[1] \/ wanted[j] = r.todo[2]
        BY <3>1
      <4>. QED BY <2>3, <3>0, <3>1, <4>1
    <3>2. CASE n # 3
      <4>1. \A j \in 1..4-1 : wanted[j] = r.todo[1] \/ wanted[j] = r.todo[2]
        BY <3>2
      <4>. QED BY <2>3, <3>0, <3>2, <4>1
    <3>. QED BY <3>1, <3>2
  <2>. QED BY <2>1, <2>2, <2>3
<1>2. ASSUME NEW j \in 1..5
      PROVE  (\E k \in 1..3 : wanted[j] = r.todo[k]) \/ j = 5
  OBVIOUS
<1>. QED BY <1>1, <1>2 DEF Ordered

LEMMA FirstOrder ==
  ASSUME NEW level \in Levels \cup {None}, NEW r, r.todo = LevelsToTry(level)
  PROVE  r.todo \in Seq(Levels) /\ Ordered(Preference("netease", level), r)
<1> DEFINE P == Preference("netease", level)
           Asked == IF level = None THEN <<>> ELSE <<level>>
           Back == IF direct THEN <<>> ELSE <<SongUrl>>
<1>1. /\ Asked \in Seq(Levels) /\ Len(Asked) = (IF level = None THEN 0 ELSE 1)
      /\ level # None => Asked[1] = level
  OBVIOUS
<1>2. /\ Back \in Seq(Media) /\ Len(Back) = (IF direct THEN 0 ELSE 1)
  <2>1. SongUrl \in Media
    BY PlaybackAssumption
  <2>2. CASE direct
    BY <2>2
  <2>3. CASE ~direct
    <3>1. Back = <<SongUrl>>
      BY <2>3
    <3>. HIDE DEF Back
    <3>. QED BY <2>1, <2>3, <3>1
  <2>. QED BY <2>2, <2>3
<1> DEFINE Full == Asked \o FallBacks
<1>3. /\ Full \in Seq(Levels) /\ Len(Full) = Len(Asked) + 3
      /\ \A i \in 1..Len(Asked) + 3 :
           Full[i] = IF i <= Len(Asked) THEN Asked[i] ELSE FallBacks[i - Len(Asked)]
  <2>1. PICK asked : asked = Asked
    OBVIOUS
  <2>2. asked \in Seq(Levels) /\ FallBacks \in Seq(Levels) /\ Len(FallBacks) = 3
    BY <1>1, <2>1, FallBackLevels
  <2>3. /\ asked \o FallBacks \in Seq(Levels)
        /\ Len(asked \o FallBacks) = Len(asked) + Len(FallBacks)
        /\ \A i \in 1..Len(asked) + Len(FallBacks) :
             (asked \o FallBacks)[i] = IF i <= Len(asked) THEN asked[i] ELSE FallBacks[i - Len(asked)]
    BY <2>2, ConcatProperties
  <2>. HIDE DEF Asked
  <2>. QED BY <2>1, <2>2, <2>3
<1>4. Full \in Seq(Media)
  <2>1. Levels \subseteq Media
    BY PlaybackAssumption
  <2>. QED BY <1>3, <2>1
<1>5. P = Full \o Back
  BY DEF Preference
<1>6. /\ P \in Seq(Media) /\ Len(P) = Len(Full) + Len(Back) /\ Len(Full) \in Nat
      /\ \A i \in 1..Len(Full) : P[i] = Full[i]
  <2>. HIDE DEF Full, Back, P
  <2>1. /\ Full \o Back \in Seq(Media) /\ Len(Full \o Back) = Len(Full) + Len(Back)
        /\ \A i \in 1..Len(Full) + Len(Back) :
             (Full \o Back)[i] = IF i <= Len(Full) THEN Full[i] ELSE Back[i - Len(Full)]
    BY <1>2, <1>4, ConcatProperties
  <2>2. Len(Full) \in Nat /\ Len(Back) \in Nat
    BY <1>2, <1>4
  <2>. QED BY <1>5, <2>1, <2>2
<1>7. CASE r.todo = Full
  <2>. HIDE DEF Full, Back, P
  <2>1. Len(P) = Len(r.todo) \/ (~direct /\ Len(P) = Len(r.todo) + 1)
    BY <1>2, <1>6, <1>7
  <2>2. Ordered(P, r)
    BY <1>3, <1>6, <1>7, <2>1, SameOrder
  <2>. QED BY <1>3, <1>7, <2>2 DEF P
<1>8. CASE r.todo # Full
  <2>1. level # None /\ ~direct /\ level \in ToSet(FallBacks)
    <3>1. level = None => Full = FallBacks
      BY FallBackLevels, ConcatEmptySeq
    <3>. QED BY <1>8, <3>1 DEF LevelsToTry
  <2>2. PICK n \in 1..3 : level = FallBacks[n]
    BY <2>1, FallBackLevels
  <2> DEFINE R == RemoveAt(FallBacks, n)
  <2>3. r.todo = <<level>> \o R
    <3>1. (CHOOSE i \in DOMAIN FallBacks : FallBacks[i] = level) = n
      BY <2>2, FallBackLevels
    <3>. QED BY <2>1, <3>1 DEF LevelsToTry
  <2> DEFINE A == SubSeq(FallBacks, 1, n - 1)
             B == SubSeq(FallBacks, n + 1, 3)
  <2>4. /\ A \in Seq(Levels) /\ Len(A) = n - 1 /\ \A i \in 1..n-1 : A[i] = FallBacks[i]
    <3>1. \A i \in 1..n-1 : FallBacks[i] \in Levels
      BY FallBackLevels
    <3>2. /\ A \in Seq(Levels) /\ Len(A) = (IF 1 <= n-1 THEN (n-1)-1+1 ELSE 0)
          /\ \A i \in 1..(n-1)-1+1 : A[i] = FallBacks[1+i-1]
      BY <3>1, SubSeqProperties
    <3>. HIDE DEF A
    <3>. QED BY <3>2
  <2>5. /\ B \in Seq(Levels) /\ Len(B) = 3 - n /\ \A i \in 1..3-n : B[i] = FallBacks[n + i]
    <3>1. \A i \in n+1..3 : FallBacks[i] \in Levels
      BY FallBackLevels
    <3>2. /\ B \in Seq(Levels) /\ Len(B) = (IF n+1 <= 3 THEN 3-(n+1)+1 ELSE 0)
          /\ \A i \in 1..3-(n+1)+1 : B[i] = FallBacks[(n+1)+i-1]
      BY <3>1, SubSeqProperties
    <3>. HIDE DEF B
    <3>. QED BY <3>2
  <2>6. /\ R \in Seq(Levels) /\ Len(R) = 2
        /\ \A i \in 1..2 : R[i] = IF i < n THEN FallBacks[i] ELSE FallBacks[i + 1]
    <3>1. R = A \o B
      BY FallBackLevels DEF RemoveAt
    <3>. HIDE DEF A, B, R
    <3>2. /\ R \in Seq(Levels) /\ Len(R) = Len(A) + Len(B)
          /\ \A i \in 1..Len(A) + Len(B) : R[i] = IF i <= Len(A) THEN A[i] ELSE B[i - Len(A)]
      BY <2>4, <2>5, <3>1, ConcatProperties
    <3>. QED BY <2>4, <2>5, <3>2
  <2>7. /\ r.todo \in Seq(Levels) /\ Len(r.todo) = 3 /\ r.todo[1] = level
        /\ r.todo[2] = R[1] /\ r.todo[3] = R[2]
    <3>. HIDE DEF R
    <3>1. <<level>> \in Seq(Levels) /\ Len(<<level>>) = 1 /\ <<level>>[1] = level
      BY <2>1
    <3>2. PICK one : one = <<level>>
      OBVIOUS
    <3>3. /\ r.todo \in Seq(Levels) /\ Len(r.todo) = Len(one) + Len(R)
          /\ \A i \in 1..Len(one) + Len(R) :
               r.todo[i] = IF i <= Len(one) THEN one[i] ELSE R[i - Len(one)]
      <4>1. one \in Seq(Levels) /\ R \in Seq(Levels) /\ r.todo = one \o R
        BY <2>3, <2>6, <3>1, <3>2
      <4>. QED BY <4>1, ConcatProperties
    <3>. QED BY <2>6, <3>1, <3>2, <3>3
  <2>8. /\ P[1] = level /\ \A i \in 1..3 : P[i + 1] = FallBacks[i]
        /\ Len(P) = 5 /\ DOMAIN P = 1..5
    <3>0. Len(Asked) = 1 /\ Len(Back) = 1 /\ Asked[1] = level
      BY <1>1, <1>2, <2>1
    <3>. HIDE DEF P, Full, Asked, Back
    <3>1. Len(Full) = 4 /\ Full[1] = level /\ \A i \in 1..3 : Full[i + 1] = FallBacks[i]
      BY <1>3, <3>0
    <3>. QED BY <1>6, <3>0, <3>1
  <2>9. Ordered(P, r)
    <3>. HIDE DEF P, R
    <3>1. /\ r.todo[2] = P[IF n = 1 THEN 3 ELSE 2] /\ r.todo[3] = P[IF n = 3 THEN 3 ELSE 4]
          /\ P[1] = P[n + 1]
      <4>1. P[2] = FallBacks[1] /\ P[3] = FallBacks[2] /\ P[4] = FallBacks[3]
        BY <2>8
      <4>2. R[1] = (IF n = 1 THEN FallBacks[2] ELSE FallBacks[1])
            /\ R[2] = (IF n = 3 THEN FallBacks[2] ELSE FallBacks[3])
        BY <2>6
      <4>. QED BY <2>2, <2>7, <2>8, <4>1, <4>2
    <3>. QED BY <2>1, <2>7, <2>8, <3>1, OnceOrder
  <2>. QED BY <2>7, <2>9
<1>. QED BY <1>7, <1>8

\* A call that brought nothing takes its level from todo to the missed ones.
LEMMA NextOrder ==
  ASSUME NEW wanted, NEW r, NEW x, Ordered(wanted, r), r.todo \in Seq(Levels), r.todo # <<>>,
         x.cookie = r.cookie, x.todo = Tail(r.todo),
         x.failed = r.failed \cup ({Head(r.todo)} \cap offered[r.cookie])
  PROVE  x.todo \in Seq(Levels) /\ Ordered(wanted, x)
<1>1. /\ Len(r.todo) \in Nat /\ Len(r.todo) > 0 /\ x.todo \in Seq(Levels)
      /\ Len(x.todo) = Len(r.todo) - 1 /\ Head(r.todo) = r.todo[1]
      /\ \A i \in 1..Len(x.todo) : x.todo[i] = r.todo[i + 1]
  OBVIOUS
<1>2. Missed(r.todo[1], x) /\ \A m : Missed(m, r) => Missed(m, x)
  BY <1>1 DEF Missed
<1>3. ASSUME NEW i \in 1..Len(x.todo)
      PROVE  \E p \in DOMAIN wanted :
               /\ wanted[p] = x.todo[i]
               /\ \A j \in 1..p-1 : Missed(wanted[j], x) \/ \E k \in 1..i-1 : wanted[j] = x.todo[k]
  <2>1. i + 1 \in 1..Len(r.todo)
    BY <1>1
  <2>2. PICK p \in DOMAIN wanted :
          /\ wanted[p] = r.todo[i + 1]
          /\ \A j \in 1..p-1 : Missed(wanted[j], r) \/ \E k \in 1..(i+1)-1 : wanted[j] = r.todo[k]
    BY <2>1 DEF Ordered
  <2>3. ASSUME NEW j \in 1..p-1
        PROVE  Missed(wanted[j], x) \/ \E k \in 1..i-1 : wanted[j] = x.todo[k]
    <3>1. CASE Missed(wanted[j], r)
      BY <1>2, <3>1
    <3>2. ASSUME NEW k \in 1..i, wanted[j] = r.todo[k]
          PROVE  Missed(wanted[j], x) \/ \E l \in 1..i-1 : wanted[j] = x.todo[l]
      <4>1. CASE k = 1
        BY <1>2, <3>2, <4>1
      <4>2. CASE k # 1
        <5>1. k - 1 \in 1..i-1 /\ k - 1 \in 1..Len(x.todo) /\ (k - 1) + 1 = k
          BY <1>1, <4>2
        <5>2. x.todo[k - 1] = r.todo[k]
          BY <1>1, <5>1
        <5>. QED BY <3>2, <5>1, <5>2
      <4>. QED BY <4>1, <4>2
    <3>3. (i + 1) - 1 = i
      BY <1>1
    <3>. QED BY <2>2, <3>1, <3>2, <3>3
  <2>. QED BY <1>1, <2>2, <2>3
<1>4. ASSUME NEW j \in DOMAIN wanted
      PROVE  \/ Missed(wanted[j], x)
             \/ \E k \in 1..Len(x.todo) : wanted[j] = x.todo[k]
             \/ ~direct /\ j = Len(wanted)
  <2>1. ASSUME NEW k \in 1..Len(r.todo), wanted[j] = r.todo[k], k # 1
        PROVE  \E l \in 1..Len(x.todo) : wanted[j] = x.todo[l]
    <3>1. k - 1 \in 1..Len(x.todo) /\ (k - 1) + 1 = k
      BY <1>1, <2>1
    <3>. QED BY <1>1, <2>1, <3>1
  <2>. QED BY <1>2, <2>1 DEF Ordered
<1>. QED BY <1>1, <1>3, <1>4 DEF Ordered

\* In the compatible mode the song's own URL is what a request wants least.
LEMMA LastWanted ==
  ASSUME NEW level \in Levels \cup {None}, ~direct
  PROVE  LET wanted == Preference("netease", level) IN
         wanted \in Seq(Media) /\ Len(wanted) \in DOMAIN wanted /\ wanted[Len(wanted)] = SongUrl
<1>1. PICK asked : asked = IF level = None THEN <<>> ELSE <<level>>
  OBVIOUS
<1>2. asked \in Seq(Media)
  <2>1. level # None => level \in Media
    BY PlaybackAssumption
  <2>. QED BY <1>1, <2>1
<1>3. FallBacks \in Seq(Media)
  <2>1. FallBacks \in Seq(Levels) /\ Levels \subseteq Media
    BY FallBackLevels, PlaybackAssumption
  <2>. QED BY <2>1
<1>4. asked \o FallBacks \in Seq(Media)
  BY <1>2, <1>3, ConcatProperties
<1>5. PICK most, back : most = asked \o FallBacks /\ back = <<SongUrl>>
  OBVIOUS
<1>6. most \in Seq(Media) /\ back \in Seq(Media) /\ Len(back) = 1 /\ back[1] = SongUrl
  <2>1. SongUrl \in Media
    BY PlaybackAssumption
  <2>. QED BY <1>4, <1>5, <2>1
<1>7. /\ most \o back \in Seq(Media) /\ Len(most \o back) = Len(most) + Len(back)
      /\ \A i \in 1..Len(most) + Len(back) :
           (most \o back)[i] = IF i <= Len(most) THEN most[i] ELSE back[i - Len(most)]
  BY <1>6, ConcatProperties
<1>8. PICK wanted : wanted = most \o back
  OBVIOUS
<1>9. wanted \in Seq(Media) /\ Len(wanted) \in DOMAIN wanted /\ wanted[Len(wanted)] = SongUrl
  <2>1. Len(most) \in Nat /\ Len(wanted) = Len(most) + 1
    BY <1>6, <1>7, <1>8
  <2>2. (Len(most) + 1) - Len(most) = 1 /\ Len(most) + 1 \in 1..Len(most) + 1
        /\ ~(Len(most) + 1 <= Len(most))
    BY <2>1
  <2>. QED BY <1>6, <1>7, <1>8, <2>1, <2>2
<1>10. Preference("netease", level) = wanted
  BY <1>1, <1>5, <1>8 DEF Preference
<1>. QED BY <1>9, <1>10

LEMMA TryingKept ==
  ASSUME UNCHANGED world, NEW label, NEW r, Trying(label, r)
  PROVE  Trying(label, r)'
<1>1. direct' = direct /\ offered' = offered
  BY DEF world
<1>2. Preference("netease", r.level)' = Preference("netease", r.level)
  BY <1>1 DEF Preference
<1>. QED BY <1>1, <1>2 DEF Trying, Ordered, Missed

LEMMA OrderKept ==
  ASSUME PlayInv, OrderInv, UNCHANGED world, NEW h \in Handlers, NEW label, NEW r,
         Trying(label, r), pc' = [pc EXCEPT ![h] = label], req' = [req EXCEPT ![h] = r]
  PROVE  OrderInv'
<1>1. \A g \in Handlers : g # h => pc'[g] = pc[g] /\ req'[g] = req[g]
  BY DEF PlayInv, LocalInv
<1>2. pc'[h] = label /\ req'[h] = r
  BY DEF PlayInv, LocalInv
<1>3. ASSUME NEW g \in Handlers, NEW l, NEW x, l = pc'[g], x = req'[g]
      PROVE  Trying(l, x)
  BY <1>1, <1>2, <1>3 DEF OrderInv
<1>4. ASSUME NEW g \in Handlers, NEW l, NEW x, l = pc'[g], x = req'[g]
      PROVE  Trying(l, x)'
  BY <1>3, <1>4, TryingKept
<1>. QED BY <1>4 DEF OrderInv

\* A label without levels to try.
LEMMA OtherLabel ==
  ASSUME PlayInv, OrderInv, UNCHANGED world, NEW h \in Handlers, NEW label, NEW r,
         label \notin {"try_level", "last_try"},
         pc' = [pc EXCEPT ![h] = label], req' = [req EXCEPT ![h] = r]
  PROVE  OrderInv'
  BY OrderKept DEF Trying

LEMMA OrderReplied ==
  ASSUME PlayInv, OrderInv, UNCHANGED world, NEW h \in Handlers, Reply(h)
  PROVE  OrderInv'
  BY OtherLabel DEF Reply, Goto

LEMMA OrderUnchanged ==
  ASSUME OrderInv, UNCHANGED <<pc, req, world>>
  PROVE  OrderInv'
<1>1. ASSUME NEW g \in Handlers, NEW l, NEW x, l = pc'[g], x = req'[g]
      PROVE  Trying(l, x)'
  BY <1>1, TryingKept DEF OrderInv
<1>. QED BY <1>1 DEF OrderInv

-----------------------------------------------------------------------------

LEMMA BestKept ==
  ASSUME UNCHANGED world, NEW a, ServedBest(a)
  PROVE  ServedBest(a)'
<1>1. direct' = direct /\ offered' = offered
  BY DEF world
<1>2. Preference(a.provider, a.level)' = Preference(a.provider, a.level)
  BY <1>1 DEF Preference
<1>. QED BY <1>1, <1>2 DEF ServedBest, Missed

LEMMA BestSame ==
  ASSUME ServesTheBest, UNCHANGED <<world, answers>>
  PROVE  ServesTheBest'
<1>1. \A a \in answers : ServedBest(a)
  BY DEF ServesTheBest, ServedBest
<1>2. \A a \in answers' : ServedBest(a)'
  BY <1>1, BestKept
<1>. QED BY <1>2 DEF ServesTheBest, ServedBest

LEMMA BestAnswer ==
  ASSUME ServesTheBest, UNCHANGED world, NEW h \in Handlers,
         NEW provider, NEW status, NEW media, NEW token, NEW failed,
         Answer(h, provider, status, media, token, failed),
         \A a : /\ a.provider = provider /\ a.level = req[h].level /\ a.cookie = req[h].cookie
                /\ a.media = media /\ a.failed = failed
                => ServedBest(a)
  PROVE  ServesTheBest'
<1>1. \A a \in answers : ServedBest(a)
  BY DEF ServesTheBest, ServedBest
<1>2. PICK new : /\ new \in [provider : {provider}, status : {status}, level : {req[h].level},
                             cookie : {req[h].cookie}, media : {media}, token : {token},
                             failed : {failed}, until : {IF token = None THEN 0 ELSE now + TTL},
                             url : {IF token = None THEN <<>> ELSE StreamURL(provider, token)}]
                 /\ answers' = answers \cup {new}
  BY DEF Answer
<1>3. /\ new.provider = provider /\ new.level = req[h].level /\ new.cookie = req[h].cookie
      /\ new.media = media /\ new.failed = failed
  BY <1>2
<1>4. ServedBest(new)
  BY <1>3
<1>5. \A a \in answers' : ServedBest(a)'
  BY <1>1, <1>2, <1>4, BestKept
<1>. QED BY <1>5 DEF ServesTheBest, ServedBest

LEMMA ServedFirst ==
  ASSUME PlayInv, OrderInv, NEW h \in Handlers, pc[h] = "try_level", req[h].todo # <<>>,
         Head(req[h].todo) \in offered[req[h].cookie],
         NEW a, a.provider = "netease", a.level = req[h].level, a.cookie = req[h].cookie,
         a.media = Head(req[h].todo), a.failed = req[h].failed
  PROVE  ServedBest(a)
<1>1. PICK r, wanted : r = req[h] /\ wanted = Preference("netease", r.level)
  OBVIOUS
<1>2. r.todo \in Seq(Levels) /\ Ordered(wanted, r)
  BY <1>1 DEF OrderInv, Trying
<1>3. 1 \in 1..Len(r.todo) /\ Head(r.todo) = r.todo[1]
  BY <1>1, <1>2
<1>4. PICK p \in DOMAIN wanted :
        /\ wanted[p] = r.todo[1]
        /\ \A j \in 1..p-1 : Missed(wanted[j], r) \/ \E k \in 1..1-1 : wanted[j] = r.todo[k]
  BY <1>2, <1>3 DEF Ordered
<1>5. wanted[p] = a.media /\ \A j \in 1..p-1 : Missed(wanted[j], a)
  BY <1>1, <1>3, <1>4 DEF Missed
<1>6. a.media # None
  <2>1. a.media \in Media
    BY DEF PlayInv, LocalInv, PlayLabels
  <2>. QED BY <2>1, PlaybackAssumption
<1>. QED BY <1>1, <1>5, <1>6 DEF ServedBest

\* With the levels used up, everything but the song's own URL has been missed.
LEMMA LevelsMissed ==
  ASSUME OrderInv, ShapeInv, NEW h \in Handlers, pc[h] = "last_try"
  PROVE  /\ req[h].level \in Levels \cup {None}
         /\ LET wanted == Preference("netease", req[h].level) IN
            \A j \in DOMAIN wanted :
              Missed(wanted[j], req[h]) \/ (~direct /\ j = Len(wanted))
<1>1. req[h].todo = <<>>
  BY DEF ShapeInv, Fits
<1>2. PICK r, wanted : r = req[h] /\ wanted = Preference("netease", r.level)
  OBVIOUS
<1>3. r.level \in Levels \cup {None} /\ Ordered(wanted, r)
  BY <1>2 DEF OrderInv, Trying
<1>4. \A k \in 1..Len(r.todo) : FALSE
  BY <1>1, <1>2
<1>5. \A j \in DOMAIN wanted : Missed(wanted[j], r) \/ (~direct /\ j = Len(wanted))
  BY <1>3, <1>4 DEF Ordered
<1>. QED BY <1>2, <1>3, <1>5

LEMMA ServedLast ==
  ASSUME PlayInv, OrderInv, ShapeInv, NEW h \in Handlers, pc[h] = "last_try", ~direct,
         SongUrl \in offered[req[h].cookie],
         NEW a, a.provider = "netease", a.level = req[h].level, a.cookie = req[h].cookie,
         a.media = SongUrl, a.failed = req[h].failed
  PROVE  ServedBest(a)
<1>1. PICK wanted : wanted = Preference("netease", req[h].level)
  OBVIOUS
<1>2. \A j \in DOMAIN wanted : Missed(wanted[j], req[h]) \/ j = Len(wanted)
  BY <1>1, LevelsMissed
<1>3. Len(wanted) \in DOMAIN wanted /\ wanted[Len(wanted)] = SongUrl
  BY <1>1, LevelsMissed, LastWanted
<1>4. \A j \in 1..Len(wanted)-1 : j \in DOMAIN wanted /\ j # Len(wanted)
  <2>1. wanted \in Seq(Media)
    BY <1>1, LevelsMissed, LastWanted
  <2>. QED BY <2>1
<1>5. \A j \in 1..Len(wanted)-1 : Missed(wanted[j], a)
  BY <1>2, <1>4 DEF Missed
<1>6. a.media # None
  BY PlaybackAssumption
<1>. QED BY <1>1, <1>3, <1>5, <1>6 DEF ServedBest

LEMMA ServedNothing ==
  ASSUME OrderInv, ShapeInv, NEW h \in Handlers, pc[h] = "last_try",
         NEW a, a.provider = "netease", a.level = req[h].level, a.cookie = req[h].cookie,
         a.media = None, a.failed = req[h].failed \cup ({SongUrl} \cap offered[req[h].cookie])
  PROVE  ServedBest(a)
<1>1. PICK wanted : wanted = Preference("netease", req[h].level)
  OBVIOUS
<1>2. ASSUME NEW j \in DOMAIN wanted PROVE Missed(wanted[j], a)
  <2>1. CASE Missed(wanted[j], req[h])
    BY <2>1 DEF Missed
  <2>2. CASE ~direct /\ j = Len(wanted)
    <3>1. wanted[j] = SongUrl
      BY <1>1, <2>2, LevelsMissed, LastWanted
    <3>. QED BY <3>1 DEF Missed
  <2>. QED BY <1>1, <2>1, <2>2, LevelsMissed
<1>. QED BY <1>1, <1>2 DEF ServedBest

\* Bilibili: the first given, nothing where nothing is given or the call failed.
LEMMA ServedBili ==
  ASSUME PlayInv, NEW h \in Handlers, pc[h] \in PlayLabels,
         NEW a, a.provider = "bilibili", a.cookie = req[h].cookie,
         \/ a.media = None /\ ToSet(BiliMedia) \subseteq a.failed
         \/ /\ a.media = None
            /\ \A i \in DOMAIN BiliMedia : BiliMedia[i] \notin offered[req[h].cookie]
         \/ \E i \in DOMAIN BiliMedia :
              /\ BiliMedia[i] \in offered[req[h].cookie] /\ a.media = BiliMedia[i]
              /\ \A j \in DOMAIN BiliMedia : BiliMedia[j] \in offered[req[h].cookie] => i <= j
  PROVE  ServedBest(a)
<1>1. Preference(a.provider, a.level) = BiliMedia
  BY DEF Preference
<1>2. DOMAIN BiliMedia = 1..3 /\ \A i \in 1..3 : BiliMedia[i] \in ToSet(BiliMedia)
  BY DEF BiliMedia, ToSet
<1>3. CASE a.media = None /\ ToSet(BiliMedia) \subseteq a.failed
  BY <1>1, <1>2, <1>3 DEF ServedBest, Missed
<1>4. CASE /\ a.media = None
           /\ \A i \in DOMAIN BiliMedia : BiliMedia[i] \notin offered[req[h].cookie]
  BY <1>1, <1>4 DEF ServedBest, Missed
<1>5. ASSUME NEW i \in DOMAIN BiliMedia,
             BiliMedia[i] \in offered[req[h].cookie], a.media = BiliMedia[i],
             \A j \in DOMAIN BiliMedia : BiliMedia[j] \in offered[req[h].cookie] => i <= j
      PROVE  ServedBest(a)
  <2>1. \A j \in 1..i-1 : j \in DOMAIN BiliMedia /\ ~(i <= j)
    BY <1>2, <1>5
  <2>2. \A j \in 1..i-1 : Missed(BiliMedia[j], a)
    BY <1>5, <2>1 DEF Missed
  <2>3. a.media # None
    BY <1>2, <1>5, PlaybackAssumption
  <2>. QED BY <1>1, <1>5, <2>2, <2>3 DEF ServedBest
<1>. QED BY <1>3, <1>4, <1>5

LEMMA BestStep ==
  ASSUME PlayInv, ShapeInv, OrderInv, ServesTheBest, [Next]_vars
  PROVE  OrderInv' /\ ServesTheBest'
<1>1. ASSUME NEW h \in Handlers, Arrive(h) PROVE OrderInv' /\ ServesTheBest'
  <2>0. UNCHANGED <<world, answers>>
    BY <1>1 DEF Arrive, NeteasePlayURL, BilibiliPlayURL, NeteaseStream, BilibiliStream,
                StreamRequest
  <2>1. CASE NeteasePlayURL(h)
    <3>1. PICK cookie \in Cookies, level \in Levels \cup {None} :
            Begin(h, "try_level", [NoReq EXCEPT !.cookie = cookie, !.level = level,
                                                !.todo = LevelsToTry(level)])
      BY <2>1, Zenon DEF NeteasePlayURL
    <3>2. PICK todo, r : /\ todo = LevelsToTry(level)
                         /\ r = [NoReq EXCEPT !.cookie = cookie, !.level = level, !.todo = todo]
      OBVIOUS
    <3>3. r.level = level /\ r.todo = todo
      <4>1. r \in [cookie : {cookie}, level : {level}, todo : {todo}, token : {None},
                   entry : {None}, started : {0}, failed : {{}},
         provider : {None}, sent : {None}]
        BY <3>2 DEF NoReq
      <4>. QED BY ONLY <4>1
    <3>4. Trying("try_level", r)
      BY <3>2, <3>3, FirstOrder DEF Trying
    <3>5. Begin(h, "try_level", r)
      BY <3>1, <3>2
    <3>. QED BY <2>0, <3>4, <3>5, OrderKept, BestSame DEF Begin
  <2>2. CASE BilibiliPlayURL(h) \/ NeteaseStream(h) \/ BilibiliStream(h)
    <3>1. \E label \in {"bili_view", "bili_play", "get_stream"} : \E r : Begin(h, label, r)
      BY <2>2 DEF BilibiliPlayURL, NeteaseStream, BilibiliStream, StreamRequest
    <3>2. PICK label \in {"bili_view", "bili_play", "get_stream"} : \E r : Begin(h, label, r)
      BY <3>1
    <3>3. PICK r : Begin(h, label, r)
      BY <3>2
    <3>. QED BY <2>0, <3>3, OtherLabel, BestSame DEF Begin
  <2>. QED BY <1>1, <2>1, <2>2 DEF Arrive
<1>2. ASSUME NEW h \in Handlers, Work(h) PROVE OrderInv' /\ ServesTheBest'
  <2>0. UNCHANGED world
    BY <1>2 DEF Work, TryLevel, LastTry, BiliView, BiliPlay, GetStream, OpenUpstream, Relay
  <2>1. CASE TryLevel(h)
    <3>1. CASE Serves(h)
      <4>1. PICK token : Answer(h, "netease", 200, Head(req[h].todo), token, req[h].failed)
        BY <3>1 DEF Serves, CreateStreamResponse
      <4>2. ServesTheBest'
        BY <2>0, <2>1, <3>1, <4>1, ServedFirst, BestAnswer DEF TryLevel, Serves
      <4>. QED BY <2>0, <3>1, <4>2, OrderReplied DEF Serves, CreateStreamResponse
    <3>2. CASE /\ Goto(h, IF Tail(req[h].todo) = <<>> THEN "last_try" ELSE "try_level")
               /\ req' = [req EXCEPT ![h].todo = Tail(@),
                                     ![h].failed = @ \cup ({Head(req[h].todo)} \cap offered[req[h].cookie])]
               /\ UNCHANGED answers
      <4>1. PICK todo, failed : /\ todo = Tail(req[h].todo)
                                /\ failed = req[h].failed \cup ({Head(req[h].todo)} \cap offered[req[h].cookie])
        OBVIOUS
      <4>2. PICK r : r = [req[h] EXCEPT !.todo = todo, !.failed = failed]
        OBVIOUS
      <4>3. req' = [req EXCEPT ![h] = r]
        BY <3>2, <4>1, <4>2
      <4>4. r.todo = todo /\ r.failed = failed /\ r.level = req[h].level /\ r.cookie = req[h].cookie
        <5>1. IsReq(req[h])
          BY DEF PlayInv, LocalInv
        <5>2. r \in [cookie : {req[h].cookie}, level : {req[h].level}, todo : {todo},
                     token : {req[h].token}, entry : {req[h].entry},
                     started : {req[h].started}, failed : {failed},
                     provider : {req[h].provider}, sent : {req[h].sent}]
          BY <4>2, <5>1 DEF IsReq
        <5>. QED BY ONLY <5>2
      <4>5. Trying("try_level", req[h]) /\ req[h].todo # <<>>
        BY <2>1 DEF TryLevel, OrderInv
      <4>6. r.todo \in Seq(Levels) /\ Ordered(Preference("netease", r.level), r)
        BY <4>1, <4>4, <4>5, NextOrder DEF Trying
      <4>7. PICK label : label = IF todo = <<>> THEN "last_try" ELSE "try_level"
        OBVIOUS
      <4>8. Trying(label, r)
        BY <4>4, <4>5, <4>6 DEF Trying
      <4>9. pc' = [pc EXCEPT ![h] = label]
        BY <3>2, <4>1, <4>7 DEF Goto
      <4>. QED BY <2>0, <3>2, <4>3, <4>8, <4>9, OrderKept, BestSame
    <3>. QED BY <2>1, <3>1, <3>2 DEF TryLevel
  <2>2. CASE LastTry(h)
    <3>1. Reply(h)
      BY <2>2 DEF LastTry, CreateStreamResponse, Unavailable
    <3>2. CASE ~direct /\ SongUrl \in offered[req[h].cookie]
               /\ CreateStreamResponse(h, "netease", SongUrl)
      <4>1. PICK token : Answer(h, "netease", 200, SongUrl, token, req[h].failed)
        BY <3>2 DEF CreateStreamResponse
      <4>2. ServesTheBest'
        BY <2>0, <2>2, <3>2, <4>1, ServedLast, BestAnswer DEF LastTry
      <4>. QED BY <2>0, <3>1, <4>2, OrderReplied
    <3>3. CASE Unavailable(h, "netease", {SongUrl} \cap offered[req[h].cookie])
      <4>1. PICK failed : failed = req[h].failed \cup ({SongUrl} \cap offered[req[h].cookie])
        OBVIOUS
      <4>2. Answer(h, "netease", 503, None, None, failed)
        BY <3>3, <4>1 DEF Unavailable
      <4>3. ServesTheBest'
        BY <2>0, <2>2, <4>1, <4>2, ServedNothing, BestAnswer DEF LastTry
      <4>. QED BY <2>0, <3>1, <4>3, OrderReplied
    <3>. QED BY <2>2, <3>2, <3>3 DEF LastTry
  <2>3. ASSUME pc[h] \in PlayLabels, Unavailable(h, "bilibili", ToSet(BiliMedia))
        PROVE  OrderInv' /\ ServesTheBest'
    <3>1. PICK failed : failed = req[h].failed \cup ToSet(BiliMedia)
      OBVIOUS
    <3>2. Answer(h, "bilibili", 503, None, None, failed)
      BY <2>3, <3>1 DEF Unavailable
    <3>3. ServesTheBest'
      BY <2>0, <2>3, <3>1, <3>2, ServedBili, BestAnswer
    <3>. QED BY <2>0, <2>3, <3>3, OrderReplied DEF Unavailable
  <2>4. CASE BiliView(h)
    <3>1. CASE Goto(h, "bili_play") /\ UNCHANGED <<req, answers>>
      <4>1. req' = [req EXCEPT ![h] = req[h]]
        BY <3>1 DEF PlayInv, LocalInv
      <4>. QED BY <2>0, <3>1, <4>1, OtherLabel, BestSame DEF Goto
    <3>. QED BY <2>3, <2>4, <3>1 DEF BiliView, PlayLabels
  <2>5. CASE BiliPlay(h)
    <3>0. pc[h] \in PlayLabels
      BY <2>5 DEF BiliPlay, PlayLabels
    <3>1. ASSUME NEW i \in DOMAIN BiliMedia, BiliMedia[i] \in offered[req[h].cookie],
                 \A j \in DOMAIN BiliMedia : BiliMedia[j] \in offered[req[h].cookie] => i <= j,
                 CreateStreamResponse(h, "bilibili", BiliMedia[i])
          PROVE  OrderInv' /\ ServesTheBest'
      <4>1. PICK token : Answer(h, "bilibili", 200, BiliMedia[i], token, req[h].failed)
        BY <3>1 DEF CreateStreamResponse
      <4>2. ServesTheBest'
        BY <2>0, <3>0, <3>1, <4>1, ServedBili, BestAnswer
      <4>. QED BY <2>0, <3>1, <4>2, OrderReplied DEF CreateStreamResponse
    <3>2. CASE /\ \A i \in DOMAIN BiliMedia : BiliMedia[i] \notin offered[req[h].cookie]
               /\ Answer(h, "bilibili", 200, None, None, {}) /\ Reply(h)
      <4>1. ServesTheBest'
        BY <2>0, <3>0, <3>2, ServedBili, BestAnswer
      <4>. QED BY <2>0, <3>2, <4>1, OrderReplied
    <3>. QED BY <2>3, <2>5, <3>0, <3>1, <3>2 DEF BiliPlay
  <2>6. CASE GetStream(h)
    <3>1. CASE Reply(h)
      BY <2>0, <2>6, <3>1, OrderReplied, BestSame DEF GetStream
    <3>2. CASE /\ Goto(h, "open_upstream")
               /\ req' = [req EXCEPT ![h].entry = answer'.entry, ![h].started = now,
                    ![h].sent = CookieHeader(req[h].provider, answer'.entry.cookie)]
      <4>2. PICK r : req' = [req EXCEPT ![h] = r]
        BY <3>2, StreamOpens DEF PlayInv
      <4>. QED BY <2>0, <2>6, <3>2, <4>2, OtherLabel, BestSame DEF Goto, GetStream
    <3>. QED BY <2>6, <3>1, <3>2 DEF GetStream
  <2>7. CASE OpenUpstream(h)
    <3>0. UNCHANGED answers
      BY <2>7 DEF OpenUpstream
    <3>1. CASE Reply(h)
      BY <2>0, <3>0, <3>1, OrderReplied, BestSame
    <3>2. CASE Goto(h, "relay") /\ UNCHANGED req
      <4>1. req' = [req EXCEPT ![h] = req[h]]
        BY <3>2 DEF PlayInv, LocalInv
      <4>. QED BY <2>0, <3>0, <3>2, <4>1, OtherLabel, BestSame DEF Goto
    <3>. QED BY <2>7, <3>1, <3>2 DEF OpenUpstream
  <2>8. CASE Relay(h)
    BY <2>0, <2>8, OrderReplied, BestSame DEF Relay
  <2>. QED BY <1>2, <2>1, <2>2, <2>4, <2>5, <2>6, <2>7, <2>8 DEF Work
<1>3. CASE TimePasses \/ UNCHANGED vars
  BY <1>3, OrderUnchanged, BestSame DEF TimePasses, vars, world
<1>. QED BY <1>1, <1>2, <1>3 DEF Next

\* Whatever calls fail and however requests overlap, a request gets the best of what the
\* provider has for its own account among the media whose calls did not all fail, in the
\* order of levels the handler means to follow, and an answer without a URL means that
\* there was none. (neteasePlayURL, bilibiliPlayURL)
THEOREM ServesTheBestHolds == Spec => []ServesTheBest
<1>1. Init => OrderInv /\ ServesTheBest
  BY DEF Init, OrderInv, Trying, ServesTheBest
<1>. QED BY <1>1, PlaybackInit, PlaybackStep, ShapeStep, BestStep, ShapeInit, PTL DEF Spec
=============================================================================
