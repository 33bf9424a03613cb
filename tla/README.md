# A formal model of hyacine-server

hyacine-server is the backend of a music application: accounts with mail
verification and an administration on top of SQLite, and a proxy that turns
songs of Netease and Bilibili into short-lived stream URLs. This directory
holds TLA+ modules of the parts that keep or change state, TLC configurations
that check them on small instances, and TLAPS proofs of what must hold on every
instance.

    tlc -workers 2 -config RateLimit.cfg MCAccounts    # any run, see PROJECT.json
    tlapm AccountServerProofs.tla                      # any *Proofs module

`PROJECT.json` lists the runs, the source lines behind every definition, the
hazards of the code with the properties aimed at them, and for every property
a mutant: a plausible bug that makes the property fail.

## The system

| Component | State | Operations | Modelled in |
|---|---|---|---|
| Store (`internal/store`) | SQLite tables `users`, `email_codes`, `login_logs` | one SQL statement per method (two in `CreateUser`, `ListUsers`; three in `Stats`) | `AccountStore` |
| Auth endpoints (`httpapi/auth.go`, `internal/auth`) | none of their own; tokens live with clients | `SendCode`, `Register`, `Login`; `Me`, `LoginHistory` read | `Requests`, `AuthHandlers` |
| Admin endpoints (`httpapi/admin.go`) | none | ban, unban, delete, promote; `ListUsers`, `Stats` read | `AdminHandlers` |
| Commands (`cmd/hyacine-cli`, subcommands of `cmd/hyacine-server`) | none; a process of its own on the same tables | promote, ban, unban, delete, create-admin; list and status read | `AdminCLI` |
| Media tokens (`internal/stream`) | map token -> URL, cookie, expiry, behind a mutex | `Create`, `Get`, lazy cleaning | `StreamLease`, `StreamStore` |
| Playback (`httpapi/handlers_netease_bilibili.go`) | none but the tokens | play-url of Netease (direct or compatible upstream) and Bilibili, stream proxy | `Playback` |
| Favourites, playlists (`handlers_netease_bilibili.go`, `internal/music/netease`) | at Netease | toggle favourite, create, delete | `NeteaseRequests`, `Favorites`, `NeteaseAccount` |
| Netease QR login | at Netease, and on the phone | create key, poll key | `NeteaseRequests`, `QRLogin`, `NeteaseAccount` |
| Mail client (`internal/email`) | none | TLS or STARTTLS, PLAIN then LOGIN | `MailService`, `MailClient`; its outcomes in `AuthHandlers` |
| Configuration, bootstrap (`internal/config`, `cmd/*`, `store.New`) | files, environment, disk | `ensureConfig`, `Load`, `New`, choice of data directory | `Deployment` |
| Search, profile, lyrics, comments, recommendations, Bilibili search and cookie check, captcha, health, CORS | none | one read each, or none | not modelled: no state |

net/http runs every request in its own goroutine, and the handlers meet in two
places: the tables and the token map. The map has a mutex, so its methods are
atomic. The tables have no transactions, so a handler is a sequence of
statements, and between any two of them other requests, an administration
command, the clock, a failure or the end of the process may come. That is
where the behaviour is hard:

- checks and the writes they permit are separate statements (rate limit, first
  account, role of a target), and copies go stale;
- `CreateUser` is two statements and create-admin three; any may fail or be
  the last one before a crash;
- failures of statements are ordinary: the `_busy_timeout` in the data source
  name is not a parameter of modernc.org/sqlite, so a statement that meets a
  writer fails at once, and many errors are dropped or read as "not found";
- the mail server's answer may be lost, or never come;
- tokens of both kinds outlive what they name;
- expiry is lazy, and time is read in two zones;
- the favourites playlist is found by name at Netease, every time anew, and a
  call that creates one is tried again when its answer is lost;
- a QR key is asked about as one type and then as another, and errors are not
  reported;
- server and commands each decide for themselves where the database is.

What makes each component correct: the limiter spaces codes, and a code that
was mailed can be used; one person is the first, an id means one person, a
code makes one account, admins are not removed by ban or delete; a media token gives its owner's media for 15 minutes and then nothing; playback
finds the best medium there is and always answers; an account has one playlist
of favourites and a song is where the app was told it is; a login confirmed on
the phone is reported; what the mail client calls sent is in the mailbox, once,
and a right configuration gets it there; a restart finds its settings and its
database again, and a command the database that is served.

## The modules and the code

### Accounts

`AccountStore` has the three tables as functions from rowids to rows. A query
is a state function (`UsersByEmail`, `RecentEmailCodes`), an update an action on
one table. UNIQUE columns, AUTOINCREMENT (`lastUserId` is the row of
`sqlite_sequence`) and the two clocks are those of the schema: `created_at` is
UTC, the bound it is compared with is local time, `ZoneOffset` apart. One unit
of the clock stands for any span; what matters is which comparisons come out
how. Columns no property looks at are left out.

`Requests` has what a request in progress knows: `pc` names its next statement,
`req` holds its local variables, possibly stale. `tokens` are the JWTs issued.
Four history variables (`founders`, `seen`, `mailed`, and `origin`, the code an
account was registered with) are read only by properties. Input validation changes nothing, so a request starts with the
first statement, for every valid input.

`AuthHandlers`, `AdminHandlers` and `AdminCLI` have one action per statement,
named after what the handler does there (`CountMinute`, `StoreCode`,
`SendMail`, `RollbackCode`; `CheckCode` ... `IssueToken`; `RequireAdmin`,
`ReadTarget`, `BanTarget` ...). With `StoreFails` a statement may fail, and the
action then does what the code does with the error: an answer 500, "not
found", or nothing. `AccountServer` composes them with the clock and with
crashes, which lose `pc` and `req` and keep the tables, and states the
properties. The two binaries' create-admin and promote are the same code and
the same actions. The commands are assumed to open the server's data directory.

Abstractions: passwords are compared, not hashed; a JWT is its claims and does
not expire, which only gives stale tokens more time; the address, name and
code of a request range over small sets; a full table (`MaxUsers`, `MaxCodes`,
`MaxTime` are the bounds) is an INSERT that fails, as it would on a full disk.

### Playback

`StreamLease` says what a media token promises, with no map and no cleaning: it
yields what was stored under it from `Create` until `TTL` later, and then
nothing. `StreamStore` is the map of `internal/stream/store.go`, where an
expired entry stays until somebody comes by; `Lease` maps it to `StreamLease`,
an entry counting while it is due. `newToken` draws 24 random bytes; the model
takes each token at most once. `Create` reads the clock twice under its lock,
for the expiry and then for the cleaning; the readings are up to `Pause` apart,
and an entry that expires in between may stay or go.

`Playback` has the requests on top of it. `TryLevel` is one provider call for
one level, with the fall-backs of `neteasePlayURL`; `LastTry` is the
`/song/url` of the compatible mode, nothing in direct mode; `BiliView` and
`BiliPlay` are the two calls of `bilibiliPlayURL`. `GetStream`, `OpenUpstream`
and `Relay` are the steps of the stream proxies, `neteaseStream` and
`bilibiliStream`: two handlers that do the same in the same order, but only the
first sends the entry's cookie upstream (`CookieHeader`, kept in `sent`). A
request comes to either of them with any token (`StreamRequest`). `direct`
is fixed when the server starts (`Modes`), and so is `offered`, what each
provider would give each account; a media URL is represented by what it is the
URL of, and a path by its segments. A failed call (`Flaky`) is any failure, an
error status and a cancelled request included. `TokensLeft` bounds the
play-url requests by the tokens of the instance. When Bilibili has nothing to
offer, the handler ends without writing, an empty 200; the model keeps that as
an answer without medium.

### Netease: favourites and QR login

`NeteaseRequests` has what both share: a request waits for one call at a time,
through the direct client, which tries a call twice (`Retry: 1`), or through
the compatible upstream, which is asked once. A call takes effect before its
answer is lost, or never; `NoAnswer` then tries it again or gives up. Netease
itself is external: its playlists and keys are what the code assumes of them.

`Favorites` has the toggle as `Playlists` (who am I and what do I have, two
reads), `MakeFavorites` and `Update`, and the plain creation and deletion of
playlists. Two histories serve the properties. `word` is what an account was
last told of a song; it counts until the song's next toggle or a deletion
arrives, and an answer to a toggle that `crossed` another one says nothing.
`disturbed` holds the accounts for which a second favourites playlist may
exist: toggles overlapped, the answer to a creation was lost, or the user made
a namesake. Playlists of other users that an account subscribes to are left
out; a subscribed namesake would be found as well.

`QRLogin` has keys of type 1 and type 3, what `CreateQR` gets and what
`CheckQR` concludes. A key asked about as the wrong type is answered with
another code than 800, 801 or 803: that is an assumption about Netease. An 803 of the compatible upstream counts as
a confirmation only with a cookie (`AnswerFor`); whether an answer has one is
Netease's choice. `"any"` is the type for the compatible
upstream, which knows what it issued. `NeteaseAccount` composes the two: both
kinds of request are in progress at once.

### Mail

`MailClient` is one `Sender.Send`, a step being an exchange with the mail
server: connect, authenticate, envelope, transfer, quit. `config` and `server`
are any setting and any server, fixed for the send; `server.trusted` is a
certificate that is accepted for the host and a version of TLS from 1.2 on, the
two things a `Handshake` needs beside the port that fits the setting. `Obstacle` says what stands
in the way of authentication, from net/smtp (external) as `client.go` uses it:
`PlainAuth` refuses an unencrypted connection, `SendMail` a server without AUTH.
`LooksLikeAuth` is `isAuthError`, which looks for digits and a word in a text:
for many errors both outcomes are possible. `Layers` counts the base64 around
an answer, two for LOGIN: `loginAuth.Next` encodes, and net/smtp encodes
everything `Next` returns. `smtp.SendMail` ends with QUIT and returns its error, a reply
other than 221 included, for a mail that is accepted. Sends share nothing, so
one is the whole component.

`MailService` is what a caller may count on; `MailClient` implements it
(`MailServiceSpec`), and its ends are the outcomes that `SendMail` of
`AuthHandlers` acts on: `delivered`, `refused` and `lost_ack`. That is how the
two components fit together.

### Deployment

`Deployment` has the disk as the paths that are directories and those that are
databases, the configuration file at its three places, and the actions of an
operator: start, stop, a command with or without `HYACINE_DATA_DIR`, and any
edit of a file. A path is the sequence of its names. `EnsureConfig` looks at two of
the places, `Load` at all three; a file may be good, broken or unreadable, and
the last two end in different ways. `New` is `store.New`: `MkdirAll`, then the
database file, each of which may be in the other's way. What the system refuses
may differ from start to start: `WriteFile` of the default configuration may
succeed, fail or leave a part, and `New` may fail with some of the directories
made (`NewFails`). Of the settings,
`database.path` and `jwt.secret` are kept, the two that decide whose data and
whose tokens are valid.

## The runs

The instances have two requests in progress where overlap matters: every
property about overlap relates two requests, and the proofs show the number
does not matter for the proved ones.

| Run | Instance | What it shows |
|---|---|---|
| `RateLimit` | 2 requests, 1 address, 4 code rows, time 0..4 across both windows; statements fail, mails are refused, crashes | `SpacedUnlessOverlapping`, `DayBound`, `MailedCodeIsValid`, `AccountTypeOK` |
| `Accounts` | 2 requests, 2 names, 2 addresses, 2 ids, two equal codes already sent | `FounderUnique`, `IdentityStable`, `FirstAccountIsAdmin`, `OneAccountPerCode`, `LockoutIsPermanent` |
| `Answered` | a request and a command, every operation, every fault | `AnsweredUnlessMailing` (liveness) |
| `PlayMedia` | one request at a time, both modes, all 2^8 sets of media, failing calls | `ServesTheBest`, `PlaybackTypeOK`, `PlaybackAnswered` (liveness) |
| `PlayTokens` | 2 requests, 2 accounts, 2 tokens, time 0..3 with lifetime 1, a pause of 1 between the readings of `Create` | `NeteaseUrlPlays`, `BilibiliUrlPlays`, `RelaysItsToken`, `HandOutCleans`, and `LeaseSpec`: the refinement |
| `Netease` | 2 requests, 1 account, 1 song, 2 playlists, 1 key, both modes, failing calls | `OnePlaylistUnlessDisturbed`, `WordIsKept`, `ConfirmationIsReported`, `NeteaseTypeOK`, `NeteaseAnswered` (liveness) |
| `Mail` | every setting, every server, connections that break at every step | `AtMostOneCopy`, `DeliveredButFailed`, `FailsForAReason`, `MailTypeOK`, and `MailServiceSpec`: the refinement |
| `Deployment` | 3 data directories, one of them below another, 1 secret, 3 places for a file; writes fail at any start | `RestartKeepsSettings`, `ServesAgain`, `DefaultsNeverSplit`, `DeploymentTypeOK` |

Bounds. `RateLimit` needs four codes because `DayBound` allows three with
`DayLimit = 2` and two requests, and a time past `DayWindow` so codes leave it.
`Accounts` needs two ids so that two accounts can claim to be first, and
deletion of the newest id, the case that tells AUTOINCREMENT from a plain
rowid. It starts after `SendCode` has been done for every address
(`SpecCodesSent`), a reachable state. `PlayTokens` gives every cookie one medium
of each provider, since which media there are makes no difference to a token,
and time for an entry to live, expire and be cleaned by somebody else's
`Create`. `Netease` needs two playlists, one more than there should be, and two
requests, so that a deletion or another toggle comes between the calls of one;
one account and one song suffice, since nothing relates two of them. One key is
enough because requests about different keys share nothing. `Mail` has no bound
but the two attempts of the code. `Deployment` needs the default path and
`./data`, which is a prefix of it, and one directory apart from both; nothing
in it is a counter. Handlers, tokens, accounts, names and addresses are only
compared for equality, so permuting them is a symmetry; no run with a liveness
property uses one.

Assumptions that appear in the configurations: in `RateLimit` the clock of the
server is not ahead of UTC, a code drawn is not one still in the table (six
random digits), and the result of a mail is the truth. The last two matter to
`MailedCodeIsValid` only, which fails without them: the code does meet both
cases, and that run says no more than that the rollback takes nothing else. In
`Accounts` statements do not fail and nothing crashes, because with either
`FirstAccountIsAdmin` does not hold (below). The other properties of the run do:
`FounderUnique`, `IdentityStable` and `OneAccountPerCode` with commands,
failures and crashes are theorems and not a run, since those instances are much
larger than `Accounts`.

Fairness. `FairSpec` of `AccountServer`: the runtime goes on with every request
whose next statement can run, except while it waits for the mail server, which
the mail client does without a deadline (`ConnectTimeout` and `SendTimeout` of
`email/config.go` are not used). So a request is answered, or waits there, and
that is all the code guarantees. `FairSpec` of `Playback`: calls to a provider
end, by the timeouts of 10, 15 and 20 seconds; a relay also waits for its
listener, for which the server has no write timeout, and gets no fairness.
`FairSpec` of `NeteaseAccount`: calls end in the same way, and nobody has to
send a request or to touch a phone.

### Where the code differs from what it says

Four runs expect a violation, each of a sentence of the code:

| Run | Sentence | What happens |
|---|---|---|
| `LimiterZone` | "please wait 60 seconds before requesting another code" | On a server ahead of UTC, `created_at > ?` compares a UTC text with a local one: no code is ever recent. |
| `DeleteRace` | "cannot delete admin users" | The role is read, the account is promoted, the account is deleted. |
| `LoginFallback` | "PlainAuth failed, retrying with LOGIN auth" | The retry encodes its answers twice; no server that checks them lets it in. |
| `DataDir` | "HYACINE_DATA_DIR    Data directory (default: ./data)" | The server takes its default `database.path`, `./data/hyacine.db`, for a directory; the commands open `./data`, another database. |

Also visible and not runs of their own.

- Accounts: overlapping SendCode requests both pass the 60-second count (why
  `SpacedUnlessOverlapping` is about requests that do not overlap). A failing
  re-read in `CreateUser` makes Register answer "failed to create user" for an
  account that exists. Two registrations on one code are possible one after the
  other, when `MarkEmailCodeUsed` fails or the second was past its check, though
  the first account must have been deleted in between (why `OneAccountPerCode`
  is about accounts in the table). A failing count leaves the first account
  without its role. An admin may
  demote the last admin, and `LockoutIsPermanent` says no request repairs that.
- Mail: the rollback deletes a code that was delivered when the confirmation is
  lost, and when QUIT fails after the mail was accepted. The table of
  `README.zh-CN.md:59-64` lists 465 as SSL beside an `smtp` block without
  `encryption`, and 587 as TLS. `resolveEncryption` decides on that setting and
  not on the port: 465 without it, and 587 with `tls` for it, both fail.
  `FailsForAReason` counts them as settings that are not those of the port.
- Playback: Bilibili's URLs begin with `/api/v1`, Netease's do not, though the
  comment at `handlers_netease_bilibili.go:495` says relative to it. The
  proxy's client ends a relay, body included, after 20 seconds
  (`router.go:56`); `stream.timeout` (30 in `config.json`) is not used.
- Modes: the playlist detail uses `directNetease` without asking whether it is
  there and panics in compatible mode (`handlers_netease_bilibili.go:552`).
  In that mode creating and deleting a playlist report success for an upstream's
  refusal.
- Deployment: the file `ensureConfig` writes hides a configuration beside the
  executable; if it could not be written before and now is, settings change
  without an edit, the exception in `RestartKeepsSettings`. With `database.path`
  below `./data`, other than the default, a default command works on another
  database (why `DefaultsNeverSplit` is about two paths). A configuration that does not parse is replaced by the defaults
  with one line in the log; the repository's own `config.json`, with a number
  for a string port, is one.
- `docs/architecture.md` and `migrations/README.md` still call the runtime
  stateless.

## The proofs

All for any number of requests, commands, accounts, addresses, codes, tokens,
songs, playlists, login keys and data directories, with failing statements,
every mail outcome and crashes wherever the table names no hypothesis.
They assume the named ASSUMEs of the modules (types of the constants, `Nil` and
`None` outside the data, disjoint `Handlers` and `Clis`), which TLC evaluates in
the runs.

| Theorem | Statement |
|---|---|
| `TypeCorrect` | `Spec => []AccountTypeOK` |
| `IdentityStableHolds` | `Spec => []IdentityStable` |
| `FounderUniqueHolds` | `Spec => []FounderUnique` |
| `SpacedHolds` | `ZoneOffset <= 0` implies `Spec => []SpacedUnlessOverlapping` |
| `DayBoundHolds` | `ZoneOffset <= 0`, `DayLimit > 0` and a finite set of requests imply `Spec => []DayBound` |
| `OneAccountPerCodeHolds` | `Spec => []OneAccountPerCode` |
| `FirstAccountsAreAdmins` | `~StoreFails`, `~Crashes` and no commands imply `Spec => []FirstAccountIsAdmin` |
| `LockoutsArePermanent` | no commands imply `Spec => LockoutIsPermanent` |
| `StoreImplementsLease` | `StreamSpec => LeaseSpec` |
| `PlaybackImplementsLease` | `Spec => LeaseSpec`, the store as the handlers use it |
| `PlaybackTypes` | `Spec => []PlaybackTypeOK` |
| `NeteaseUrlAlwaysPlays`, `BilibiliUrlAlwaysPlays` | `Spec => []NeteaseUrlPlays`, `Spec => []BilibiliUrlPlays` |
| `ServesTheBestHolds` | `Spec => []ServesTheBest` |
| `RelaysItsTokenHolds` | `Spec => []RelaysItsToken` |
| `HandOutAlwaysCleans` | `Spec => HandOutCleans` |
| `MailTypes` | `Spec => []MailTypeOK` |
| `OneCopy`, `ErrorsOfDelivered`, `FailuresHaveReasons` | `Spec => []AtMostOneCopy`, `[]DeliveredButFailed`, `[]FailsForAReason` |
| `ClientImplementsService` | `Spec => MailServiceSpec` |
| `NeteaseTypes` | `Spec => []NeteaseTypeOK` |
| `OnePlaylistHolds` | `Spec => []OnePlaylistUnlessDisturbed` |
| `WordIsAlwaysKept` | `Spec => []WordIsKept` |
| `ConfirmationsReported` | `Spec => []ConfirmationIsReported` |
| `DeploymentTypes` | `Spec => []DeploymentTypeOK` |
| `ServesAgainHolds` | `Spec => []ServesAgain` |
| `DefaultsNeverSplitHolds` | `Spec => []DefaultsNeverSplit` |
| `RestartKeepsSettingsHolds` | `Spec => RestartKeepsSettings` |

- Types (`TypeInv`): `AccountTypeOK` is not inductive; a statement writes what
  a local variable holds, so `LocalInv` says which variables are set at which
  label, and `LogInv` the type of the rows.
- Identity (`IdInv`): ids of rows, of requests past their INSERT and of tokens
  never exceed `lastUserId`, and whoever holds an id and a name holds the name
  of the row or the row is gone. Each step either inserts at a new id or keeps
  names (`UsersStep`), so a pair that is tied stays tied.
- Founders (`FounderInv`): an account claims to be first if it is a founder or
  its registration stands at `promote_first`; live claims are one account. A
  request enters `promote_first` only when one account is live, its own.
- Spacing (`SpacingInv`): for a request past its 60-second count, every code
  then in the table is already `ShortWindow` older than now, and time only
  grows until its INSERT. `ZoneOffset <= 0` is what makes "not recent" mean
  "older".
- Codes per day (`DayInv`): for every address, the codes of the last
  `DayWindow` and the requests that were counted and have not stored theirs
  (`Counted`) are together at most `DayLimit - 1` and the number of requests; a
  request joins the second set only while the first is below the limit, and an
  INSERT moves one from the second to the first. A window that ends earlier is
  fixed and was bounded when it was the current one.
- Accounts of a code (`OriginInv`): a code is bound to an address by its row, by
  a registration past `CheckCode` that goes by it, and by an account made with
  it. All of these name one address, and one address has one account. `StoreCode`
  and the INSERTs of accounts are the only steps that bind; rowids are not given
  twice, so the binding outlives the row a rollback deletes.
- The first account (`FirstInv`): as long as one id was given out and its
  owner was not promoted, its registration stands between its INSERT and `promote_first`, nobody else's role can change, and the account is alone,
  so the count it reads is 1.
- Lockout: with no admin, no request past `requireAdmin` and none that may
  count itself the only account, a request cannot pass `requireAdmin`, and a
  new registration adds an account to a table that has one. `AskerInv` says
  whose row `RequireAdmin` reads.
- Leases: each action maps to an abstract one. `Create` is `Grant`, cleaned
  entries being no longer due; `Get` is `Redeem`, the entry it deletes being
  expired; a tick is a tick. How far the two readings of `Create` are apart makes
  no difference to what is due.
- Playback: the entry behind an answer's token is the answer's while it is due
  (`AnswersInv`), since tokens are drawn once and cleaning spares what is due;
  a path the handler wrote has the segments its provider's route wants. Every
  entry, in the map or held by a relay, is one that was put in under the token
  it is held for (`OriginInv`), and what a request knows depends on where it
  stands (`ShapeInv`). `HandOutCleans` needs no invariant but the types: what
  `Create` leaves is not due later than its own reading of the clock.
- Which medium (`OrderInv`): what a request has still to ask for and what it
  asked for in vain cover its order of preference, and whatever it prefers to the
  next in `todo` it has missed. `FirstOrder` shows that of every list
  `LevelsToTry` makes, where the compatible mode leaves out a fall-back that
  was asked for and the direct mode asks for it twice; `NextOrder` that a failed
  call keeps it. When the levels are used up only the song's own URL can be
  left.
- Mail: for each step, what an attempt must have passed to get there: past
  `authenticate` the mechanism is one the server has and its answers were let
  in. A mail of an attempt that is over was not confirmed, or was before a QUIT
  that failed, which only STARTTLS gets to (`ConfirmInv`). A second copy needs a second attempt past that point, hence LOGIN, two
  layers, and a lax server. The refinement maps `status` to where `pc` stands.
- Favourites: requests in progress that touch the same song, or of which one
  deletes, know that they cross, and while one is in progress nothing counts as
  said of the songs it touches (`CrossInv`). A toggle of an
  undisturbed account is alone, and creates only where there is no playlist of
  favourites (`AloneInv`), so there comes to be one (`SingleInv`). The playlist
  a toggle writes to is one of favourites or is gone (`UpdateInv`), which is
  why what is said afterwards is so.
- Login keys: a key has the type its mode gives (`KeyModeInv`), so one of the
  two questions a poll asks fits it. A poll that goes on to type 3 with no
  failure asks about a key of type 3 (`AskInv`), and what it remembers of the
  first answer cannot hide a confirmation: what was confirmed when it arrived
  is past waiting at every later question. The cookie is part of what is due.
- Deployment: no path is both a directory and a database, and what a server
  ran on stays openable whatever is made elsewhere (`DiskInv`): a directory is
  made only along a path with no database on it. `Settled`: until an edit, what
  a start would load now is what the last start loaded, and that survives the
  file `EnsureConfig` writes, whole or in part. Only where no file could be
  written and the one beside the executable is in use does a later write change
  what is loaded.

Model-checked only: the three liveness properties, since fairness and ENABLED
are beyond the prover, and `MailedCodeIsValid`, which as a theorem would need
hypotheses that the code does not keep. Every other property of a passing run is
a theorem. The
theorems are about `Spec`; the runs of `Accounts` start later, at
`SpecCodesSent`, from a state of it. No hypothesis about a fault, a
command or the clock can be dropped as a whole: without any one of them, small
instances violate the property. They are not the least amount of each fault the
code stands up to.

## Plan

What is left, in the order of its worth:

1. What remains of the spacing of codes when requests overlap: how many codes
   a minute `CountMinute` lets pass, a bound like `DayBound` for the short window.
2. Larger instances of `Netease` (two accounts, three requests) by simulation.

Not planned: endpoints that make one read call each (search, profile, lyrics,
comments, recommendations, Bilibili search and cookie check), message and image
formatting, the captcha's drawing and password hashing. They have no state, or
are conversions no property is about.
