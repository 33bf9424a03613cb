---------------------------- MODULE StreamStore ----------------------------
(***************************************************************************)
(* The Store of internal/stream/store.go: a map from tokens to entries     *)
(* behind a mutex.  An entry that has expired stays in the map until a Get *)
(* of its token or the next Create of any token takes it out; the callers  *)
(* are not to notice, which is what StreamLease says.                      *)
(*                                                                         *)
(* The mutex makes each method one action.  Create reads the clock twice   *)
(* under it: first to clean up, then for the new entry, where the action   *)
(* takes place.                                                            *)
(***************************************************************************)
EXTENDS Integers

CONSTANTS
  Tokens,   \* values of newToken, 24 random bytes; none is drawn twice
  Media,    \* media URLs
  Cookies,  \* the provider credentials stored with them
  TTL,      \* 15 minutes, NewStore(15*time.Minute) in NewRouter
  MaxTime,  \* bound on the clock
  Pause,    \* bound on the time between the two readings of the clock in Create
  None      \* no entry

VARIABLES
  entries,  \* the map
  issued,   \* tokens newToken has drawn
  answer,   \* the token and the result of the last Get
  now

streamVars == <<entries, issued, answer, now>>

Entry == [url : Media, cookie : Cookies, expires : Nat]

ASSUME StreamAssumption == TTL \in Nat /\ MaxTime \in Nat /\ Pause \in Nat /\ None \notin Entry

StreamTypeOK ==
  /\ entries \in [Tokens -> Entry \cup {None}]
  /\ issued \subseteq Tokens
  /\ answer \in [token : Tokens, entry : Entry \cup {None}] \cup {None}
  /\ now \in 0..MaxTime

StreamInit ==
  /\ entries = [t \in Tokens |-> None]
  /\ issued = {}
  /\ answer = None
  /\ now = 0

Held == {t \in Tokens : entries[t] # None}

\* Mutant: the entry ends when its time is reached.
ExpiredAtOnce(t, time) == time >= entries[t].expires

\* Mutant: the time is not looked at.
ExpiredNever(t, time) == FALSE

\* time.Now().After(entry.Expires) is strict.
Expired(t, time) == time > entries[t].expires

Good(t) == t \in Held /\ ~Expired(t, now)

\* Mutant: nothing is cleaned up.
KeptAlways(t, time) == entries[t]

\* Mutant: the cleaning takes out what it should keep.
KeptExpired(t, time) == IF t \in Held /\ ~Expired(t, time) THEN None ELSE entries[t]

\* removeExpiredLocked
Kept(t, time) == IF t \in Held /\ Expired(t, time) THEN None ELSE entries[t]

Create(t, url, cookie) ==
  /\ t \notin issued
  /\ issued' = issued \cup {t}
  /\ \E first \in 0..now :
       /\ now <= first + Pause
       /\ entries' = [u \in Tokens |->
            IF u = t THEN [url |-> url, cookie |-> cookie, expires |-> now + TTL]
            ELSE Kept(u, first)]
  /\ UNCHANGED <<answer, now>>

\* The delete of a token that is not in the map does nothing.
Get(t) ==
  /\ \/ /\ Good(t)
        /\ answer' = [token |-> t, entry |-> entries[t]]
        /\ UNCHANGED entries
     \/ /\ ~Good(t)
        /\ answer' = [token |-> t, entry |-> None]
        /\ entries' = [entries EXCEPT ![t] = None]
  /\ UNCHANGED <<issued, now>>

StreamTick ==
  /\ now < MaxTime
  /\ now' = now + 1
  /\ UNCHANGED <<entries, issued, answer>>

StreamNext ==
  \/ \E t \in Tokens, url \in Media, cookie \in Cookies : Create(t, url, cookie)
  \/ \E t \in Tokens : Get(t)
  \/ StreamTick

StreamSpec == StreamInit /\ [][StreamNext]_streamVars

-----------------------------------------------------------------------------

\* What is still due of an entry, whether or not the map still holds it after that.
Due(t) == IF t \in Held /\ now <= entries[t].expires THEN entries[t] ELSE None

Lease == INSTANCE StreamLease WITH lease <- [t \in Tokens |-> Due(t)], spent <- issued

\* Whatever the map still holds and whenever it is cleaned, callers see leases that
\* last exactly TTL. (stream.Store Create and Get)
LeaseSpec == Lease!Spec

\* The map never grows past the tokens that are good: when one is handed out nothing is
\* left that had expired when Create first read the clock, even if nobody ever asked for
\* it. (removeExpiredLocked)
HandOutCleans ==
  [][issued' # issued => \A t \in Held' : now <= entries'[t].expires + Pause]_streamVars
=============================================================================
