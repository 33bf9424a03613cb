------------------------- MODULE StreamStoreProofs -------------------------
(***************************************************************************)
(* The token store implements its leases, for every set of tokens, media   *)
(* and credentials and every lifetime.  A Create is a Grant whatever it    *)
(* cleans up, a Get is a Redeem whether or not it deletes, and the tick    *)
(* past an entry's time is what ends its lease: the map is not touched.    *)
(***************************************************************************)
EXTENDS StreamStore, TLAPS

LEMMA StreamTypeStep ==
  ASSUME StreamTypeOK, [StreamNext]_streamVars
  PROVE  StreamTypeOK'
<1>1. ASSUME NEW t \in Tokens, NEW url \in Media, NEW cookie \in Cookies, Create(t, url, cookie)
      PROVE  StreamTypeOK'
  <2>1. now \in Nat /\ now + TTL \in Nat
    BY StreamAssumption DEF StreamTypeOK
  <2>2. [url |-> url, cookie |-> cookie, expires |-> now + TTL] \in Entry
    BY <2>1 DEF Entry
  <2>3. \A u \in Tokens : \A time : Kept(u, time) \in Entry \cup {None}
    BY DEF Kept, StreamTypeOK
  <2>4. entries' \in [Tokens -> Entry \cup {None}]
    BY <1>1, <2>2, <2>3 DEF Create
  <2>. QED BY <1>1, <2>4 DEF Create, StreamTypeOK
<1>2. ASSUME NEW t \in Tokens, Get(t) PROVE StreamTypeOK'
  <2>1. \A e \in Entry \cup {None} :
          [token |-> t, entry |-> e] \in [token : Tokens, entry : Entry \cup {None}]
    OBVIOUS
  <2>2. entries[t] \in Entry \cup {None}
    BY DEF StreamTypeOK
  <2>3. answer' \in [token : Tokens, entry : Entry \cup {None}]
    BY <1>2, <2>1, <2>2 DEF Get
  <2>4. entries' \in [Tokens -> Entry \cup {None}]
    BY <1>2 DEF Get, StreamTypeOK
  <2>. QED BY <1>2, <2>3, <2>4 DEF Get, StreamTypeOK
<1>3. CASE StreamTick
  BY <1>3, StreamAssumption DEF StreamTick, StreamTypeOK
<1>4. CASE UNCHANGED streamVars
  BY <1>4 DEF streamVars, StreamTypeOK
<1>. QED BY <1>1, <1>2, <1>3, <1>4 DEF StreamNext

\* What a caller can get out of the store never depends on what was cleaned up.
LEMMA KeptIsDue ==
  ASSUME StreamTypeOK, NEW t \in Tokens
  PROVE  /\ Due(t) = IF Good(t) THEN entries[t] ELSE None
         /\ \A first \in 0..now :
              Due(t) = IF Kept(t, first) # None /\ now <= Kept(t, first).expires
                       THEN Kept(t, first) ELSE None
<1>1. now \in Int /\ (t \in Held => entries[t].expires \in Int)
  BY StreamAssumption DEF StreamTypeOK, Held, Entry
<1>2. Due(t) = IF Good(t) THEN entries[t] ELSE None
  BY <1>1 DEF Due, Good, Held, Expired
<1>3. ASSUME NEW first \in 0..now
      PROVE  Due(t) = IF Kept(t, first) # None /\ now <= Kept(t, first).expires
                      THEN Kept(t, first) ELSE None
  <2>1. t \in Held /\ Expired(t, first) => ~(now <= entries[t].expires)
    BY <1>1 DEF Expired
  <2>. QED BY <2>1 DEF Due, Kept, Held
<1>. QED BY <1>2, <1>3

LEMMA CreateGrants ==
  ASSUME StreamTypeOK, NEW t \in Tokens, NEW url \in Media, NEW cookie \in Cookies,
         Create(t, url, cookie)
  PROVE  Lease!Grant(t, url, cookie)
<1> DEFINE new == [url |-> url, cookie |-> cookie, expires |-> now + TTL]
<1>1. now \in Nat /\ now <= now + TTL /\ now' = now /\ new # None
  BY StreamAssumption DEF StreamTypeOK, Create, Entry
<1>2. PICK first \in 0..now :
        entries'[t] = new /\ \A u \in Tokens \ {t} : entries'[u] = Kept(u, first)
  BY DEF Create
<1>3. Due(t)' = new
  BY <1>1, <1>2 DEF Due, Held
<1>4. ASSUME NEW u \in Tokens \ {t} PROVE Due(u)' = Due(u)
  <2>1. Due(u)' = IF Kept(u, first) # None /\ now <= Kept(u, first).expires
                  THEN Kept(u, first) ELSE None
    BY <1>1, <1>2 DEF Due, Held
  <2>. QED BY <2>1, KeptIsDue
<1>5. [u \in Tokens |-> Due(u)]' = [[u \in Tokens |-> Due(u)] EXCEPT ![t] = new]
  BY <1>3, <1>4
<1>. QED BY <1>5 DEF Lease!Grant, Create

LEMMA GetRedeems ==
  ASSUME StreamTypeOK, NEW t \in Tokens, Get(t)
  PROVE  Lease!Redeem(t)
<1>1. answer' = [token |-> t, entry |-> Due(t)]
  BY KeptIsDue DEF Get
<1>2. ASSUME NEW u \in Tokens PROVE Due(u)' = Due(u)
  <2>1. now' = now /\ (entries'[u] = entries[u] \/ (u = t /\ ~Good(t) /\ entries'[t] = None))
    BY DEF Get, StreamTypeOK
  <2>2. CASE entries'[u] = entries[u]
    BY <2>1, <2>2 DEF Due, Held
  <2>3. CASE u = t /\ ~Good(t) /\ entries'[t] = None
    BY <2>3, KeptIsDue DEF Due, Held
  <2>. QED BY <2>1, <2>2, <2>3
<1>3. [u \in Tokens |-> Due(u)]' = [u \in Tokens |-> Due(u)]
  BY <1>2
<1>. QED BY <1>1, <1>3 DEF Lease!Redeem, Get

LEMMA TickEnds ==
  ASSUME StreamTypeOK, StreamTick
  PROVE  Lease!Tick
<1>1. ASSUME NEW u \in Tokens
      PROVE  Due(u)' = IF Due(u) # None /\ Due(u).expires < now + 1 THEN None ELSE Due(u)
  <2>1. now \in Nat /\ now' = now + 1 /\ entries' = entries
    BY StreamAssumption DEF StreamTypeOK, StreamTick
  <2>2. CASE u \notin Held
    BY <2>1, <2>2 DEF Due, Held
  <2>3. CASE u \in Held
    <3>1. entries[u].expires \in Nat /\ entries[u] # None
      BY <2>3 DEF StreamTypeOK, Held, Entry
    <3>. QED BY <2>1, <2>3, <3>1 DEF Due, Held
  <2>. QED BY <2>2, <2>3
<1>2. [u \in Tokens |-> Due(u)]' =
        [u \in Tokens |-> IF [v \in Tokens |-> Due(v)][u] # None
                             /\ [v \in Tokens |-> Due(v)][u].expires < now + 1
                          THEN None ELSE [v \in Tokens |-> Due(v)][u]]
  BY <1>1
<1>. QED BY <1>2 DEF Lease!Tick, StreamTick

\* Every behaviour of the token store is one of leases that last exactly TTL: a
\* token that was handed out yields its own entry until then, and nothing later,
\* whatever is created, asked for and cleaned up meanwhile. (internal/stream)
THEOREM StoreImplementsLease == StreamSpec => LeaseSpec
<1>1. StreamInit => StreamTypeOK /\ Lease!Init
  <2>1. StreamInit => StreamTypeOK
    BY StreamAssumption DEF StreamInit, StreamTypeOK
  <2>2. StreamInit => Lease!Init
    BY DEF StreamInit, Lease!Init, Due, Held
  <2>. QED BY <2>1, <2>2
<1>2. StreamTypeOK /\ [StreamNext]_streamVars => StreamTypeOK' /\ [Lease!Next]_(Lease!vars)
  <2>. SUFFICES ASSUME StreamTypeOK, [StreamNext]_streamVars
                PROVE  StreamTypeOK' /\ [Lease!Next]_(Lease!vars)
    OBVIOUS
  <2>1. StreamTypeOK'
    BY StreamTypeStep
  <2>2. ASSUME NEW t \in Tokens, NEW url \in Media, NEW cookie \in Cookies, Create(t, url, cookie)
        PROVE  Lease!Next
    BY <2>2, CreateGrants DEF Lease!Next
  <2>3. ASSUME NEW t \in Tokens, Get(t) PROVE Lease!Next
    BY <2>3, GetRedeems DEF Lease!Next
  <2>4. CASE StreamTick
    BY <2>1, <2>4, TickEnds DEF Lease!Next
  <2>5. CASE UNCHANGED streamVars
    <3>1. [t \in Tokens |-> Due(t)]' = [t \in Tokens |-> Due(t)]
      BY <2>5 DEF streamVars, Due, Held
    <3>. QED BY <2>1, <2>5, <3>1 DEF streamVars, Lease!vars
  <2>. QED BY <2>1, <2>2, <2>3, <2>4, <2>5 DEF StreamNext
<1>. QED BY <1>1, <1>2, PTL DEF StreamSpec, LeaseSpec, Lease!Spec
=============================================================================
