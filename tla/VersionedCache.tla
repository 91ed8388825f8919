--------------------------- MODULE VersionedCache ---------------------------
(* The two versioned caches in Redis: the calendars of one activity        *)
(* (availability-cache.service.ts) or one namespace of reference data      *)
(* (reference-data-cache.service.ts).  An entry lives under a version; a   *)
(* writer commits to the database and then bumps the version, which makes  *)
(* every older entry unreachable.  Each Redis command, database read and   *)
(* commit is a step of its own, since any of them may come between two     *)
(* others.  A value counts the changes of its key that it holds.           *)
EXTENDS Naturals, FiniteSets

CONSTANTS
    Keys,       \* the months of a calendar, or the lists of a namespace
    Readers,    \* requests that may run at once
    Writers,
    MaxWrites,  \* bound on the bumps, and on the changes of a key
    Absent,     \* no entry
    NoKey

ASSUME CacheAssumption ==
    /\ MaxWrites \in Nat
    /\ IsFiniteSet(Writers)
    /\ Absent \notin [val : 0..MaxWrites, late : BOOLEAN]
    /\ NoKey \notin Keys

VARIABLES
    data,       \* the database: the last change of each key
    version,    \* the version in Redis
    entry,      \* entry[v][k]: [val, late], or Absent
    reader,     \* each request: [pc, key, ver, val, floor, since, late]
    writer,     \* the writers that have committed and not bumped yet
    told        \* history: the last change of each key that a bump has told of

cacheVars == <<data, version, entry, reader, writer, told>>

Versions == 0..MaxWrites
Entries == [val : Versions, late : BOOLEAN] \cup {Absent}

\* ver: the version last read.  floor, since, late are history: what the bumps
\* before the request had told; the version when the database was read; and
\* whether what is served was read before a bump and kept after it.
Requests ==
    [pc : {"IDLE", "LOOKUP", "MISSED", "FILL", "STORE", "SERVED"}, key : Keys \cup {NoKey},
     ver : Versions, val : Versions, floor : Versions, since : Versions, late : BOOLEAN]
NoRequest == [pc |-> "IDLE", key |-> NoKey, ver |-> 0, val |-> 0, floor |-> 0,
              since |-> 0, late |-> FALSE]

\* Every variable keeps its type.
CacheTypeOK ==
    /\ data \in [Keys -> Versions]
    /\ version \in Versions
    /\ entry \in [Versions -> [Keys -> Entries]]
    /\ reader \in [Readers -> Requests]
    /\ writer \subseteq Writers
    /\ told \in [Keys -> Versions]

CacheInit ==
    /\ data = [k \in Keys |-> 0]
    /\ version = 0
    /\ entry = [v \in Versions |-> [k \in Keys |-> Absent]]
    /\ reader = [r \in Readers |-> NoRequest]
    /\ writer = {}
    /\ told = data

-----------------------------------------------------------------------------
(* A request: get, and on a miss the database and set.                     *)

\* Bug: the key does not hold the version.
DataKeyUnversioned(v) == 0
\* dataKey: the version that an entry of version v is found under.
DataKey(v) == v

Go(r, pc) == [reader EXCEPT ![r].pc = pc]

\* getVersion of get.
GetVersion(r, k) ==
    /\ reader[r].pc \in {"IDLE", "SERVED"}
    /\ reader' = [reader EXCEPT ![r] =
                    [NoRequest EXCEPT !.pc = "LOOKUP", !.key = k, !.ver = version,
                                      !.floor = told[k]]]
    /\ UNCHANGED <<data, version, entry, writer, told>>

Found(r) == entry[DataKey(reader[r].ver)][reader[r].key]

Hit(r) ==
    /\ reader[r].pc = "LOOKUP"
    /\ Found(r) # Absent
    /\ reader' = [reader EXCEPT ![r].pc = "SERVED", ![r].val = Found(r).val,
                                ![r].late = Found(r).late]
    /\ UNCHANGED <<data, version, entry, writer, told>>

\* No entry, or Redis fails and the request falls through to the database.
Miss(r) ==
    /\ reader[r].pc = "LOOKUP"
    /\ reader' = Go(r, "MISSED")
    /\ UNCHANGED <<data, version, entry, writer, told>>

ReadDatabase(r) ==
    /\ reader[r].pc = "MISSED"
    /\ reader' = [reader EXCEPT ![r].pc = "FILL", ![r].val = data[reader[r].key],
                                ![r].since = version]
    /\ UNCHANGED <<data, version, entry, writer, told>>

\* getVersion of set: the version is read again.
SetVersion(r) ==
    /\ reader[r].pc = "FILL"
    /\ reader' = [reader EXCEPT ![r].pc = "STORE", ![r].ver = version]
    /\ UNCHANGED <<data, version, entry, writer, told>>

Store(r) ==
    LET q == reader[r] IN
    /\ q.pc = "STORE"
    /\ entry' = [entry EXCEPT ![DataKey(q.ver)][q.key] =
                                  [val |-> q.val, late |-> q.ver > q.since]]
    /\ reader' = Go(r, "SERVED")
    /\ UNCHANGED <<data, version, writer, told>>

\* Redis fails, or the payload is above the cap: the answer is served uncached.
StoreFails(r) ==
    /\ reader[r].pc \in {"FILL", "STORE"}
    /\ reader' = Go(r, "SERVED")
    /\ UNCHANGED <<data, version, entry, writer, told>>

\* The pod stops.
Abandon(r) ==
    /\ reader[r].pc \notin {"IDLE", "SERVED"}
    /\ reader' = [reader EXCEPT ![r] = NoRequest]
    /\ UNCHANGED <<data, version, entry, writer, told>>

-----------------------------------------------------------------------------
(* A writer: the commit, and the bump that no writer waits for.            *)

Room(k) == version + Cardinality(writer) < MaxWrites /\ data[k] < MaxWrites

Commit(w, k) ==
    /\ w \notin writer /\ Room(k)
    /\ data' = [data EXCEPT ![k] = @ + 1]
    /\ writer' = writer \cup {w}
    /\ UNCHANGED <<version, entry, reader, told>>

\* Bug: nothing is bumped.
BumpedNot == version
\* INCR.
Bumped == version + 1
Invalidate(w) ==
    /\ w \in writer
    /\ version' = Bumped
    /\ told' = data
    /\ writer' = writer \ {w}
    /\ UNCHANGED <<data, entry, reader>>

\* Redis fails, which invalidate logs and forgets, or the pod stops.
InvalidateLost(w) ==
    /\ w \in writer
    /\ writer' = writer \ {w}
    /\ UNCHANGED <<data, version, entry, reader, told>>

\* Bug: SET without EX.
ExpiresNever(v, k) == FALSE
\* The time to live of an entry: three minutes, or an hour.
Expires(v, k) == entry[v][k] # Absent
Expire(v, k) ==
    /\ Expires(v, k)
    /\ entry' = [entry EXCEPT ![v][k] = Absent]
    /\ UNCHANGED <<data, version, reader, writer, told>>

-----------------------------------------------------------------------------

Fill(r) == ReadDatabase(r) \/ SetVersion(r) \/ Store(r) \/ StoreFails(r)
Request(r) == Hit(r) \/ Miss(r) \/ Fill(r) \/ Abandon(r)
Bump(w) == Invalidate(w) \/ InvalidateLost(w)

CacheNext ==
    \/ \E r \in Readers : Request(r) \/ \E k \in Keys : GetVersion(r, k)
    \/ \E w \in Writers : Bump(w) \/ \E k \in Keys : Commit(w, k)
    \/ \E k \in Keys, v \in Versions : Expire(v, k)

\* A request and a bump that run end, well or badly; an entry runs out.
CacheFairness ==
    /\ \A r \in Readers : WF_cacheVars(Request(r))
    /\ \A w \in Writers : WF_cacheVars(Bump(w))
    /\ \A k \in Keys, v \in Versions : WF_cacheVars(Expire(v, k))

CacheSpec == CacheInit /\ [][CacheNext]_cacheVars
CacheFairSpec == CacheSpec /\ CacheFairness

-----------------------------------------------------------------------------

\* What a request is served holds every change that a bump had told of before
\* the request began, but for an entry that was read before a bump and stored
\* after it.
ServedRecent ==
    \A r \in Readers : reader[r].pc = "SERVED" =>
        reader[r].val >= reader[r].floor \/ reader[r].late

\* Only a request that is still running when a bump comes can leave an entry
\* older than the bump: with nothing under way, what can be read is what the
\* last bump told.
QuietMeansFresh ==
    \A k \in Keys :
        LET e == entry[version][k] IN
        e # Absent => e.val >= told[k] \/ e.late

\* Once the changes end, nothing old can be read for ever, although bumps get
\* lost and requests store what they read before one.
StaleClears ==
    <>[](\A k \in Keys : entry[version][k] # Absent => entry[version][k].val = data[k])

\* "Version-based invalidation means a stale entry is impossible after
\* invalidate()" (bookings.service.ts): a fill that straddles a bump leaves one.
NoStaleEntry ==
    \A k \in Keys : entry[version][k] # Absent => entry[version][k].val >= told[k]
=============================================================================
