------------------------------ MODULE Sessions ------------------------------
(***************************************************************************)
(* The sessions of one account: apps/api/src/auth (login, refresh-token    *)
(* rotation, logout, password changes), the session endpoints, the staff   *)
(* actions that end all sessions, the Redis denylist of access tokens, and *)
(* the refresh queue of the web client (apps/web/src/lib/api.ts).          *)
(*                                                                         *)
(* A login starts a family of refresh tokens; each rotation consumes the   *)
(* family's active row, keeps it as a tombstone and appends the next one.  *)
(* Handlers are split where they wait for the database; requests and       *)
(* answers take any time.  Refusals reach the client at once.              *)
(***************************************************************************)
EXTENDS Integers, Sequences, FiniteSets

CONSTANTS
    Families,   \* family ids, one per login
    Devices,    \* cookie jars
    Tabs,       \* pages that run the web client
    DeviceOf,   \* the device of each tab
    MaxActive,  \* MAX_SESSIONS_PER_USER
    MaxTokens,  \* bound: rows of a family when a request is made
    MaxQueued,  \* bound: requests that wait in a tab
    Endings,    \* bound: the ways of ending sessions that a run tries
    Losses,     \* do answers get lost and Redis writes fail
    NoFamily,   \* no session
    NoDevice    \* a caller that is no device of the account

ASSUME SessionConstants ==
    /\ NoFamily \notin Families /\ NoDevice \notin Devices
    /\ DeviceOf \in [Tabs -> Devices]
    /\ MaxActive \in Nat \ {0} /\ MaxTokens \in Nat /\ MaxQueued \in Nat
    /\ Endings \subseteq {"logout", "one", "others", "password", "reset", "staff", "deactivate", "suspend"}
    /\ Losses \in BOOLEAN

VARIABLES
    rows,       \* the refresh tokens of each family, in the order of creation
    younger,    \* by createdAt: families that got a row after each one's latest
    past,       \* families beyond sessionMaxDays
    denied,     \* families on the Redis denylist
    account,    \* active, deactivated, or a suspended vendor
    jar,        \* cookies of each device
    call,       \* the refresh call of each tab
    queue,      \* requests of each tab that wait for it, its leader included
    login,      \* the login that runs on each device
    ending,     \* the call that ends sessions
    ended,      \* history: families ended on purpose
    overlapped, \* history: families that got tokens while sessions ended
    excused,    \* history: an answer got lost, or a call outlasted the grace
    reused,     \* history: revoked by reuse detection
    missed,     \* history: the denylist write failed
    crowded     \* history: a login that overlapped another issue

tokenVars == <<rows, younger, past, denied, account>>
clientVars == <<jar, call, queue, login>>
history == <<ended, overlapped, excused, reused, missed, crowded>>
vars == <<tokenVars, clientVars, ending, history>>

(* ------------------------------ Tokens --------------------------------- *)

\* active: rotatedAt is null.  fresh, tomb: rotated, within the grace for a
\* benign race or beyond it.
RowKinds == {"active", "fresh", "tomb", "deleted"}
Token(f, n) == [fam |-> f, n |-> n]
NoToken == Token(NoFamily, 0)
NoAccess == [fam |-> NoFamily, late |-> FALSE]
Idle == [pc |-> "idle", token |-> NoToken, evicts |-> {}, late |-> FALSE]
NoLogin == [fam |-> NoFamily, evicts |-> {}]
NoEnding == [pc |-> "idle", how |-> "none", device |-> NoDevice, fams |-> {}, keep |-> NoToken]

Tokens == UNION { { Token(f, n) : n \in DOMAIN rows[f] } : f \in Families }
Kind(k) == IF k = NoToken THEN "deleted" ELSE rows[k.fam][k.n]
Exists(k) == Kind(k) # "deleted"
TokensOf(F) == { k \in Tokens : k.fam \in F }
HasActive(f) == \E n \in DOMAIN rows[f] : rows[f][n] = "active"
ActiveFamilies == { f \in Families : HasActive(f) }

Delete(S) ==
    rows' = [f \in Families |-> [n \in DOMAIN rows[f] |->
                IF Token(f, n) \in S THEN "deleted" ELSE rows[f][n]]]

\* Somebody is past the check of a token or a password of f, and has not
\* inserted the new row.
Issuing(f) ==
    \/ \E t \in Tabs : call[t].pc \in {"read", "consumed", "counted"} /\ call[t].token.fam = f
    \/ \E d \in Devices : login[d].fam = f

\* JwtStrategy.validate, for the access token of a device.
Accepted(d) ==
    /\ jar[d].access # NoAccess
    /\ jar[d].access.fam \notin denied
    /\ account # "deactivated"

Clear(d) == [jar EXCEPT ![d] = [refresh |-> NoToken, access |-> NoAccess]]
Give(d, k, late) == [jar EXCEPT ![d] = [refresh |-> k, access |-> [fam |-> k.fam, late |-> late]]]

(* --------------------------- issueTokens ------------------------------- *)

\* Families whose active row is younger than that of f.
Newer(f) == { g \in younger[f] : HasActive(g) }

\* Bug: the row that is about to be inserted is not counted.
EvictsOneShort == { k \in Tokens : Kind(k) = "active" /\ Cardinality(Newer(k.fam)) >= MaxActive }
\* The youngest MaxActive - 1 rows stay.
Evicts == { k \in Tokens : Kind(k) = "active" /\ Cardinality(Newer(k.fam)) >= MaxActive - 1 }

InsertToken(f, evicted) ==
    /\ rows' = [g \in Families |->
                  LET kept == [n \in DOMAIN rows[g] |->
                                 IF Token(g, n) \in evicted THEN "deleted" ELSE rows[g][n]]
                  IN  IF g = f THEN Append(kept, "active") ELSE kept]
    /\ younger' = [g \in Families |-> IF g = f THEN {} ELSE younger[g] \cup {f}]
    /\ overlapped' = IF ending.pc = "idle" THEN overlapped ELSE overlapped \cup {f}

\* Another issue runs, between the loss of its old row and the new row.
Crowd(D, T) ==
    crowded' = (crowded \/ (\E d \in D : login[d] # NoLogin)
                        \/ (\E t \in T : call[t].pc \in {"consumed", "counted"}))

\* loginWithCheck has passed, issueTokens has counted the active rows.
LoginRead(d) ==
    /\ login[d] = NoLogin /\ account = "active"
    /\ \E f \in Families :
        /\ rows[f] = <<>> /\ \A e \in Devices : login[e].fam # f
        /\ login' = [login EXCEPT ![d] = [fam |-> f, evicts |-> Evicts]]
    /\ Crowd(Devices \ {d}, Tabs)
    /\ UNCHANGED <<tokenVars, jar, call, queue, ending, ended, overlapped, excused, reused, missed>>

LoginIssue(d) ==
    /\ login[d] # NoLogin
    /\ InsertToken(login[d].fam, login[d].evicts)
    /\ jar' = Give(d, Token(login[d].fam, 1), FALSE)
    /\ login' = [login EXCEPT ![d] = NoLogin]
    /\ UNCHANGED <<past, denied, account, call, queue, ending, ended, excused, reused, missed, crowded>>

(* ---------------- The web client's refresh and its queue --------------- *)

Refresh(k) == [Idle EXCEPT !.pc = "sent", !.token = k]

\* A request of tab t that gets a 401: it starts the tab's one refresh, or
\* waits for the one that runs.
Request(t) ==
    LET k == jar[DeviceOf[t]].refresh IN
    /\ ~Accepted(DeviceOf[t])
    /\ queue[t] < MaxQueued
    /\ \A old \in {k, call[t].token} \ {NoToken} :
          Kind(old) = "active" \/ call[t] # Idle => Len(rows[old.fam]) < MaxTokens
    /\ queue' = [queue EXCEPT ![t] = @ + 1]
    /\ call' = IF call[t].pc = "idle" THEN [call EXCEPT ![t] = Refresh(k)] ELSE call
    /\ UNCHANGED <<tokenVars, jar, login, ending, history>>

\* The refresh failed: whatever waits is rejected.  Bug: only the
\* request that started the refresh is.
RejectLeader(t) ==
    /\ call' = [call EXCEPT ![t] = Idle]
    /\ queue' = [queue EXCEPT ![t] = @ - 1]
Reject(t) ==
    /\ call' = [call EXCEPT ![t] = Idle]
    /\ queue' = [queue EXCEPT ![t] = 0]

(* ---------------------------- refreshTokens ---------------------------- *)

\* No row, or a row another call has just rotated.
RefreshRefused(t) ==
    LET k == call[t].token IN
    /\ call[t].pc = "sent" /\ Kind(k) \in {"deleted", "fresh"}
    /\ Reject(t)
    /\ UNCHANGED <<tokenVars, jar, login, ending, history>>

\* The whole family is revoked and the cookies are cleared.
Revoke(t) ==
    LET f == call[t].token.fam IN
    /\ denied' = denied \cup {f}
    /\ Delete(TokensOf({f}))
    /\ jar' = Clear(DeviceOf[t])
    /\ Reject(t)
    /\ ended' = ended \cup {f}
    /\ overlapped' = IF Issuing(f) THEN overlapped \cup {f} ELSE overlapped
    /\ UNCHANGED <<younger, past, account, login, ending, excused, missed, crowded>>

\* Reuse detection.  Bug: without a grace.
IsReuseAtOnce(k) == Kind(k) \in {"fresh", "tomb"}
IsReuse(k) == Kind(k) = "tomb"
RefreshReused(t) ==
    /\ call[t].pc = "sent" /\ IsReuse(call[t].token)
    /\ Revoke(t)
    /\ reused' = reused \cup {call[t].token.fam}

RefreshTooOld(t) ==
    /\ call[t].pc = "sent" /\ Kind(call[t].token) = "active" /\ call[t].token.fam \in past
    /\ Revoke(t)
    /\ UNCHANGED reused

RefreshRead(t) ==
    /\ call[t].pc = "sent" /\ Kind(call[t].token) = "active" /\ call[t].token.fam \notin past
    /\ call' = [call EXCEPT ![t].pc = "read"]
    /\ UNCHANGED <<tokenVars, jar, queue, login, ending, history>>

\* The compare-and-set: one of the calls that read the row wins.  Bug:
\* an unconditional update.
WinsAlways(k) == Exists(k)
Wins(k) == Kind(k) = "active"
RefreshConsume(t) ==
    LET k == call[t].token IN
    /\ call[t].pc = "read"
    /\ IF Wins(k)
       THEN /\ rows' = [rows EXCEPT ![k.fam][k.n] = "fresh"]
            /\ call' = [call EXCEPT ![t].pc = "consumed"]
            /\ UNCHANGED queue
       ELSE Reject(t) /\ UNCHANGED rows
    /\ UNCHANGED <<younger, past, denied, account, jar, login, ending, history>>

\* The account is read, and the active rows are counted.
RefreshCount(t) ==
    /\ call[t].pc = "consumed" /\ account = "active"
    /\ call' = [call EXCEPT ![t].pc = "counted", ![t].evicts = Evicts]
    /\ Crowd(Devices, Tabs \ {t})
    /\ UNCHANGED <<tokenVars, jar, queue, login, ending, ended, overlapped, excused, reused, missed>>

\* A deactivated user, or a suspended vendor: every row goes; the denylist
\* gets this family, or those that still have an active row.
RefreshBarred(t) ==
    LET f == call[t].token.fam IN
    /\ call[t].pc = "consumed" /\ account # "active"
    /\ denied' = denied \cup (IF account = "deactivated" THEN {f} ELSE ActiveFamilies)
    /\ Delete(Tokens)
    /\ jar' = Clear(DeviceOf[t])
    /\ Reject(t)
    /\ overlapped' = overlapped \cup { g \in Families : Issuing(g) }
    /\ UNCHANGED <<younger, past, account, login, ending, ended, excused, reused, missed, crowded>>

RefreshIssue(t) ==
    LET f == call[t].token.fam IN
    /\ call[t].pc = "counted"
    /\ InsertToken(f, call[t].evicts)
    /\ call' = [call EXCEPT ![t] = [pc |-> "answered", evicts |-> {},
                  token |-> Token(f, Len(rows[f]) + 1), late |-> f \in denied]]
    /\ UNCHANGED <<past, denied, account, jar, queue, login, ending, ended, excused, reused, missed, crowded>>

\* The answer arrives: the waiting requests are sent again.  If they are
\* refused again, the one that led the refresh gives up and the next leads.
Deliver(t) ==
    LET given == Give(DeviceOf[t], call[t].token, call[t].late)
        fine == call[t].token.fam \notin denied /\ account # "deactivated"
    IN  /\ call[t].pc = "answered"
        /\ jar' = given
        /\ IF fine \/ queue[t] = 1
           THEN Reject(t)
           ELSE /\ call' = [call EXCEPT ![t] = Refresh(call[t].token)]
                /\ queue' = [queue EXCEPT ![t] = @ - 1]
        /\ UNCHANGED <<tokenVars, login, ending, history>>

Lose(t) ==
    /\ Losses /\ call[t].pc = "answered"
    /\ excused' = excused \cup {call[t].token.fam}
    /\ Reject(t)
    /\ UNCHANGED <<tokenVars, jar, login, ending, ended, overlapped, reused, missed, crowded>>

(* --------------------------- Ending sessions --------------------------- *)

Snapshot(f) == ActiveFamilies \ {f}
FamilyOf(k) == IF Exists(k) THEN k.fam ELSE NoFamily
DenyFirst == {"logout", "one", "others", "staff", "deactivate", "suspend"}

\* The reads of the call: which families, and which token is the caller's.
\* logout, one: a family.  others, password: all but the caller's.  reset
\* and the staff's: all that have an active row.
EndBegin(how, d) ==
    LET k == IF d = NoDevice THEN NoToken ELSE jar[d].refresh IN
    /\ ending = NoEnding
    /\ how \in {"logout", "one", "others", "password"} <=> d # NoDevice
    /\ d # NoDevice => Accepted(d)
    /\ \E F \in IF how = "logout" THEN {{FamilyOf(k)} \ {NoFamily}}
                ELSE IF how = "one" THEN { {x.fam} : x \in { y \in Tokens : Kind(y) = "active" } }
                ELSE {Snapshot(FamilyOf(k))} :
         ending' = [pc |-> "found", how |-> how, device |-> d, fams |-> F,
                    keep |-> IF how \in {"others", "password"} /\ Exists(k) THEN k ELSE NoToken]
    /\ account' = CASE how = "deactivate" -> "deactivated" [] how = "suspend" -> "suspended"
                    [] OTHER -> account
    /\ UNCHANGED <<rows, younger, past, denied, clientVars, history>>

DeletedBy ==
    IF ending.how \in {"reset", "staff", "deactivate", "suspend"} THEN Tokens
    ELSE IF ending.how = "password" THEN Tokens \ {ending.keep}
    ELSE TokensOf(ending.fams)

EndDeny ==
    /\ ending.pc = IF ending.how \in DenyFirst THEN "found" ELSE "deleted"
    /\ \E F \in IF Losses THEN {{}, ending.fams} ELSE {ending.fams} :
         /\ denied' = denied \cup F
         /\ missed' = missed \cup (ending.fams \ F)
    /\ ending' = IF ending.how \in DenyFirst THEN [ending EXCEPT !.pc = "denied"] ELSE NoEnding
    /\ UNCHANGED <<rows, younger, past, account, clientVars, ended, overlapped, excused, reused, crowded>>

EndDelete ==
    /\ ending.pc = IF ending.how \in DenyFirst THEN "denied" ELSE "found"
    /\ Delete(DeletedBy)
    /\ overlapped' = overlapped \cup { f \in Families : Issuing(f) }
    /\ ended' = ended \cup (IF ending.how \in {"logout", "one", "others"} THEN ending.fams
                            ELSE ActiveFamilies \ {ending.keep.fam})
    /\ ending' = IF ending.how \in DenyFirst THEN NoEnding ELSE [ending EXCEPT !.pc = "deleted"]
    /\ jar' = IF ending.how = "logout" THEN Clear(ending.device) ELSE jar
    /\ UNCHANGED <<younger, past, denied, account, call, queue, login, excused, reused, missed, crowded>>

Reactivate ==
    /\ account # "active" /\ ending = NoEnding
    /\ account' = "active"
    /\ UNCHANGED <<rows, younger, past, denied, clientVars, ending, history>>

(* -------------------------- Time goes by ------------------------------- *)

\* The grace of a rotated row ends; a call that still holds the row, or the
\* answer with the next one, has taken too long.
GraceEnds(k) ==
    /\ Kind(k) = "fresh"
    /\ rows' = [rows EXCEPT ![k.fam][k.n] = "tomb"]
    /\ excused' = IF \E t \in Tabs : call[t].token.fam = k.fam THEN excused \cup {k.fam} ELSE excused
    /\ UNCHANGED <<younger, past, denied, account, clientVars, ending, ended, overlapped, reused,
                   missed, crowded>>

AccessExpires(d) ==
    /\ jar[d].access # NoAccess
    /\ jar' = [jar EXCEPT ![d].access = NoAccess]
    /\ UNCHANGED <<tokenVars, call, queue, login, ending, history>>

\* The marker outlives every access token that was signed before it.
\* Bug: its lifetime is shorter than a token's.
MarkerExpiresEarly(f) ==
    /\ f \in denied
    /\ denied' = denied \ {f}
    /\ UNCHANGED <<rows, younger, past, account, clientVars, ending, history>>
MarkerExpires(f) ==
    /\ f \in denied
    /\ ~\E d \in Devices : jar[d].access = [fam |-> f, late |-> FALSE]
    /\ ~\E t \in Tabs : call[t].pc = "answered" /\ call[t].token.fam = f /\ ~call[t].late
    /\ denied' = denied \ {f}
    /\ UNCHANGED <<rows, younger, past, account, clientVars, ending, history>>

SessionAges(f) ==
    /\ rows[f] # <<>> /\ f \notin past
    /\ past' = past \cup {f}
    /\ UNCHANGED <<rows, younger, denied, account, clientVars, ending, history>>

Init ==
    /\ rows = [f \in Families |-> <<>>] /\ younger = [f \in Families |-> {}]
    /\ past = {} /\ denied = {} /\ account = "active"
    /\ jar = [d \in Devices |-> [refresh |-> NoToken, access |-> NoAccess]]
    /\ call = [t \in Tabs |-> Idle]
    /\ queue = [t \in Tabs |-> 0]
    /\ login = [d \in Devices |-> NoLogin]
    /\ ending = NoEnding
    /\ ended = {} /\ overlapped = {} /\ excused = {} /\ reused = {} /\ missed = {}
    /\ crowded = FALSE

RefreshStep(t) ==
    \/ RefreshRefused(t) \/ RefreshReused(t) \/ RefreshTooOld(t) \/ RefreshRead(t)
    \/ RefreshConsume(t) \/ RefreshCount(t) \/ RefreshBarred(t) \/ RefreshIssue(t)
    \/ Deliver(t) \/ Lose(t)

Next ==
    \/ \E t \in Tabs : Request(t) \/ RefreshStep(t)
    \/ \E d \in Devices : LoginRead(d) \/ LoginIssue(d) \/ AccessExpires(d)
    \/ \E how \in Endings, d \in Devices \cup {NoDevice} : EndBegin(how, d)
    \/ EndDeny \/ EndDelete \/ Reactivate
    \/ \E k \in Tokens : GraceEnds(k)
    \/ \E f \in Families : MarkerExpires(f) \/ SessionAges(f)

Spec == Init /\ [][Next]_vars

\* Requests are answered, or fail.
FairSpec == Spec /\ \A t \in Tabs : WF_vars(RefreshStep(t))

(* ---------------------------- Properties ------------------------------- *)

TypeOK ==
    /\ \A f \in Families : rows[f] \in Seq(RowKinds)
    /\ \A f \in Families : younger[f] \subseteq { g \in Families \ {f} : rows[g] # <<>> }
    /\ past \cup denied \cup ended \cup overlapped \cup excused \cup reused \cup missed \subseteq Families
    /\ account \in {"active", "deactivated", "suspended"}
    /\ \A d \in Devices : jar[d].refresh \in Tokens \cup {NoToken}
    /\ \A t \in Tabs : call[t].token \in Tokens \cup {NoToken}
    /\ \A t \in Tabs : queue[t] = 0 <=> call[t] = Idle
    /\ \A d \in Devices : login[d].fam # NoFamily => rows[login[d].fam] = <<>>

\* A session has one row that can be used, however many tabs refresh it at
\* the same time.
OneActiveRow ==
    \A f \in Families : Cardinality({ n \in DOMAIN rows[f] : rows[f][n] = "active" }) <= 1

\* A session that was ended - by its user, by staff, by reuse detection -
\* has no usable row again, unless it was being refreshed at that moment.
EndedStaysEnded == \A f \in ended : HasActive(f) => f \in overlapped

\* ... and no device gets in with an access token of it, unless the denylist
\* could not be written.
NoGhostAccess ==
    \A d \in Devices :
        ending = NoEnding /\ Accepted(d) /\ jar[d].access.fam \in ended => jar[d].access.fam \in overlapped \cup missed

\* What ending a session promises to whoever ended it.
EndedIsOut == EndedStaysEnded /\ NoGhostAccess

\* Reuse detection ends a session only if an answer was lost, or a call
\* took longer than the grace: never two tabs in an ordinary race.
ReuseNeedsDelay == reused \subseteq excused

\* A user has more active sessions than MAX_SESSIONS_PER_USER only if two
\* issues overlapped, so that neither counted the other's row: whatever tabs,
\* logins, reuse and password changes have rotated, evicted or deleted.
CapKept == Cardinality(ActiveFamilies) <= MaxActive \/ crowded

\* A comment of changePassword has it that the caller does not "get logged
\* out mid-task on this device".
CallerNeverOut ==
    [][ending.pc = "found" /\ ending'.pc = "deleted" /\ ending.how = "password"
         /\ ending.keep # NoToken /\ HasActive(ending.keep.fam)
       => HasActive(ending.keep.fam)']_vars

\* A comment of refreshTokens has it that the loser of a race between tabs
\* retries with "the winner's new cookie"; the web client gives up instead.
RaceLoserRetries ==
    [][\A t \in Tabs : call[t].pc \in {"sent", "read"} /\ call[t].token # NoToken /\ call'[t] = Idle
         => ~HasActive(call[t].token.fam)]_vars

\* The web client's queue: every request that waits for a refresh is sent
\* again or rejected in the end.
RequestsSettle == \A t \in Tabs : queue[t] > 0 ~> queue[t] = 0
=============================================================================
