---------------------------- MODULE SessionsProofs ----------------------------
(* Theorems about Sessions for any families, devices, tabs and bounds.     *)
EXTENDS Sessions, SequenceTheorems, Sums, TLAPS

Toks == [fam : Families \cup {NoFamily}, n : Nat]
Accesses == [fam : Families \cup {NoFamily}, late : BOOLEAN]
Calls == [pc : {"idle", "sent", "read", "consumed", "counted", "answered"},
          token : Toks, evicts : SUBSET Toks, late : BOOLEAN]

Rows == [Families -> Seq(RowKinds)]

\* Types, where the properties of this module need them.
Shape ==
    /\ rows \in Rows
    /\ denied \subseteq Families /\ ended \subseteq Families /\ overlapped \subseteq Families
    /\ account \in {"active", "deactivated", "suspended"}
    /\ jar \in [Devices -> [refresh : Toks, access : Accesses]]
    /\ call \in [Tabs -> Calls]
    /\ login \in [Devices -> [fam : Families \cup {NoFamily}, evicts : SUBSET Toks]]
    /\ \A d \in Devices : login[d] # NoLogin => login[d].fam \in Families
    /\ ending \in [pc : {"idle", "found", "denied", "deleted"},
                   how : Endings \cup {"none"}, device : Devices \cup {NoDevice},
                   fams : SUBSET Families, keep : Toks]

Act(f, n) == n \in DOMAIN rows[f] /\ rows[f][n] = "active"

LEMMA Mapped ==
    ASSUME NEW s \in Seq(RowKinds), NEW t, DOMAIN t = DOMAIN s, t = [n \in DOMAIN s |-> t[n]],
           \A n \in DOMAIN s : t[n] \in RowKinds
    PROVE  t \in Seq(RowKinds) /\ Len(t) = Len(s)
  BY LenProperties

\* Deleting rows leaves every row where it is.
LEMMA DeleteRows ==
    ASSUME rows \in Rows, NEW STATE S, Delete(S)
    PROVE  /\ rows' \in Rows
           /\ \A f \in Families : DOMAIN rows'[f] = DOMAIN rows[f]
           /\ \A f \in Families : \A n \in DOMAIN rows[f] :
                rows'[f][n] = IF Token(f, n) \in S THEN "deleted" ELSE rows[f][n]
<1>. DEFINE seq(f) == [n \in DOMAIN rows[f] |-> IF Token(f, n) \in S THEN "deleted" ELSE rows[f][n]]
<1>1. ASSUME NEW f \in Families PROVE seq(f) \in Seq(RowKinds)
  <2>1. rows[f] \in Seq(RowKinds) /\ \A n \in DOMAIN rows[f] : rows[f][n] \in RowKinds
    BY LenProperties DEF Rows
  <2>2. \A n \in DOMAIN rows[f] : seq(f)[n] \in RowKinds
    BY <2>1 DEF RowKinds
  <2>. QED  BY <2>1, <2>2, Mapped
<1>2. rows' = [f \in Families |-> seq(f)]
  BY DEF Delete
<1>. QED  BY <1>1, <1>2 DEF Rows

\* A new row comes after the rows of its family; elsewhere rows are deleted.
LEMMA InsertRows ==
    ASSUME rows \in Rows, NEW f \in Families, NEW S, InsertToken(f, S)
    PROVE  /\ rows' \in Rows
           /\ \A g \in Families : DOMAIN rows[g] \subseteq DOMAIN rows'[g]
           /\ \A g \in Families \ {f} : \A n \in DOMAIN rows'[g] : Act(g, n)' => Act(g, n)
           /\ \A n \in DOMAIN rows'[f] : Act(f, n)' => Act(f, n) \/ n = Len(rows[f]) + 1
           /\ Len(rows[f]) + 1 \in DOMAIN rows'[f] /\ Len(rows[f]) \in Nat
<1>. DEFINE seq(g) == [n \in DOMAIN rows[g] |-> IF Token(g, n) \in S THEN "deleted" ELSE rows[g][n]]
<1>1. ASSUME NEW g \in Families
      PROVE  /\ seq(g) \in Seq(RowKinds) /\ Len(seq(g)) = Len(rows[g]) /\ DOMAIN rows[g] = 1..Len(rows[g])
             /\ DOMAIN seq(g) = DOMAIN rows[g] /\ Len(rows[g]) \in Nat
             /\ \A n \in DOMAIN rows[g] : seq(g)[n] = "active" => rows[g][n] = "active"
  <2>1. rows[g] \in Seq(RowKinds) /\ DOMAIN rows[g] = 1..Len(rows[g]) /\ Len(rows[g]) \in Nat
        /\ \A n \in DOMAIN rows[g] : rows[g][n] \in RowKinds
    BY LenProperties DEF Rows
  <2>2. \A n \in DOMAIN rows[g] : seq(g)[n] \in RowKinds
    BY <2>1 DEF RowKinds
  <2>3. seq(g) \in Seq(RowKinds) /\ Len(seq(g)) = Len(rows[g])
    BY <2>1, <2>2, Mapped
  <2>. QED  BY <2>1, <2>3
<1>2. rows' = [g \in Families |-> IF g = f THEN Append(seq(g), "active") ELSE seq(g)]
  BY DEF InsertToken
<1>. HIDE DEF seq
<1>3. /\ Append(seq(f), "active") \in Seq(RowKinds)
      /\ DOMAIN Append(seq(f), "active") = 1..(Len(rows[f]) + 1)
      /\ \A n \in 1..Len(rows[f]) : Append(seq(f), "active")[n] = seq(f)[n]
  BY <1>1 DEF RowKinds
<1>4. rows' \in Rows
  BY <1>1, <1>2, <1>3 DEF Rows
<1>5. \A g \in Families \ {f} : rows'[g] = seq(g)
  BY <1>2
<1>6. rows'[f] = Append(seq(f), "active")
  BY <1>2
<1>. QED  BY <1>1, <1>3, <1>4, <1>5, <1>6 DEF Act

\* A row that is rotated, or whose grace ends, keeps its place.
LEMMA ChangeRow ==
    ASSUME rows \in Rows, NEW f \in Families, NEW n \in DOMAIN rows[f],
           NEW x \in {"fresh", "tomb"}, rows' = [rows EXCEPT ![f][n] = x]
    PROVE  /\ rows' \in Rows
           /\ \A g \in Families : DOMAIN rows'[g] = DOMAIN rows[g]
           /\ \A g \in Families : \A m \in DOMAIN rows[g] : Act(g, m)' <=> Act(g, m) /\ ~(g = f /\ m = n)
<1>1. rows[f] \in Seq(RowKinds) /\ DOMAIN rows[f] = 1..Len(rows[f])
  BY LenProperties DEF Rows
<1>2. /\ [rows[f] EXCEPT ![n] = x] \in Seq(RowKinds)
      /\ DOMAIN [rows[f] EXCEPT ![n] = x] = DOMAIN rows[f]
      /\ \A m \in DOMAIN rows[f] : [rows[f] EXCEPT ![n] = x][m] = IF m = n THEN x ELSE rows[f][m]
  BY <1>1, ExceptSeq, LenProperties DEF RowKinds
<1>3. rows' = [rows EXCEPT ![f] = [rows[f] EXCEPT ![n] = x]]
  OBVIOUS
<1>4. rows' \in Rows /\ rows'[f] = [rows[f] EXCEPT ![n] = x] /\ \A g \in Families \ {f} : rows'[g] = rows[g]
  BY <1>2, <1>3 DEF Rows
<1>. QED  BY <1>2, <1>4 DEF Act

(* --------------------- What a step can do to a session ------------------ *)

Valid(k) == k.fam \in Families /\ k.n \in DOMAIN rows[k.fam]

\* The tokens that are held somewhere have, or had, a row.
References ==
    /\ \A d \in Devices : jar[d].refresh = NoToken \/ Valid(jar[d].refresh)
    /\ \A t \in Tabs : call[t].token = NoToken \/ Valid(call[t].token)
    /\ \A t \in Tabs : call[t].pc \in {"read", "consumed", "counted", "answered"} => Valid(call[t].token)
    /\ ending.keep = NoToken \/ Valid(ending.keep)

\* A tab has consumed the row of f and has not inserted the next one.
Issues(t, f) == call[t].pc \in {"consumed", "counted"} /\ call[t].token.fam = f

\* A session has one active row, or one tab that is about to insert it.
Alone ==
    /\ \A f \in Families : \A m, n : Act(f, m) /\ Act(f, n) => m = n
    /\ \A t \in Tabs, f \in Families : Issues(t, f) => \A n : ~Act(f, n)
    /\ \A t, u \in Tabs, f \in Families : Issues(t, f) /\ Issues(u, f) => t = u

\* A family that a login is about to start has no row, and one login.
Starting ==
    /\ \A d \in Devices, f \in Families : login[d].fam = f => rows[f] = <<>>
    /\ \A d, e \in Devices, f \in Families : login[d].fam = f /\ login[e].fam = f => d = e

Core == Shape /\ References /\ Alone /\ Starting

ByLogin(f, n) == \E d \in Devices : login[d].fam = f /\ rows[f] = <<>> /\ n = 1
ByRefresh(f, n) ==
    \E t \in Tabs : Issues(t, f) /\ call'[t].pc = "answered" /\ n = Len(rows[f]) + 1

\* Rows are never taken away, and become active by an issue only.
RowStep ==
    /\ rows' \in Rows
    /\ \A f \in Families : DOMAIN rows[f] \subseteq DOMAIN rows'[f]
    /\ \A f \in Families : \A n : Act(f, n)' => Act(f, n) \/ ByLogin(f, n) \/ ByRefresh(f, n)
    /\ \A f \in Families : rows[f] = <<>> =>
         rows'[f] = <<>> \/ \E d \in Devices : login[d].fam = f /\ login'[d].fam # f

\* A tab starts to issue by consuming the active row.
IssueStep ==
    \A t \in Tabs, f \in Families : Issues(t, f)' =>
        \/ Issues(t, f)
        \/ /\ call[t].pc = "read" /\ \E n : Act(f, n)
           /\ \A n : ~Act(f, n)'
           /\ \A u \in Tabs \ {t} : call'[u] = call[u]

LoginStep ==
    \A d \in Devices, f \in Families : login'[d].fam = f =>
        \/ login[d].fam = f
        \/ /\ rows[f] = <<>> /\ rows'[f] = <<>>
           /\ \A e \in Devices : login[e].fam # f
           /\ \A e \in Devices \ {d} : login'[e] = login[e]

Effect == RowStep /\ IssueStep /\ LoginStep

LEMMA Unchanged ==
    ASSUME Shape, UNCHANGED <<rows, login>>,
           \A t \in Tabs, f \in Families : Issues(t, f)' => Issues(t, f)
    PROVE  Effect
  BY DEF Effect, RowStep, IssueStep, LoginStep, Shape, Act

\* Alone and Starting follow from the effects.
LEMMA EffectKeeps ==
    ASSUME SessionConstants, Core, Effect
    PROVE  Alone' /\ Starting'
<1>. USE DEF Core
<1>1. \A t \in Tabs, f \in Families : Issues(t, f) => rows[f] # <<>>
  BY DEF References, Issues, Valid
<1>2. \A f \in Families : \A m, n : Act(f, m)' /\ Act(f, n)' => m = n
  <2>. SUFFICES ASSUME NEW f \in Families, NEW m, NEW n, Act(f, m)', Act(f, n)' PROVE m = n
    OBVIOUS
  <2>1. \A k : Act(f, k)' => Act(f, k) \/ ByLogin(f, k) \/ ByRefresh(f, k)
    BY DEF Effect, RowStep
  <2>2. \A k : ByLogin(f, k) => k = 1 /\ rows[f] = <<>>
    BY DEF ByLogin
  <2>3. \A k : ByRefresh(f, k) => k = Len(rows[f]) + 1 /\ \E t \in Tabs : Issues(t, f)
    BY DEF ByRefresh
  <2>4. \A k : Act(f, k) => rows[f] # <<>>
    BY DEF Act
  <2>. QED  BY <1>1, <2>1, <2>2, <2>3, <2>4 DEF Alone
<1>3. \A t \in Tabs, f \in Families : Issues(t, f)' => \A n : ~Act(f, n)'
  <2>. SUFFICES ASSUME NEW t \in Tabs, NEW f \in Families, Issues(t, f)', NEW n, Act(f, n)'
                PROVE FALSE
    OBVIOUS
  <2>1. Issues(t, f)
    BY DEF Effect, IssueStep
  <2>2. Act(f, n) \/ ByLogin(f, n) \/ ByRefresh(f, n)
    BY DEF Effect, RowStep
  <2>3. ~ByRefresh(f, n)
    BY <2>1 DEF ByRefresh, Alone, Issues
  <2>4. ~ByLogin(f, n)
    BY <1>1, <2>1 DEF ByLogin
  <2>. QED  BY <2>1, <2>2, <2>3, <2>4 DEF Alone
<1>4. \A t, u \in Tabs, f \in Families : Issues(t, f)' /\ Issues(u, f)' => t = u
  <2>. SUFFICES ASSUME NEW t \in Tabs, NEW u \in Tabs, NEW f \in Families, Issues(t, f)', Issues(u, f)'
                PROVE t = u
    OBVIOUS
  <2>1. CASE Issues(t, f) /\ Issues(u, f)
    BY <2>1 DEF Alone
  <2>2. CASE ~Issues(t, f) \/ ~Issues(u, f)
    <3>1. \A v \in Tabs : Issues(v, f)' /\ ~Issues(v, f) =>
              call[v].pc = "read" /\ (\E n : Act(f, n)) /\ \A w \in Tabs \ {v} : call'[w] = call[w]
      BY DEF Effect, IssueStep
    <3>2. \A v, w \in Tabs : Issues(v, f)' /\ ~Issues(v, f) /\ v # w /\ Issues(w, f)' => Issues(w, f)
      BY <3>1 DEF Issues
    <3>. QED  BY <2>2, <3>1, <3>2 DEF Alone
  <2>. QED  BY <2>1, <2>2
<1>5. Alone'
  BY <1>2, <1>3, <1>4 DEF Alone
<1>6. \A d \in Devices, f \in Families : login'[d].fam = f => rows'[f] = <<>>
  <2>. SUFFICES ASSUME NEW d \in Devices, NEW f \in Families, login'[d].fam = f, rows'[f] # <<>> PROVE FALSE
    OBVIOUS
  <2>1. login[d].fam = f /\ rows[f] = <<>>
    BY DEF Effect, LoginStep, Starting
  <2>2. \E e \in Devices : login[e].fam = f /\ login'[e].fam # f
    BY <2>1 DEF Effect, RowStep
  <2>. QED  BY <2>1, <2>2 DEF Starting
<1>7. \A d, e \in Devices, f \in Families : login'[d].fam = f /\ login'[e].fam = f => d = e
  BY DEF Effect, LoginStep, Starting
<1>. QED  BY <1>5, <1>6, <1>7 DEF Starting

(* --------------------------- The actions ------------------------------- *)

LEMMA TokenTypes ==
    ASSUME Shape
    PROVE  /\ Tokens \subseteq Toks /\ Evicts \subseteq Toks /\ NoToken \in Toks /\ NoAccess \in Accesses
           /\ \A k \in Tokens : Valid(k)
<1>1. \A f \in Families : DOMAIN rows[f] = 1..Len(rows[f]) /\ Len(rows[f]) \in Nat
  BY LenProperties DEF Shape, Rows
<1>2. Tokens \subseteq Toks
  BY <1>1 DEF Tokens, Token, Toks
<1>. QED  BY <1>2 DEF Evicts, Tokens, Toks, NoToken, Token, NoAccess, Accesses, Valid

Kept == Effect /\ Shape' /\ References'

\* Steps of a refresh that leave the rows as they are.
LEMMA CallSteps ==
    ASSUME SessionConstants, Core, NEW t \in Tabs,
           Request(t) \/ RefreshRefused(t) \/ RefreshRead(t) \/ RefreshCount(t) \/ Deliver(t) \/ Lose(t)
    PROVE  Kept
<1>. USE DEF Core
<1>0. /\ NoToken \in Toks /\ Evicts \subseteq Toks /\ call[t] \in Calls /\ DeviceOf[t] \in Devices
      /\ jar[DeviceOf[t]].refresh \in Toks
  BY TokenTypes DEF SessionConstants, Shape
<1>a. Idle \in Calls /\ Idle.token = NoToken /\ Idle.pc = "idle"
  BY <1>0 DEF Idle, Calls
<1>b. \A k \in Toks : Refresh(k) \in Calls /\ Refresh(k).token = k /\ Refresh(k).pc = "sent"
  BY <1>0 DEF Idle, Calls, Refresh
<1>c. call \in [Tabs -> Calls] /\ call[t].token \in Toks /\ call[t].late \in BOOLEAN
  BY <1>0 DEF Shape, Calls
<1>1. UNCHANGED <<rows, login, ending>> /\ (call' = call \/ \E c : call' = [call EXCEPT ![t] = c])
      /\ denied' = denied /\ account' = account /\ ended' = ended /\ overlapped' = overlapped
  BY DEF Request, RefreshRefused, RefreshRead, RefreshCount, Deliver, Lose, Reject, tokenVars, clientVars, history
<1>2. /\ call'[t] \in Calls
      /\ call'[t].token = NoToken \/ Valid(call'[t].token)
      /\ call'[t].pc \in {"read", "consumed", "counted", "answered"} => Valid(call'[t].token)
      /\ \A f \in Families : Issues(t, f)' => Issues(t, f)
      /\ jar' = jar \/ \E x \in BOOLEAN : jar' = Give(DeviceOf[t], call[t].token, x) /\ Valid(call[t].token)
  <2>1. CASE Request(t)
    BY ZenonT(40), <1>0, <2>1 DEF Request, Refresh, Idle, Calls, Shape, References, clientVars, Issues, Toks
  <2>2. CASE RefreshRefused(t) \/ Lose(t)
    BY <1>a, <1>c, <2>2 DEF RefreshRefused, Lose, Reject, Issues
  <2>3. CASE RefreshRead(t)
    <3>1. call[t].token # NoToken
      BY <2>3 DEF RefreshRead, Kind
    <3>. QED  BY <1>0, <2>3, <3>1 DEF RefreshRead, Calls, Shape, References, Issues
  <2>4. CASE RefreshCount(t)
    BY <1>0, <2>4 DEF RefreshCount, Calls, Shape, References, Issues
  <2>5. CASE Deliver(t)
    <3>1. Valid(call[t].token)
      BY <2>5 DEF Deliver, References
    <3>2. call' = [call EXCEPT ![t] = Idle] \/ call' = [call EXCEPT ![t] = Refresh(call[t].token)]
      BY <2>5 DEF Deliver, Reject
    <3>3. jar' = Give(DeviceOf[t], call[t].token, call[t].late)
      BY <2>5 DEF Deliver
    <3>. QED  BY <1>a, <1>b, <1>c, <3>1, <3>2, <3>3 DEF Issues
  <2>. QED  BY <2>1, <2>2, <2>3, <2>4, <2>5
<1>3. \A u \in Tabs \ {t} : call'[u] = call[u]
  BY <1>1 DEF Shape
<1>4. call' \in [Tabs -> Calls]
  BY <1>1, <1>2 DEF Shape
<1>5. \A u \in Tabs, f \in Families : Issues(u, f)' => Issues(u, f)
  BY <1>2, <1>3 DEF Issues
<1>6. /\ jar' \in [Devices -> [refresh : Toks, access : Accesses]]
      /\ \A d \in Devices : jar'[d].refresh = NoToken \/ Valid(jar'[d].refresh)
  <2>1. CASE jar' = jar
    BY <2>1 DEF Shape, References
  <2>2. CASE \E x \in BOOLEAN : jar' = Give(DeviceOf[t], call[t].token, x) /\ Valid(call[t].token)
    <3>1. PICK x \in BOOLEAN : jar' = Give(DeviceOf[t], call[t].token, x)
      BY <2>2
    <3>. DEFINE given == [refresh |-> call[t].token, access |-> [fam |-> call[t].token.fam, late |-> x]]
    <3>2. given \in [refresh : Toks, access : Accesses] /\ given.refresh = call[t].token
      BY <1>c DEF Accesses, Toks
    <3>3. jar' = [jar EXCEPT ![DeviceOf[t]] = given]
      BY <3>1 DEF Give
    <3>. HIDE DEF given
    <3>. QED  BY <1>0, <2>2, <3>2, <3>3 DEF Shape, References
  <2>. QED  BY <1>2, <2>1, <2>2
<1>7. \A k : Valid(k)' <=> Valid(k)
  BY <1>1 DEF Valid
<1>. QED  BY <1>1, <1>2, <1>3, <1>4, <1>5, <1>6, <1>7, Unchanged DEF Kept, Shape, References

\* Steps that change neither rows nor refresh calls.
LEMMA OtherSteps ==
    ASSUME SessionConstants, Core,
           \/ \E d \in Devices : AccessExpires(d)
           \/ \E how \in Endings, d \in Devices \cup {NoDevice} : EndBegin(how, d)
           \/ EndDeny \/ Reactivate
           \/ \E f \in Families : MarkerExpires(f) \/ SessionAges(f)
    PROVE  Kept
<1>. USE DEF Core
<1>1. UNCHANGED <<rows, login, call, ended, overlapped>>
  BY DEF AccessExpires, EndBegin, EndDeny, Reactivate, MarkerExpires, SessionAges,
         tokenVars, clientVars, history
<1>2. \A k : Valid(k)' <=> Valid(k)
  BY <1>1 DEF Valid
<1>3. Effect
  BY <1>1, Unchanged DEF Issues
<1>4. CASE \E d \in Devices : AccessExpires(d)
  BY <1>1, <1>2, <1>3, <1>4, TokenTypes DEF Kept, Shape, References, AccessExpires, tokenVars, history
<1>5. CASE \E how \in Endings, d \in Devices \cup {NoDevice} : EndBegin(how, d)
  <2>1. PICK how \in Endings, d \in Devices \cup {NoDevice} : EndBegin(how, d)
    BY <1>5
  <2>. DEFINE k == IF d = NoDevice THEN NoToken ELSE jar[d].refresh
  <2>2. k \in Toks /\ (k = NoToken \/ Valid(k))
    BY TokenTypes DEF Shape, References
  <2>3. ActiveFamilies \subseteq Families
    BY DEF ActiveFamilies
  <2>4. \A x \in Tokens : x.fam \in Families
    BY TokenTypes DEF Valid
  <2>5. how = "logout" => k.fam \in Families \cup {NoFamily}
    BY <2>2 DEF Toks
  <2>6. \E F \in SUBSET Families, x \in {k, NoToken} :
           ending' = [pc |-> "found", how |-> how, device |-> d, fams |-> F, keep |-> x]
    BY <2>1, <2>3, <2>4, <2>5 DEF EndBegin, Snapshot, FamilyOf
  <2>. HIDE DEF k
  <2>7. ending'.keep \in {k, NoToken} /\ ending' \in [pc : {"idle", "found", "denied", "deleted"},
                   how : Endings \cup {"none"}, device : Devices \cup {NoDevice},
                   fams : SUBSET Families, keep : Toks]
    BY <2>2, <2>6, TokenTypes
  <2>8. account' \in {"active", "deactivated", "suspended"}
    BY <2>1 DEF EndBegin, Shape
  <2>. QED  BY <1>1, <1>2, <1>3, <2>1, <2>2, <2>7, <2>8 DEF Kept, Shape, References, EndBegin, clientVars
<1>6. CASE EndDeny
  <2>1. ending' = [ending EXCEPT !.pc = "denied"] \/ ending' = NoEnding
    BY <1>6 DEF EndDeny
  <2>2. ending'.keep \in {ending.keep, NoToken} /\ ending' \in [pc : {"idle", "found", "denied", "deleted"},
                   how : Endings \cup {"none"}, device : Devices \cup {NoDevice},
                   fams : SUBSET Families, keep : Toks]
    BY <2>1, TokenTypes DEF NoEnding, Shape
  <2>3. denied' \subseteq Families
    BY <1>6 DEF EndDeny, Shape
  <2>. QED  BY <1>1, <1>2, <1>3, <1>6, <2>2, <2>3 DEF Kept, Shape, References, EndDeny, clientVars
<1>7. CASE Reactivate \/ \E f \in Families : MarkerExpires(f) \/ SessionAges(f)
  BY <1>1, <1>2, <1>3, <1>7
  DEF Kept, Shape, References, Reactivate, MarkerExpires, SessionAges, clientVars
<1>. QED  BY <1>4, <1>5, <1>6, <1>7

LEMMA LoginReadStep ==
    ASSUME SessionConstants, Core, NEW d \in Devices, LoginRead(d)
    PROVE  Kept
<1>. USE DEF Core
<1>1. PICK f \in Families : /\ rows[f] = <<>> /\ \A e \in Devices : login[e].fam # f
                           /\ login' = [login EXCEPT ![d] = [fam |-> f, evicts |-> Evicts]]
  BY DEF LoginRead
<1>2. UNCHANGED <<rows, denied, account, jar, call, ending, ended, overlapped>>
  BY DEF LoginRead, tokenVars
<1>3. login' \in [Devices -> [fam : Families \cup {NoFamily}, evicts : SUBSET Toks]]
  BY <1>1, TokenTypes DEF Shape
<1>4. login'[d].fam = f /\ \A e \in Devices \ {d} : login'[e] = login[e]
  BY <1>1 DEF Shape
<1>5. LoginStep
  BY <1>1, <1>2, <1>4 DEF LoginStep
<1>6. RowStep /\ IssueStep
  BY <1>2 DEF RowStep, IssueStep, Shape, Act, Issues
<1>7. \A e \in Devices : login'[e] # NoLogin => login'[e].fam \in Families
  BY <1>4 DEF Shape
<1>. QED  BY <1>2, <1>3, <1>5, <1>6, <1>7 DEF Kept, Effect, Shape, References, Valid

LEMMA ClearJar ==
    ASSUME Core, NEW d \in Devices, jar' = Clear(d)
    PROVE  /\ jar' \in [Devices -> [refresh : Toks, access : Accesses]]
           /\ \A e \in Devices : jar'[e].refresh = NoToken \/ jar'[e].refresh = jar[e].refresh
<1>1. [refresh |-> NoToken, access |-> NoAccess] \in [refresh : Toks, access : Accesses]
  BY TokenTypes DEF Core
<1>. QED  BY <1>1 DEF Core, Shape, Clear

LEMMA EndCall ==
    ASSUME Core, NEW t \in Tabs, Reject(t)
    PROVE  /\ call' \in [Tabs -> Calls] /\ call'[t] = Idle
           /\ \A u \in Tabs \ {t} : call'[u] = call[u]
           /\ \A u \in Tabs : call'[u] = Idle \/ call'[u] = call[u]
           /\ Idle.token = NoToken /\ Idle.pc = "idle"
<1>1. Idle \in Calls /\ Idle.token = NoToken /\ Idle.pc = "idle"
  BY TokenTypes DEF Core, Idle, Calls
<1>. QED  BY <1>1 DEF Core, Shape, Reject

\* Steps that delete rows.
LEMMA DeletingSteps ==
    ASSUME SessionConstants, Core,
           \/ \E t \in Tabs : RefreshReused(t) \/ RefreshTooOld(t) \/ RefreshBarred(t)
           \/ EndDelete
    PROVE  Kept
<1>. USE DEF Core
<1>1. PICK S : Delete(S)
  BY DEF RefreshReused, RefreshTooOld, Revoke, RefreshBarred, EndDelete
<1>2. /\ rows' \in Rows
      /\ \A f \in Families : DOMAIN rows'[f] = DOMAIN rows[f]
      /\ \A f \in Families : \A n : Act(f, n)' => Act(f, n)
  BY SMTT(40), <1>1, DeleteRows DEF Shape, Act
<1>3. \A f \in Families : rows[f] = <<>> => rows'[f] = <<>>
  <2>1. ASSUME NEW f \in Families, rows[f] = <<>> PROVE rows'[f] = <<>>
    BY <1>2, <2>1, EmptySeq, LenProperties DEF Rows, Shape
  <2>. QED  BY <2>1
<1>4. \A k : Valid(k)' <=> Valid(k)
  BY <1>2 DEF Valid
<1>5. ASSUME NEW t \in Tabs, RefreshReused(t) \/ RefreshTooOld(t) \/ RefreshBarred(t) PROVE Kept
  <2>1. /\ Reject(t) /\ jar' = Clear(DeviceOf[t]) /\ DeviceOf[t] \in Devices
        /\ UNCHANGED <<login, ending, account>>
    BY <1>5 DEF RefreshReused, RefreshTooOld, Revoke, RefreshBarred, SessionConstants
  <2>2. \A u \in Tabs, f \in Families : Issues(u, f)' => Issues(u, f)
    BY <2>1, EndCall DEF Issues
  <2>3. Effect
    BY <1>2, <1>3, <2>1, <2>2 DEF Effect, RowStep, IssueStep, LoginStep
  <2>4. References'
    BY <1>4, <2>1, EndCall, ClearJar DEF References
  <2>5. RefreshReused(t) \/ RefreshTooOld(t) => call[t].token.fam \in Families
    BY <1>5 DEF RefreshReused, RefreshTooOld, IsReuse, Kind, References, Valid
  <2>6. RefreshBarred(t) => call[t].token.fam \in Families
    BY DEF RefreshBarred, References, Valid
  <2>7. denied' \subseteq Families /\ ended' \subseteq Families /\ overlapped' \subseteq Families
    BY <1>5, <2>5, <2>6 DEF RefreshReused, RefreshTooOld, Revoke, RefreshBarred, Shape, ActiveFamilies
  <2>. QED  BY <1>2, <2>1, <2>3, <2>4, <2>7, EndCall, ClearJar DEF Kept, Shape
<1>6. CASE EndDelete
  <2>1. UNCHANGED <<login, call, account, denied>>
    BY <1>6 DEF EndDelete
  <2>2. Effect
    BY <1>2, <1>3, <2>1 DEF Effect, RowStep, IssueStep, LoginStep, Issues
  <2>3. ending' = NoEnding \/ ending' = [ending EXCEPT !.pc = "deleted"]
    BY <1>6 DEF EndDelete
  <2>4. ending'.keep \in {ending.keep, NoToken} /\ ending' \in [pc : {"idle", "found", "denied", "deleted"},
                   how : Endings \cup {"none"}, device : Devices \cup {NoDevice},
                   fams : SUBSET Families, keep : Toks]
    BY <2>3, TokenTypes DEF NoEnding, Shape
  <2>5. ended' \subseteq Families /\ overlapped' \subseteq Families
    BY <1>6 DEF EndDelete, Shape, ActiveFamilies
  <2>6. /\ jar' \in [Devices -> [refresh : Toks, access : Accesses]]
        /\ \A e \in Devices : jar'[e].refresh = NoToken \/ jar'[e].refresh = jar[e].refresh
    <3>1. CASE jar' = jar
      BY <3>1 DEF Shape
    <3>2. CASE jar' = Clear(ending.device) /\ ending.device \in Devices
      BY <3>2, ClearJar
    <3>3. CASE jar' = Clear(ending.device) /\ ending.device \notin Devices
      BY <3>3 DEF Clear, Shape
    <3>. QED  BY <1>6, <3>1, <3>2, <3>3 DEF EndDelete
  <2>. QED  BY <1>2, <1>4, <2>1, <2>2, <2>4, <2>5, <2>6 DEF Kept, Shape, References
<1>. QED  BY <1>5, <1>6

\* A row is consumed, or its grace ends.
LEMMA RowSteps ==
    ASSUME SessionConstants, Core,
           (\E t \in Tabs : RefreshConsume(t)) \/ (\E k \in Tokens : GraceEnds(k))
    PROVE  Kept
<1>. USE DEF Core
<1>1. ASSUME NEW t \in Tabs, RefreshConsume(t) PROVE Kept
  <2>. DEFINE k == call[t].token
  <2>1. UNCHANGED <<denied, account, jar, login, ending, ended, overlapped>> /\ k \in Toks
    BY <1>1 DEF RefreshConsume, history, Shape, Calls
  <2>2. CASE ~Wins(k)
    <3>1. Reject(t) /\ UNCHANGED rows
      BY <1>1, <2>2 DEF RefreshConsume
    <3>2. Effect
      BY <2>1, <3>1, EndCall, Unchanged DEF Issues
    <3>. QED  BY <2>1, <3>1, <3>2, EndCall DEF Kept, Shape, References, Valid
  <2>3. CASE Wins(k)
    <3>1. Valid(k) /\ Act(k.fam, k.n)
      BY <1>1, <2>3 DEF RefreshConsume, References, Wins, Kind, Act, Valid
    <3>2. rows' = [rows EXCEPT ![k.fam][k.n] = "fresh"] /\ call' = [call EXCEPT ![t].pc = "consumed"]
          /\ call[t].pc = "read"
      BY <1>1, <2>3 DEF RefreshConsume
    <3>3. /\ rows' \in Rows
          /\ \A g \in Families : DOMAIN rows'[g] = DOMAIN rows[g]
          /\ \A g \in Families : \A m \in DOMAIN rows[g] :
                Act(g, m)' <=> Act(g, m) /\ ~(g = k.fam /\ m = k.n)
      BY <3>1, <3>2, ChangeRow DEF Shape, Valid
    <3>4. \A f \in Families : rows[f] = <<>> => rows'[f] = <<>>
      <4>1. ASSUME NEW f \in Families, rows[f] = <<>> PROVE rows'[f] = <<>>
        BY <3>3, <4>1, EmptySeq, LenProperties DEF Rows, Shape
      <4>. QED  BY <4>1
    <3>5. RowStep
      BY <3>3, <3>4 DEF RowStep, Act
    <3>6. /\ call' \in [Tabs -> Calls] /\ call'[t].pc = "consumed" /\ call'[t].token = k
          /\ \A u \in Tabs \ {t} : call'[u] = call[u]
      <4>. DEFINE c == [call[t] EXCEPT !.pc = "consumed"]
      <4>1. c \in Calls /\ c.pc = "consumed" /\ c.token = k
        <5>1. call[t] \in Calls
          BY DEF Shape
        <5>. QED  BY <5>1 DEF Calls
      <4>2. call' = [call EXCEPT ![t] = c]
        BY <3>2 DEF Shape
      <4>. HIDE DEF c
      <4>. QED  BY <4>1, <4>2 DEF Shape
    <3>7. \A f \in Families : f = k.fam => \A n : ~Act(f, n)'
      <4>. SUFFICES ASSUME NEW f \in Families, f = k.fam, NEW n, Act(f, n)' PROVE FALSE
        OBVIOUS
      <4>1. n \in DOMAIN rows[f]
        BY <3>3 DEF Act
      <4>2. Act(f, n) /\ n # k.n
        BY <3>3, <4>1
      <4>. QED  BY <3>1, <4>1, <4>2 DEF Alone
    <3>8. IssueStep
      BY <3>1, <3>2, <3>6, <3>7 DEF IssueStep, Issues
    <3>9. LoginStep
      BY <2>1 DEF LoginStep
    <3>. HIDE DEF k
    <3>10. \A x : Valid(x)' <=> Valid(x)
      BY <3>3 DEF Valid
    <3>. QED  BY <2>1, <3>1, <3>3, <3>5, <3>6, <3>8, <3>9, <3>10 DEF Kept, Effect, Shape, References, k
  <2>. QED  BY <2>2, <2>3
<1>2. ASSUME NEW k \in Tokens, GraceEnds(k) PROVE Kept
  <2>1. UNCHANGED <<denied, account, jar, call, login, ending, ended, overlapped>>
    BY <1>2 DEF GraceEnds, clientVars
  <2>2. Valid(k) /\ rows' = [rows EXCEPT ![k.fam][k.n] = "tomb"]
    BY <1>2, TokenTypes DEF GraceEnds
  <2>3. /\ rows' \in Rows
        /\ \A g \in Families : DOMAIN rows'[g] = DOMAIN rows[g]
        /\ \A g \in Families : \A m \in DOMAIN rows[g] : Act(g, m)' => Act(g, m)
    BY <2>2, ChangeRow DEF Shape, Valid
  <2>4. \A f \in Families : rows[f] = <<>> => rows'[f] = <<>>
    <3>1. ASSUME NEW f \in Families, rows[f] = <<>> PROVE rows'[f] = <<>>
      BY <2>3, <3>1, EmptySeq, LenProperties DEF Rows, Shape
    <3>. QED  BY <3>1
  <2>5. Effect
    BY <2>1, <2>3, <2>4 DEF Effect, RowStep, IssueStep, LoginStep, Act, Issues
  <2>6. \A x : Valid(x)' <=> Valid(x)
    BY <2>3 DEF Valid
  <2>. QED  BY <2>1, <2>3, <2>5, <2>6 DEF Kept, Shape, References
<1>. QED  BY <1>1, <1>2

\* New rows.
LEMMA IssuingSteps ==
    ASSUME SessionConstants, Core,
           (\E d \in Devices : LoginIssue(d)) \/ (\E t \in Tabs : RefreshIssue(t))
    PROVE  Kept
<1>. USE DEF Core
<1>1. ASSUME NEW f \in Families, NEW S, InsertToken(f, S)
      PROVE  /\ rows' \in Rows
             /\ \A g \in Families : DOMAIN rows[g] \subseteq DOMAIN rows'[g]
             /\ \A k : Valid(k) => Valid(k)'
             /\ \A g \in Families \ {f} : rows[g] = <<>> => rows'[g] = <<>>
             /\ Len(rows[f]) + 1 \in DOMAIN rows'[f] /\ Len(rows[f]) \in Nat
             /\ overlapped' \subseteq Families
  <2>1. \A g \in Families \ {f} : DOMAIN rows'[g] = DOMAIN rows[g]
    BY <1>1 DEF InsertToken
  <2>2. /\ rows' \in Rows
        /\ \A g \in Families : DOMAIN rows[g] \subseteq DOMAIN rows'[g]
        /\ Len(rows[f]) + 1 \in DOMAIN rows'[f] /\ Len(rows[f]) \in Nat
    BY <1>1, InsertRows DEF Shape
  <2>3. ASSUME NEW g \in Families \ {f}, rows[g] = <<>> PROVE rows'[g] = <<>>
    BY <2>1, <2>2, <2>3, EmptySeq, LenProperties DEF Rows, Shape
  <2>. QED  BY <1>1, <2>2, <2>3 DEF Valid, InsertToken, Shape
<1>2. ASSUME NEW d \in Devices, LoginIssue(d) PROVE Kept
  <2>1. PICK f \in Families : login[d].fam = f /\ rows[f] = <<>>
    BY <1>2 DEF LoginIssue, Shape, Starting
  <2>2. /\ InsertToken(f, login[d].evicts) /\ jar' = Give(d, Token(f, 1), FALSE)
        /\ login' = [login EXCEPT ![d] = NoLogin]
        /\ UNCHANGED <<denied, account, call, ending, ended>>
    BY <1>2, <2>1 DEF LoginIssue
  <2>3. Token(f, 1) \in Toks /\ Valid(Token(f, 1))'
    BY <1>1, <2>1, <2>2, EmptySeq DEF Token, Toks, Valid
  <2>4. /\ jar' \in [Devices -> [refresh : Toks, access : Accesses]]
        /\ \A e \in Devices : (jar[e].refresh = NoToken \/ Valid(jar[e].refresh))'
    <3>. DEFINE given == [refresh |-> Token(f, 1), access |-> [fam |-> f, late |-> FALSE]]
    <3>1. given \in [refresh : Toks, access : Accesses] /\ given.refresh = Token(f, 1)
      BY <2>1, <2>3 DEF Accesses
    <3>2. jar' = [jar EXCEPT ![d] = given]
      BY <2>2 DEF Give, Token
    <3>. HIDE DEF given
    <3>3. \A e \in Devices : jar'[e].refresh = Token(f, 1) \/ jar'[e].refresh = jar[e].refresh
      BY <3>1, <3>2 DEF Shape
    <3>4. \A x : Valid(x) => Valid(x)'
      BY <1>1, <2>1, <2>2
    <3>. QED  BY <2>3, <3>1, <3>2, <3>3, <3>4 DEF Shape, References
  <2>5. /\ login' \in [Devices -> [fam : Families \cup {NoFamily}, evicts : SUBSET Toks]]
        /\ login'[d] = NoLogin /\ NoLogin.fam \notin Families
        /\ \A e \in Devices \ {d} : login'[e] = login[e]
    BY <2>2 DEF Shape, NoLogin, SessionConstants
  <2>6. \A g \in Families : \A n : Act(g, n)' => Act(g, n) \/ ByLogin(g, n)
    BY <2>1, <2>2, InsertRows, EmptySeq DEF Shape, Act, ByLogin
  <2>7. RowStep
    BY <1>1, <2>1, <2>2, <2>5, <2>6 DEF RowStep
  <2>8. IssueStep /\ LoginStep
    BY <2>2, <2>5 DEF IssueStep, LoginStep, Issues
  <2>9. \A e \in Devices : login'[e] # NoLogin => login'[e].fam \in Families
    BY <2>5 DEF Shape
  <2>. QED  BY <1>1, <2>1, <2>2, <2>4, <2>5, <2>7, <2>8, <2>9 DEF Kept, Effect, Shape, References
<1>3. ASSUME NEW t \in Tabs, RefreshIssue(t) PROVE Kept
  <2>1. PICK f \in Families : call[t].token.fam = f /\ Issues(t, f)
    BY <1>3 DEF RefreshIssue, References, Valid, Issues
  <2>0. PICK k : k = Token(f, Len(rows[f]) + 1)
    OBVIOUS
  <2>. DEFINE c == [pc |-> "answered", evicts |-> {}, token |-> k, late |-> f \in denied]
  <2>2. /\ InsertToken(f, call[t].evicts) /\ call' = [call EXCEPT ![t] = c]
        /\ UNCHANGED <<denied, account, jar, login, ending, ended>>
    BY <1>3, <2>0, <2>1 DEF RefreshIssue
  <2>3. k \in Toks /\ Valid(k)'
    BY <1>1, <2>0, <2>1, <2>2 DEF Token, Toks, Valid
  <2>4. c \in Calls /\ c.pc = "answered" /\ c.token = k
    BY <2>3 DEF Calls, Shape
  <2>. HIDE DEF c
  <2>5. /\ call' \in [Tabs -> Calls] /\ call'[t] = c
        /\ \A u \in Tabs \ {t} : call'[u] = call[u]
    BY <2>2, <2>4 DEF Shape
  <2>6. \A g \in Families : \A n : Act(g, n)' => Act(g, n) \/ ByRefresh(g, n)
    BY <2>1, <2>2, <2>4, <2>5, InsertRows DEF Shape, Act, ByRefresh
  <2>7. rows[f] # <<>>
    BY <1>3, <2>1 DEF RefreshIssue, References, Valid
  <2>8. RowStep
    BY <1>1, <2>1, <2>2, <2>6, <2>7 DEF RowStep
  <2>9. IssueStep /\ LoginStep
    BY <2>2, <2>4, <2>5 DEF IssueStep, LoginStep, Issues
  <2>. QED  BY <1>1, <2>1, <2>2, <2>3, <2>4, <2>5, <2>8, <2>9 DEF Kept, Effect, Shape, References
<1>. QED  BY <1>2, <1>3

LEMMA EveryStep ==
    ASSUME SessionConstants, Core, [Next]_vars
    PROVE  Kept
<1>1. CASE UNCHANGED vars
  BY <1>1, Unchanged DEF Kept, Core, vars, tokenVars, clientVars, history, Shape, References, Valid, Issues
<1>2. CASE Next
  BY <1>2, CallSteps, OtherSteps, LoginReadStep, DeletingSteps, RowSteps, IssuingSteps DEF Next, RefreshStep
<1>. QED  BY <1>1, <1>2

LEMMA CoreKept ==
    ASSUME SessionConstants, Core, [Next]_vars
    PROVE  Core'
  BY EveryStep, EffectKeeps DEF Kept, Core

LEMMA CoreInit == SessionConstants /\ Init => Core
<1>. SUFFICES ASSUME SessionConstants, Init PROVE Core
    OBVIOUS
  <1>1. NoToken \in Toks /\ NoAccess \in Accesses
    BY DEF NoToken, Token, Toks, NoAccess, Accesses
  <1>2. Idle \in Calls /\ Idle.pc = "idle" /\ Idle.token = NoToken
    BY <1>1 DEF Idle, Calls
  <1>3. rows \in Rows /\ \A f \in Families : rows[f] = <<>>
    BY EmptySeq DEF Init, Rows
  <1>4. NoLogin.fam \notin Families /\ NoLogin \in [fam : Families \cup {NoFamily}, evicts : SUBSET Toks]
    BY DEF NoLogin, SessionConstants
  <1>5. Shape
    BY <1>1, <1>2, <1>3, <1>4 DEF Init, Shape, NoEnding
  <1>6. References
    BY <1>1, <1>2 DEF Init, References, NoEnding
  <1>7. Alone
    BY <1>2, <1>3 DEF Init, Alone, Act, Issues
  <1>8. Starting
    BY <1>3, <1>4 DEF Init, Starting
  <1>. QED  BY <1>5, <1>6, <1>7, <1>8 DEF Core

THEOREM CoreHolds == Spec => []Core
<1>1. SessionConstants
  BY SessionConstants
<1>2. Init => Core
  BY <1>1, CoreInit
<1>3. Core /\ [Next]_vars => Core'
  BY <1>1, CoreKept
<1>. QED  BY <1>2, <1>3, PTL DEF Spec

\* OneActiveRow, from Alone: however many tabs refresh a session, it has one
\* row that can be used.
THEOREM OneRow == Spec => []OneActiveRow
<1>1. Core => OneActiveRow
  <2>. SUFFICES ASSUME Core, NEW f \in Families
                PROVE  Cardinality({ n \in DOMAIN rows[f] : rows[f][n] = "active" }) <= 1
    BY DEF OneActiveRow
  <2>. DEFINE A == { n \in DOMAIN rows[f] : rows[f][n] = "active" }
  <2>1. A = {} \/ \E n : A = {n}
    <3>1. ASSUME NEW n \in A PROVE A = {n}
      BY <3>1 DEF Core, Alone, Act
    <3>. QED  BY <3>1
  <2>2. CASE A = {}
    BY <2>2, FS_EmptySet
  <2>3. CASE \E n : A = {n}
    <3>1. PICK n : A = {n}
      BY <2>3
    <3>2. Cardinality({n}) = 1
      BY FS_Singleton
    <3>. QED  BY <3>1, <3>2
  <2>. QED  BY <2>1, <2>2, <2>3
<1>. QED  BY <1>1, CoreHolds, PTL

(* ------------------------- Sessions that ended -------------------------- *)

\* Nobody can use a row of f, or is about to insert one.
Quiet(f) == rows[f] # <<>> /\ (\A n : ~Act(f, n)) /\ \A t \in Tabs : ~Issues(t, f)
Gone(f) == f \in overlapped \/ Quiet(f)

\* An access token of f is in a cookie, or on its way there.
Held(f) == \/ \E d \in Devices : jar[d].access.fam = f
           \/ \E t \in Tabs : call[t].pc = "answered" /\ call[t].token.fam = f
\* ... and was signed after f came to the denylist.
Late(f) == \/ \E d \in Devices : jar[d].access = [fam |-> f, late |-> TRUE]
           \/ \E t \in Tabs : call[t].pc = "answered" /\ call[t].token.fam = f /\ call[t].late
Out(f) == f \in overlapped \cup missed \cup denied \/ ~Held(f)

EveryFamily == {"reset", "staff", "deactivate", "suspend", "password"}

\* What is left of a session at each point of the call that ends it.
Ghost ==
    /\ \A f \in ended : Gone(f)
    /\ \A f \in Families : Late(f) => f \in overlapped
    /\ \A f \in denied : Gone(f) \/ (ending.pc = "denied" /\ f \in ending.fams)
    /\ ending.pc = "deleted" => \A f \in ending.fams : Gone(f)
    /\ ending.pc = "denied" => \A f \in ending.fams : Out(f)
    /\ ending.pc \in {"found", "denied"} /\ ending.how \in EveryFamily =>
         \A f \in Families : (\E n : Act(f, n)) /\ f # ending.keep.fam => f \in ending.fams \cup overlapped
    /\ \A f \in ended : Out(f) \/ (ending.pc = "deleted" /\ f \in ending.fams)
    /\ \A f \in ending.fams : rows[f] # <<>>
    /\ ending.how = "password" => ending.keep.fam \notin ending.fams
    /\ ending.how = "none" => ending.pc = "idle"
    /\ ending.pc = "denied" => ending.how \in DenyFirst
    /\ ending.pc = "deleted" => ending.how \notin DenyFirst

New(f) == ending.pc = "idle" \/ f \in overlapped'

\* What a step can add while sessions end.
Spread ==
    /\ overlapped \subseteq overlapped' /\ missed \subseteq missed'
    /\ \A f \in Families : \A n : Act(f, n)' => Act(f, n) \/ New(f)
    /\ \A f \in Families : Held(f)' =>
         \/ Held(f)
         \/ New(f) /\ ((\E t \in Tabs : Issues(t, f)) \/ \E d \in Devices : login[d].fam = f)
    /\ \A f \in Families : Late(f)' =>
         Late(f) \/ (New(f) /\ f \in denied /\ \E t \in Tabs : Issues(t, f))

LEMMA QuietKept ==
    ASSUME Core, Effect, NEW f \in Families, Quiet(f)
    PROVE  Quiet(f)'
<1>1. \A d \in Devices : login[d].fam # f
  BY DEF Core, Starting, Quiet
<1>2. \A n : ~Act(f, n)'
  BY DEF Effect, RowStep, ByLogin, ByRefresh, Quiet
<1>3. \A t \in Tabs : ~Issues(t, f)'
  BY DEF Effect, IssueStep, Quiet
<1>4. rows'[f] # <<>>
  <2>1. rows[f] \in Seq(RowKinds) /\ rows[f] # <<>>
    BY DEF Core, Shape, Rows, Quiet
  <2>2. 1 \in DOMAIN rows[f]
    BY <2>1, EmptySeq, LenProperties
  <2>3. 1 \in DOMAIN rows'[f]
    BY <2>2 DEF Effect, RowStep
  <2>. QED  BY <2>3
<1>. QED  BY <1>2, <1>3, <1>4 DEF Quiet

LEMMA GoneKept ==
    ASSUME Core, Effect, Spread, NEW f \in Families, Gone(f)
    PROVE  Gone(f)'
  BY QuietKept DEF Gone, Spread

LEMMA OutKept ==
    ASSUME Core, Spread, Ghost, NEW f \in Families, Out(f),
           Gone(f) \/ ending.pc # "idle",
           f \in denied => f \in denied' \/ ~Held(f) \/ Late(f)
    PROVE  Out(f)'
<1>1. CASE f \in overlapped \cup missed \cup denied'
  BY <1>1 DEF Out, Spread
<1>2. CASE f \in denied /\ Late(f)
  BY <1>2 DEF Ghost, Out, Spread
<1>3. CASE ~Held(f)
  <2>1. Held(f)' => f \in overlapped'
    BY <1>3 DEF Spread, New, Gone, Quiet, Core, Starting
  <2>. QED  BY <2>1 DEF Out
<1>. QED  BY <1>1, <1>2, <1>3 DEF Out

LEMMA LateKept ==
    ASSUME Spread, Ghost, NEW f \in Families, Late(f)'
    PROVE  f \in overlapped'
  BY DEF Spread, Ghost, Gone, Quiet, New

LEMMA RowsStay ==
    ASSUME Core, Effect, NEW f \in Families, rows[f] # <<>>
    PROVE  rows'[f] # <<>>
<1>1. 1 \in DOMAIN rows[f]
  BY EmptySeq, LenProperties DEF Core, Shape, Rows
<1>. QED  BY <1>1 DEF Effect, RowStep

\* Steps that are no part of the call that ends sessions.
LEMMA GhostElsewhere ==
    ASSUME Core, Core', Effect, Spread, Ghost, ending' = ending,
           \A f \in ended' \ ended : Gone(f)' /\ f \in denied',
           \A f \in denied' \ denied : Gone(f)',
           \A f \in denied \ denied' : ~Held(f) \/ Late(f)
    PROVE  Ghost'
<1>0. /\ ended \subseteq Families /\ denied \subseteq Families /\ ending.fams \subseteq Families
  BY DEF Core, Shape
<1>1. \A f \in ended' : Gone(f)'
  BY <1>0, GoneKept DEF Ghost
<1>2. \A f \in Families : Late(f)' => f \in overlapped'
  BY LateKept
<1>3. \A f \in denied' : Gone(f)' \/ (ending'.pc = "denied" /\ f \in ending'.fams)
  BY <1>0, GoneKept DEF Ghost
<1>4. ending'.pc = "deleted" => \A f \in ending'.fams : Gone(f)'
  BY <1>0, GoneKept DEF Ghost
<1>5. ending'.pc = "denied" => \A f \in ending'.fams : Out(f)'
  BY <1>0, OutKept DEF Ghost
<1>6. ending'.pc \in {"found", "denied"} /\ ending'.how \in EveryFamily =>
         \A f \in Families : (\E n : Act(f, n)') /\ f # ending'.keep.fam => f \in ending'.fams \cup overlapped'
  BY DEF Ghost, Spread, New
<1>7. \A f \in ended' : Out(f)' \/ (ending'.pc = "deleted" /\ f \in ending'.fams)
  <2>. SUFFICES ASSUME NEW f \in ended' PROVE Out(f)' \/ (ending'.pc = "deleted" /\ f \in ending'.fams)
    OBVIOUS
  <2>1. CASE f \in ended
    BY <1>0, <2>1, OutKept DEF Ghost
  <2>2. CASE f \notin ended
    BY <2>2 DEF Out
  <2>. QED  BY <2>1, <2>2
<1>8. \A f \in ending'.fams : rows'[f] # <<>>
  BY <1>0, RowsStay DEF Ghost
<1>9. /\ ending'.how = "password" => ending'.keep.fam \notin ending'.fams
      /\ ending'.how = "none" => ending'.pc = "idle"
      /\ ending'.pc = "denied" => ending'.how \in DenyFirst
      /\ ending'.pc = "deleted" => ending'.how \notin DenyFirst
  BY DEF Ghost
<1>. QED  BY <1>1, <1>2, <1>3, <1>4, <1>5, <1>6, <1>7, <1>8, <1>9 DEF Ghost

LEMMA Narrow ==
    ASSUME SessionConstants, Core, overlapped \subseteq overlapped', missed \subseteq missed',
           \A f \in Families : \A n : Act(f, n)' => Act(f, n),
           \A d \in Devices : jar'[d].access = jar[d].access \/ jar'[d].access = NoAccess,
           \A t \in Tabs : call'[t].pc = "answered" => call'[t] = call[t]
    PROVE  Spread
<1>1. NoAccess.fam \notin Families
  BY DEF NoAccess, SessionConstants
<1>2. \A f \in Families : Held(f)' => Held(f)
  BY <1>1 DEF Held
<1>3. \A f \in Families : Late(f)' => Late(f)
  <2>1. \A f \in Families : NoAccess # [fam |-> f, late |-> TRUE]
    BY <1>1
  <2>. QED  BY <2>1 DEF Late
<1>. QED  BY <1>2, <1>3 DEF Spread

LEMMA NarrowCalls ==
    ASSUME SessionConstants, Core, NEW t \in Tabs,
           \/ Request(t) \/ RefreshRefused(t) \/ RefreshRead(t) \/ RefreshConsume(t)
           \/ RefreshCount(t) \/ Lose(t)
    PROVE  Spread /\ UNCHANGED <<ending, ended, denied>>
<1>1. UNCHANGED <<ending, ended, denied, jar, overlapped, missed>>
  BY DEF Request, RefreshRefused, RefreshRead, RefreshConsume, RefreshCount, Lose, tokenVars, history
<1>2. \A u \in Tabs \ {t} : call'[u] = call[u]
  BY DEF Request, RefreshRefused, RefreshRead, RefreshConsume, RefreshCount, Lose, Reject, Core, Shape
<1>3. call'[t].pc # "answered" \/ call'[t] = call[t]
  <2>1. call[t] \in Calls
    BY DEF Core, Shape
  <2>2. Idle.pc = "idle" /\ \A k : Refresh(k).pc = "sent"
    BY DEF Idle, Refresh
  <2>3. CASE call' = [call EXCEPT ![t] = Idle]
    BY <2>2, <2>3 DEF Core, Shape
  <2>4. CASE Request(t)
    BY <2>2, <2>4 DEF Request, Core, Shape
  <2>5. CASE \E x \in {"read", "consumed"} : call' = [call EXCEPT ![t].pc = x]
    BY <2>1, <2>5 DEF Core, Shape, Calls
  <2>6. CASE RefreshCount(t)
    BY <2>1, <2>6 DEF RefreshCount, Core, Shape, Calls
  <2>. QED  BY <2>3, <2>4, <2>5, <2>6 DEF RefreshRefused, RefreshRead, RefreshConsume, Lose, Reject
<1>4. \A f \in Families : \A n : Act(f, n)' => Act(f, n)
  <2>1. CASE rows' = rows
    BY <2>1 DEF Act
  <2>2. CASE RefreshConsume(t) /\ Wins(call[t].token)
    <3>1. PICK k : k = call[t].token
      OBVIOUS
    <3>2. Valid(k) /\ rows' = [rows EXCEPT ![k.fam][k.n] = "fresh"]
      BY <2>2, <3>1 DEF RefreshConsume, Core, References
    <3>. QED  BY <3>2, ChangeRow DEF Core, Shape, Valid, Act
  <2>. QED  BY <2>1, <2>2
       DEF Request, RefreshRefused, RefreshRead, RefreshConsume, RefreshCount, Lose, tokenVars
<1>. QED  BY <1>1, <1>2, <1>3, <1>4, Narrow

LEMMA NarrowTime ==
    ASSUME SessionConstants, Core,
           \/ \E d \in Devices : LoginRead(d) \/ AccessExpires(d)
           \/ \E k \in Tokens : GraceEnds(k)
           \/ \E how \in Endings, d \in Devices \cup {NoDevice} : EndBegin(how, d)
           \/ EndDeny \/ Reactivate
           \/ \E f \in Families : MarkerExpires(f) \/ SessionAges(f)
    PROVE  Spread
<1>1. call' = call /\ overlapped' = overlapped /\ missed \subseteq missed'
  BY DEF LoginRead, AccessExpires, GraceEnds, EndBegin, EndDeny, Reactivate, MarkerExpires, SessionAges,
         tokenVars, clientVars, history
<1>2. \A e \in Devices : jar'[e].access = jar[e].access \/ jar'[e].access = NoAccess
  <2>1. ASSUME NEW d \in Devices, AccessExpires(d)
        PROVE  \A e \in Devices : jar'[e].access = jar[e].access \/ jar'[e].access = NoAccess
    BY <2>1 DEF AccessExpires, Core, Shape
  <2>2. CASE jar' = jar
    BY <2>2
  <2>. QED  BY <2>1, <2>2
       DEF LoginRead, GraceEnds, EndBegin, EndDeny, Reactivate, MarkerExpires, SessionAges, clientVars
<1>3. \A f \in Families : \A n : Act(f, n)' => Act(f, n)
  <2>1. CASE rows' = rows
    BY <2>1 DEF Act
  <2>2. ASSUME NEW k \in Tokens, GraceEnds(k) PROVE \A f \in Families : \A n : Act(f, n)' => Act(f, n)
    <3>1. Valid(k) /\ rows' = [rows EXCEPT ![k.fam][k.n] = "tomb"]
      BY <2>2, TokenTypes DEF GraceEnds, Core
    <3>. QED  BY <3>1, ChangeRow DEF Core, Shape, Valid, Act
  <2>. QED  BY <2>1, <2>2
       DEF LoginRead, AccessExpires, EndBegin, EndDeny, Reactivate, MarkerExpires, SessionAges, tokenVars
<1>. QED  BY <1>1, <1>2, <1>3, Narrow

LEMMA NarrowDeletes ==
    ASSUME SessionConstants, Core,
           \/ \E t \in Tabs : RefreshReused(t) \/ RefreshTooOld(t) \/ RefreshBarred(t)
           \/ EndDelete
    PROVE  Spread
<1>1. PICK S : Delete(S)
  BY DEF RefreshReused, RefreshTooOld, Revoke, RefreshBarred, EndDelete
<1>2. \A f \in Families : \A n : Act(f, n)' => Act(f, n)
  BY SMTT(40), <1>1, DeleteRows DEF Core, Shape, Act
<1>3. overlapped \subseteq overlapped' /\ missed' = missed
  BY DEF RefreshReused, RefreshTooOld, Revoke, RefreshBarred, EndDelete
<1>4. jar' = jar \/ \E d : jar' = Clear(d)
  BY DEF RefreshReused, RefreshTooOld, Revoke, RefreshBarred, EndDelete
<1>5. \A e \in Devices : jar'[e].access = jar[e].access \/ jar'[e].access = NoAccess
  BY <1>4 DEF Clear, Core, Shape
<1>6. \A t \in Tabs : call'[t].pc = "answered" => call'[t] = call[t]
  <2>1. CASE EndDelete
    BY <2>1 DEF EndDelete
  <2>2. CASE \E t \in Tabs : RefreshReused(t) \/ RefreshTooOld(t) \/ RefreshBarred(t)
    BY <2>2, EndCall DEF RefreshReused, RefreshTooOld, Revoke, RefreshBarred
  <2>. QED  BY <2>1, <2>2
<1>. QED  BY <1>2, <1>3, <1>5, <1>6, Narrow

\* An answer moves the new access token to the cookies.
LEMMA DeliverSpreads ==
    ASSUME SessionConstants, Core, NEW t \in Tabs, Deliver(t)
    PROVE  Spread /\ UNCHANGED <<ending, ended, denied>>
<1>1. UNCHANGED <<rows, ending, ended, denied, overlapped, missed>>
  BY DEF Deliver, tokenVars, history
<1>2. PICK a : a = [fam |-> call[t].token.fam, late |-> call[t].late]
  OBVIOUS
<1>3. \A e \in Devices : jar'[e].access = a \/ jar'[e].access = jar[e].access
  BY <1>2 DEF Deliver, Give, Core, Shape
<1>4. \A u \in Tabs : call'[u].pc = "answered" => call'[u] = call[u]
  <2>1. Idle.pc # "answered" /\ \A k : Refresh(k).pc # "answered"
    BY DEF Idle, Refresh
  <2>2. call' = [call EXCEPT ![t] = Idle] \/ \E k : call' = [call EXCEPT ![t] = Refresh(k)]
    BY DEF Deliver, Reject
  <2>. QED  BY <2>1, <2>2 DEF Core, Shape
<1>5. call[t].pc = "answered" /\ call[t].late \in BOOLEAN
  BY DEF Deliver, Core, Shape, Calls
<1>6. \A f \in Families : Held(f)' => Held(f)
  BY <1>2, <1>3, <1>4, <1>5 DEF Held
<1>7. \A f \in Families : Late(f)' => Late(f)
  <2>1. \A f \in Families : a = [fam |-> f, late |-> TRUE] => call[t].token.fam = f /\ call[t].late
    BY <1>2
  <2>. QED  BY <1>3, <1>4, <1>5, <2>1 DEF Late
<1>8. \A f, n : Act(f, n)' <=> Act(f, n)
  BY <1>1 DEF Act
<1>. QED  BY <1>1, <1>6, <1>7, <1>8 DEF Spread

LEMMA IssueSpreads ==
    ASSUME SessionConstants, Core,
           (\E d \in Devices : LoginIssue(d)) \/ (\E t \in Tabs : RefreshIssue(t))
    PROVE  Spread /\ UNCHANGED <<ending, ended, denied>>
<1>1. ASSUME NEW f \in Families, NEW S, InsertToken(f, S)
      PROVE  /\ \A g \in Families : \A n : Act(g, n)' => Act(g, n) \/ (g = f /\ New(f))
             /\ overlapped \subseteq overlapped' /\ New(f)
  <2>1. New(f) /\ overlapped \subseteq overlapped'
    BY <1>1 DEF InsertToken, New, Core, Shape
  <2>2. \A g \in Families \ {f} : \A n : Act(g, n)' => Act(g, n)
    BY <1>1, InsertRows DEF Core, Shape, Act
  <2>. QED  BY <2>1, <2>2
<1>2. ASSUME NEW d \in Devices, LoginIssue(d) PROVE Spread
  <2>1. PICK f \in Families : login[d].fam = f
    BY <1>2 DEF LoginIssue, Core, Shape
  <2>2. InsertToken(f, login[d].evicts) /\ call' = call /\ missed' = missed
    BY <1>2, <2>1 DEF LoginIssue
  <2>3. \A e \in Devices : jar'[e].access = [fam |-> f, late |-> FALSE] \/ jar'[e].access = jar[e].access
    BY <1>2, <2>1 DEF LoginIssue, Give, Token, Core, Shape
  <2>4. \A g \in Families : Held(g)' => Held(g) \/ g = f
    BY <2>2, <2>3 DEF Held
  <2>5. \A g \in Families : Late(g)' => Late(g)
    <3>1. \A g \in Families : [fam |-> f, late |-> FALSE] # [fam |-> g, late |-> TRUE]
      OBVIOUS
    <3>. QED  BY <2>2, <2>3, <3>1 DEF Late
  <2>. QED  BY <1>1, <2>1, <2>2, <2>4, <2>5 DEF Spread
<1>3. ASSUME NEW t \in Tabs, RefreshIssue(t) PROVE Spread
  <2>1. PICK f \in Families : call[t].token.fam = f /\ Issues(t, f)
    BY <1>3 DEF RefreshIssue, Core, References, Valid, Issues
  <2>2. InsertToken(f, call[t].evicts) /\ jar' = jar /\ missed' = missed
    BY <1>3, <2>1 DEF RefreshIssue
  <2>3. \A u \in Tabs \ {t} : call'[u] = call[u]
    BY <1>3 DEF RefreshIssue, Core, Shape
  <2>4. call'[t].token.fam = f /\ call'[t].late = (f \in denied)
    BY <1>3, <2>1 DEF RefreshIssue, Core, Shape, Token
  <2>5. \A g \in Families : Held(g)' => Held(g) \/ g = f
    BY <2>2, <2>3, <2>4 DEF Held
  <2>6. \A g \in Families : Late(g)' => Late(g) \/ (g = f /\ f \in denied)
    BY <2>2, <2>3, <2>4 DEF Late
  <2>. QED  BY <1>1, <2>1, <2>2, <2>5, <2>6 DEF Spread
<1>. QED  BY <1>2, <1>3 DEF LoginIssue, RefreshIssue

\* A family whose rows were deleted is quiet, or was being refreshed.
LEMMA DeletedIsGone ==
    ASSUME Core, Effect, NEW f \in Families, \A n : ~Act(f, n)', rows[f] # <<>>, Issuing(f) => f \in overlapped',
           \A t \in Tabs : Issues(t, f)' => Issues(t, f)
    PROVE  Gone(f)'
<1>1. \A t \in Tabs : Issues(t, f) => Issuing(f)
  BY DEF Issues, Issuing
<1>. QED  BY <1>1, RowsStay DEF Gone, Quiet

LEMMA GhostRevoke ==
    ASSUME SessionConstants, Core, Core', Effect, Spread, Ghost, NEW t \in Tabs,
           RefreshReused(t) \/ RefreshTooOld(t)
    PROVE  Ghost'
<1>1. call[t].pc = "sent" /\ Kind(call[t].token) # "deleted" /\ Revoke(t)
  BY DEF RefreshReused, RefreshTooOld, IsReuse
<1>2. PICK f \in Families : call[t].token.fam = f /\ rows[f] # <<>>
  <2>1. Valid(call[t].token)
    BY <1>1 DEF Core, References, Kind
  <2>. QED  BY <2>1 DEF Valid
<1>3. /\ denied' = denied \cup {f} /\ ended' = ended \cup {f} /\ ending' = ending
      /\ Delete(TokensOf({f})) /\ (Issuing(f) => f \in overlapped')
  BY <1>1, <1>2 DEF Revoke
<1>4. \A n \in DOMAIN rows[f] : Token(f, n) \in TokensOf({f})
  BY DEF TokensOf, Tokens, Token
<1>5. \A u \in Tabs : Issues(u, f)' => Issues(u, f)
  BY <1>1, EndCall DEF Revoke, Issues
<1>6. \A n : ~Act(f, n)'
  BY <1>3, <1>4 DEF Delete, Act
<1>7. Gone(f)'
  BY <1>2, <1>3, <1>5, <1>6, DeletedIsGone
<1>. QED  BY <1>3, <1>7, GhostElsewhere

LEMMA GhostBarred ==
    ASSUME SessionConstants, Core, Core', Effect, Spread, Ghost, NEW t \in Tabs, RefreshBarred(t)
    PROVE  Ghost'
<1>1. PICK f \in Families : call[t].token.fam = f /\ rows[f] # <<>>
  BY DEF RefreshBarred, Core, References, Valid
<1>2. /\ denied' = denied \cup {f} \/ denied' = denied \cup ActiveFamilies
      /\ ended' = ended /\ ending' = ending /\ Delete(Tokens)
      /\ \A g \in Families : Issuing(g) => g \in overlapped'
  BY <1>1 DEF RefreshBarred
<1>3. \A g \in Families : \A n \in DOMAIN rows[g] : Token(g, n) \in Tokens
  BY DEF Tokens, Token
<1>4. \A u \in Tabs, g \in Families : Issues(u, g)' => Issues(u, g)
  BY EndCall DEF RefreshBarred, Issues
<1>5. \A g \in Families : rows[g] # <<>> => Gone(g)'
  BY <1>2, <1>3, <1>4, DeletedIsGone DEF Delete, Act
<1>6. \A g \in ActiveFamilies : g \in Families /\ rows[g] # <<>>
  BY DEF ActiveFamilies, HasActive
<1>. QED  BY <1>1, <1>2, <1>5, <1>6, GhostElsewhere

LEMMA GhostMarker ==
    ASSUME SessionConstants, Core, Core', Effect, Spread, Ghost, NEW f \in Families, MarkerExpires(f)
    PROVE  Ghost'
<1>1. ended' = ended /\ ending' = ending /\ denied' = denied \ {f}
  BY DEF MarkerExpires, history
<1>2. ASSUME Held(f) PROVE Late(f)
  <2>1. ASSUME NEW d \in Devices, jar[d].access.fam = f PROVE Late(f)
    <3>1. jar[d].access \in Accesses /\ jar[d].access # [fam |-> f, late |-> FALSE]
      BY DEF MarkerExpires, Core, Shape
    <3>2. jar[d].access = [fam |-> f, late |-> TRUE]
      BY <2>1, <3>1 DEF Accesses
    <3>. QED  BY <3>2 DEF Late
  <2>2. ASSUME NEW t \in Tabs, call[t].pc = "answered" /\ call[t].token.fam = f PROVE Late(f)
    BY <2>2 DEF MarkerExpires, Late
  <2>. QED  BY <1>2, <2>1, <2>2 DEF Held
<1>. QED  BY <1>1, <1>2, GhostElsewhere

LEMMA GhostBegin ==
    ASSUME SessionConstants, Core, Core', Effect, Spread, Ghost,
           NEW how \in Endings, NEW d \in Devices \cup {NoDevice}, EndBegin(how, d)
    PROVE  Ghost'
<1>. DEFINE k == IF d = NoDevice THEN NoToken ELSE jar[d].refresh
<1>1. PICK F : /\ F \in IF how = "logout" THEN {{FamilyOf(k)} \ {NoFamily}}
                        ELSE IF how = "one" THEN { {x.fam} : x \in { y \in Tokens : Kind(y) = "active" } }
                        ELSE {Snapshot(FamilyOf(k))}
               /\ ending' = [pc |-> "found", how |-> how, device |-> d, fams |-> F,
                             keep |-> IF how \in {"others", "password"} /\ Exists(k) THEN k ELSE NoToken]
  BY DEF EndBegin
<1>2. /\ UNCHANGED <<rows, denied, ended, overlapped, jar, call, missed>>
      /\ ending.pc = "idle" /\ (how \in {"logout", "one", "others", "password"} <=> d # NoDevice)
  BY DEF EndBegin, NoEnding, clientVars, history
<1>3. FamilyOf(k) # NoFamily => Exists(k) /\ Valid(k) /\ FamilyOf(k) = k.fam
  BY DEF FamilyOf, Exists, Kind, Core, References
<1>. HIDE DEF k
<1>4. \A f \in F : rows[f] # <<>>
  <2>1. how = "logout" => F \subseteq {FamilyOf(k)} \ {NoFamily}
    BY <1>1
  <2>2. \A x \in Tokens : rows[x.fam] # <<>>
    BY TokenTypes DEF Valid, Core
  <2>3. \A f \in ActiveFamilies : rows[f] # <<>>
    BY DEF ActiveFamilies, HasActive
  <2>4. CASE how = "logout"
    BY <1>3, <2>1, <2>4 DEF Valid
  <2>5. CASE how = "one"
    BY <1>1, <2>2, <2>5
  <2>6. CASE how \notin {"logout", "one"}
    BY <1>1, <2>3, <2>6 DEF Snapshot
  <2>. QED  BY <2>4, <2>5, <2>6
<1>5. how \in EveryFamily => F = Snapshot(FamilyOf(k))
  BY <1>1 DEF EveryFamily
<1>6. NoToken.fam \notin Families /\ (Exists(k) => FamilyOf(k) = k.fam)
  BY DEF NoToken, Token, SessionConstants, FamilyOf
<1>7. how \in EveryFamily => \A f \in Families : HasActive(f) /\ f # ending'.keep.fam => f \in F
  <2>. SUFFICES ASSUME how \in EveryFamily, NEW f \in Families, HasActive(f), f # ending'.keep.fam, f \notin F
                PROVE  FALSE
    OBVIOUS
  <2>1. f = FamilyOf(k)
    BY <1>5 DEF Snapshot, ActiveFamilies
  <2>2. Exists(k) /\ k.fam = f /\ k # NoToken
    BY <1>3, <1>6, <2>1 DEF SessionConstants
  <2>3. how = "password"
    BY <1>2, <2>2 DEF EveryFamily, k
  <2>. QED  BY <1>1, <2>2, <2>3
<1>8. how = "password" => ending'.keep.fam \notin F
  BY <1>1, <1>5, <1>6 DEF Snapshot, EveryFamily, ActiveFamilies
<1>9. \A f : Gone(f) => Gone(f)'
  BY <1>2 DEF Gone, Quiet, Act, Issues
<1>10. \A f : Out(f) => Out(f)'
  BY <1>2 DEF Out, Held
<1>11. /\ \A f \in ended' : Gone(f)' /\ Out(f)'
       /\ \A f \in denied' : Gone(f)'
  BY <1>2, <1>9, <1>10 DEF Ghost
<1>12. \A f \in Families : Late(f)' => f \in overlapped'
  BY LateKept
<1>13. ending'.pc = "found" /\ ending'.how = how /\ ending'.fams = F
  BY <1>1
<1>14. \A f \in Families : (\E n : Act(f, n)') => HasActive(f)
  BY <1>2 DEF Act, HasActive
<1>. QED  BY <1>2, <1>4, <1>7, <1>8, <1>11, <1>12, <1>13, <1>14 DEF Ghost

LEMMA GhostDeny ==
    ASSUME SessionConstants, Core, Core', Effect, Spread, Ghost, EndDeny
    PROVE  Ghost'
<1>1. PICK F \in SUBSET ending.fams : denied' = denied \cup F /\ missed' = missed \cup (ending.fams \ F)
  BY DEF EndDeny
<1>2. UNCHANGED <<rows, ended, overlapped, jar, call>> /\ ending.pc # "idle"
  BY DEF EndDeny, clientVars
<1>3. \A f : Gone(f) => Gone(f)'
  BY <1>2 DEF Gone, Quiet, Act, Issues
<1>4. \A f : Out(f) => Out(f)'
  BY <1>1, <1>2 DEF Out, Held
<1>5. \A f \in ending.fams : Out(f)'
  BY <1>1 DEF Out
<1>6. \A f \in Families : Late(f)' => f \in overlapped'
  BY LateKept
<1>7. \A f \in ended' : Gone(f)' /\ Out(f)'
  BY <1>2, <1>3, <1>4, <1>5 DEF Ghost
<1>8. CASE ending.how \in DenyFirst
  <2>1. ending' = [ending EXCEPT !.pc = "denied"] /\ ending.pc = "found"
    BY <1>8 DEF EndDeny
  <2>2. /\ ending'.pc = "denied" /\ ending'.fams = ending.fams /\ ending'.how = ending.how
        /\ ending'.keep = ending.keep
    BY <2>1 DEF Core, Shape
  <2>3. \A f \in denied' : Gone(f)' \/ f \in ending.fams
    BY <1>1, <1>3, <2>1 DEF Ghost
  <2>. QED  BY <1>2, <1>5, <1>6, <1>7, <1>8, <2>1, <2>2, <2>3 DEF Ghost, Act
<1>9. CASE ending.how \notin DenyFirst
  <2>1. ending' = NoEnding /\ ending.pc = "deleted"
    BY <1>9 DEF EndDeny
  <2>2. ending'.pc = "idle" /\ ending'.fams = {} /\ ending'.how = "none"
    BY <2>1 DEF NoEnding
  <2>3. \A f \in denied' : Gone(f)'
    BY <1>1, <1>3, <2>1 DEF Ghost
  <2>. QED  BY <1>6, <1>7, <2>2, <2>3 DEF Ghost
<1>. QED  BY <1>8, <1>9

LEMMA GhostDelete ==
    ASSUME SessionConstants, Core, Core', Effect, Spread, Ghost, EndDelete
    PROVE  Ghost'
<1>0. ending.fams \subseteq Families /\ ended \subseteq Families /\ denied \subseteq Families
  BY DEF Core, Shape
<1>1. PICK S : Delete(S) /\ S = DeletedBy
  BY DEF EndDelete
<1>2. UNCHANGED <<denied, missed, call>> /\ ending.pc \in {"found", "denied"}
      /\ \A f \in Families : Issuing(f) => f \in overlapped'
  BY DEF EndDelete
<1>3. \A f \in ending.fams : \A n \in DOMAIN rows[f] : Token(f, n) \in S
  <2>. SUFFICES ASSUME NEW f \in ending.fams, NEW n \in DOMAIN rows[f] PROVE Token(f, n) \in S
    OBVIOUS
  <2>1. Token(f, n) \in Tokens /\ Token(f, n) \in TokensOf(ending.fams)
    BY <1>0 DEF TokensOf, Tokens, Token
  <2>2. ending.how = "password" => Token(f, n) # ending.keep
    BY DEF Ghost, Token
  <2>. QED  BY <1>1, <2>1, <2>2 DEF DeletedBy
<1>4. \A f \in ending.fams : Gone(f)'
  <2>. SUFFICES ASSUME NEW f \in ending.fams PROVE Gone(f)'
    OBVIOUS
  <2>1. f \in Families /\ rows[f] # <<>>
    BY <1>0 DEF Ghost
  <2>2. \A t \in Tabs : Issues(t, f)' => Issues(t, f)
    BY <1>2 DEF Issues
  <2>3. \A n : ~Act(f, n)'
    BY <1>1, <1>3, <2>1, DeleteRows DEF Core, Shape, Act
  <2>. QED  BY <1>2, <2>1, <2>2, <2>3, DeletedIsGone
<1>5. ended' \subseteq ended \cup ending.fams \cup overlapped
  <2>1. \A f \in ActiveFamilies \ {ending.keep.fam} : ending.how \in EveryFamily =>
            f \in ending.fams \cup overlapped
    BY <1>2 DEF Ghost, ActiveFamilies, HasActive, Act
  <2>2. ending.how \in EveryFamily \/ ending.how \in {"logout", "one", "others"}
    BY <1>2 DEF EveryFamily, Core, Shape, Ghost, SessionConstants
  <2>. QED  BY <2>1, <2>2 DEF EndDelete
<1>6. \A f \in Families : Gone(f) => Gone(f)'
  BY GoneKept
<1>7. \A f \in Families : Out(f) => Out(f)'
  BY <1>2, OutKept
<1>8. \A f \in Families : Late(f)' => f \in overlapped'
  BY LateKept
<1>9. overlapped \subseteq overlapped'
  BY DEF Spread
<1>10. \A f \in ended' : Gone(f)'
  BY <1>0, <1>4, <1>5, <1>6, <1>9 DEF Ghost, Gone
<1>11. \A f \in denied' : Gone(f)'
  BY <1>0, <1>2, <1>4, <1>6 DEF Ghost
<1>12. \A f \in ended' : Out(f)' \/ f \in ending.fams
  BY <1>0, <1>2, <1>5, <1>7, <1>9 DEF Ghost, Out
<1>13. CASE ending.how \in DenyFirst
  <2>1. ending' = NoEnding /\ ending.pc = "denied"
    BY <1>13 DEF EndDelete
  <2>2. ending'.pc = "idle" /\ ending'.fams = {} /\ ending'.how = "none"
    BY <2>1 DEF NoEnding
  <2>3. \A f \in ending.fams : Out(f)'
    BY <1>0, <1>7, <2>1 DEF Ghost
  <2>. QED  BY <1>8, <1>10, <1>11, <1>12, <2>2, <2>3 DEF Ghost
<1>14. CASE ending.how \notin DenyFirst
  <2>1. ending' = [ending EXCEPT !.pc = "deleted"]
    BY <1>14 DEF EndDelete
  <2>2. /\ ending'.pc = "deleted" /\ ending'.fams = ending.fams /\ ending'.how = ending.how
        /\ ending'.keep = ending.keep
    BY <2>1 DEF Core, Shape
  <2>3. \A f \in ending.fams : rows'[f] # <<>>
    BY <1>0, RowsStay DEF Ghost
  <2>. QED  BY <1>2, <1>4, <1>8, <1>10, <1>11, <1>12, <1>14, <2>2, <2>3 DEF Ghost
<1>. QED  BY <1>13, <1>14

LEMMA GhostKept ==
    ASSUME SessionConstants, Core, Ghost, [Next]_vars
    PROVE  Ghost'
<1>1. Effect /\ Core'
  BY EveryStep, CoreKept DEF Kept
<1>2. CASE UNCHANGED vars
  <2>1. Spread
    BY <1>2 DEF Spread, vars, tokenVars, clientVars, history, Act, Held, Late
  <2>. QED  BY <1>1, <1>2, <2>1, GhostElsewhere DEF vars, tokenVars, history
<1>3. ASSUME NEW t \in Tabs, Request(t) \/ RefreshStep(t) PROVE Ghost'
  <2>1. CASE RefreshReused(t) \/ RefreshTooOld(t)
    BY <1>1, <2>1, NarrowDeletes, GhostRevoke
  <2>2. CASE RefreshBarred(t)
    BY <1>1, <2>2, NarrowDeletes, GhostBarred
  <2>3. CASE RefreshIssue(t)
    BY <1>1, <2>3, IssueSpreads, GhostElsewhere
  <2>4. CASE Deliver(t)
    BY <1>1, <2>4, DeliverSpreads, GhostElsewhere
  <2>5. CASE \/ Request(t) \/ RefreshRefused(t) \/ RefreshRead(t) \/ RefreshConsume(t)
             \/ RefreshCount(t) \/ Lose(t)
    BY <1>1, <2>5, NarrowCalls, GhostElsewhere
  <2>. QED  BY <1>3, <2>1, <2>2, <2>3, <2>4, <2>5 DEF RefreshStep
<1>4. ASSUME NEW d \in Devices, LoginRead(d) \/ AccessExpires(d) PROVE Ghost'
  <2>1. UNCHANGED <<ending, ended, denied>>
    BY <1>4 DEF LoginRead, AccessExpires, tokenVars, history
  <2>. QED  BY <1>1, <1>4, <2>1, NarrowTime, GhostElsewhere
<1>5. ASSUME NEW d \in Devices, LoginIssue(d) PROVE Ghost'
  BY <1>1, <1>5, IssueSpreads, GhostElsewhere
<1>6. ASSUME NEW how \in Endings, NEW d \in Devices \cup {NoDevice}, EndBegin(how, d) PROVE Ghost'
  BY <1>1, <1>6, NarrowTime, GhostBegin
<1>7. CASE EndDeny
  BY <1>1, <1>7, NarrowTime, GhostDeny
<1>8. CASE EndDelete
  BY <1>1, <1>8, NarrowDeletes, GhostDelete
<1>9. CASE Reactivate \/ (\E k \in Tokens : GraceEnds(k)) \/ \E f \in Families : SessionAges(f)
  <2>1. UNCHANGED <<ending, ended, denied>>
    BY <1>9 DEF Reactivate, GraceEnds, SessionAges, history
  <2>. QED  BY <1>1, <1>9, <2>1, NarrowTime, GhostElsewhere
<1>10. ASSUME NEW f \in Families, MarkerExpires(f) PROVE Ghost'
  BY <1>1, <1>10, NarrowTime, GhostMarker
<1>. QED  BY <1>2, <1>3, <1>4, <1>5, <1>6, <1>7, <1>8, <1>9, <1>10 DEF Next

LEMMA GhostInit == Init => Ghost
BY DEF Init, Ghost, NoEnding, Late, NoAccess, Idle, DenyFirst

\* EndedIsOut: a session that was ended, by whomever, has no usable row and
\* lets nobody in, unless it was refreshed at that moment or Redis failed.
THEOREM EndedStaysOut == Spec => []EndedIsOut
<1>1. Core /\ Ghost => EndedIsOut
  <2>. SUFFICES ASSUME Core, Ghost PROVE EndedIsOut
    OBVIOUS
  <2>1. EndedStaysEnded
    BY DEF EndedStaysEnded, Ghost, Gone, Quiet, HasActive, Act
  <2>2. NoGhostAccess
    BY DEF NoGhostAccess, Ghost, Out, Held, Accepted, NoEnding
  <2>. QED  BY <2>1, <2>2 DEF EndedIsOut
<1>2. Init => Ghost
  BY GhostInit
<1>3. Core /\ Ghost /\ [Next]_vars => Ghost'
  BY GhostKept, SessionConstants
<1>. QED  BY <1>1, <1>2, <1>3, CoreHolds, PTL DEF Spec

(* --------------------------- Reuse detection ---------------------------- *)

\* From the consumption of a row to the arrival of the next one.
Turning == {"consumed", "counted", "answered"}

\* A cookie with a rotated row waits for the answer with the next one, unless
\* that answer was lost or is late.
CookieTurns ==
    \A d \in Devices, k \in Toks :
        jar[d].refresh = k /\ Kind(k) \in {"fresh", "tomb"} /\ k.fam \notin excused =>
            /\ Kind(k) = "fresh"
            /\ \E t \in Tabs : DeviceOf[t] = d /\ call[t].pc \in Turning /\ call[t].token.fam = k.fam

\* No call holds a row beyond its grace, no answer brings a rotated row.
CallTurns ==
    \A t \in Tabs, k \in Toks :
        call[t].token = k /\ (Kind(k) = "tomb" \/ (call[t].pc = "answered" /\ Kind(k) = "fresh"))
            => k.fam \in excused

\* A session lives on one device.
Home(f, d) ==
    /\ \A e \in Devices : jar[e].refresh.fam = f => e = d
    /\ \A t \in Tabs : call[t].token.fam = f => DeviceOf[t] = d
OneHome == \A f \in Families : \E d \in Devices \cup {NoDevice} : Home(f, d)

\* Nobody has the row of an answer that is on its way.
OwnAnswer ==
    \A t \in Tabs, k \in Toks : call[t].pc = "answered" /\ call[t].token = k =>
        (\A d \in Devices : jar[d].refresh # k) /\ \A u \in Tabs \ {t} : call[u].token # k

Turns == CookieTurns /\ CallTurns /\ OneHome /\ OwnAnswer /\ reused \subseteq excused

\* Most steps: no row is rotated, cookies and calls keep their tokens or drop them.
LEMMA TurnsElsewhere ==
    ASSUME SessionConstants, Core, Turns, excused \subseteq excused', reused' \subseteq excused',
           \A k \in Toks : k = NoToken \/ Valid(k) => Kind(k)' \in {Kind(k), "deleted"},
           \A d \in Devices : jar'[d].refresh = jar[d].refresh \/ jar'[d].refresh = NoToken,
           \A t \in Tabs :
              \/ /\ call'[t].token = call[t].token /\ (call'[t].pc = "answered" => call[t].pc = "answered")
                 /\ (call[t].pc \in Turning => call'[t].pc \in Turning)
              \/ /\ call'[t].token = NoToken /\ call'[t].pc # "answered"
                 /\ (call[t].pc \in Turning =>
                        call[t].token.fam \in excused' \/ jar'[DeviceOf[t]].refresh = NoToken)
              \/ /\ call'[t].token = jar[DeviceOf[t]].refresh /\ jar' = jar
                 /\ call'[t].pc = "sent" /\ call[t].pc = "idle"
    PROVE  Turns'
<1>0. /\ \A d \in Devices : jar[d].refresh \in Toks /\ (jar[d].refresh = NoToken \/ Valid(jar[d].refresh))
      /\ \A t \in Tabs : DeviceOf[t] \in Devices /\ call[t].token \in Toks
                          /\ (call[t].token = NoToken \/ Valid(call[t].token))
      /\ NoToken \in Toks /\ Kind(NoToken)' = "deleted" /\ NoToken.fam \notin Families
  BY TokenTypes DEF SessionConstants, Core, Shape, References, Calls, Kind, NoToken, Token
<1>1. CookieTurns'
  <2>. SUFFICES ASSUME NEW d \in Devices, NEW k \in Toks, jar'[d].refresh = k,
                       Kind(k)' \in {"fresh", "tomb"}, k.fam \notin excused'
                PROVE  /\ Kind(k)' = "fresh"
                       /\ \E t \in Tabs : DeviceOf[t] = d /\ call'[t].pc \in Turning /\ call'[t].token.fam = k.fam
    BY DEF CookieTurns
  <2>1. k # NoToken /\ jar[d].refresh = k /\ Valid(k) /\ Kind(k)' = Kind(k)
    BY <1>0
  <2>2. Kind(k) = "fresh" /\ \E t \in Tabs : DeviceOf[t] = d /\ call[t].pc \in Turning /\ call[t].token.fam = k.fam
    BY <2>1 DEF Turns, CookieTurns
  <2>3. PICK t \in Tabs : DeviceOf[t] = d /\ call[t].pc \in Turning /\ call[t].token.fam = k.fam
    BY <2>2
  <2>4. call'[t].token = call[t].token /\ call'[t].pc \in Turning
    BY <2>1, <2>3 DEF Turning
  <2>. QED  BY <2>1, <2>2, <2>3, <2>4
<1>2. CallTurns'
  <2>. SUFFICES ASSUME NEW t \in Tabs, NEW k \in Toks, call'[t].token = k, k.fam \notin excused',
                       Kind(k)' = "tomb" \/ (call'[t].pc = "answered" /\ Kind(k)' = "fresh")
                PROVE  FALSE
    BY DEF CallTurns
  <2>1. k # NoToken
    BY <1>0
  <2>2. Valid(k) /\ Kind(k)' = Kind(k)
    BY <1>0, <2>1
  <2>3. CASE call[t].token = k
    BY <2>2, <2>3 DEF Turns, CallTurns
  <2>4. CASE call[t].token # k
    BY <2>1, <2>2, <2>4 DEF Turns, CookieTurns, SessionConstants
  <2>. QED  BY <2>3, <2>4
<1>3. OneHome'
  <2>. SUFFICES ASSUME NEW f \in Families, NEW d \in Devices \cup {NoDevice}, Home(f, d) PROVE Home(f, d)'
    BY DEF Turns, OneHome
  <2>1. \A e \in Devices : jar'[e].refresh.fam = f => e = d
    BY <1>0 DEF Home
  <2>2. \A t \in Tabs : call'[t].token.fam = f => DeviceOf[t] = d
    BY <1>0 DEF Home
  <2>. QED  BY <2>1, <2>2 DEF Home
<1>4. OwnAnswer'
  <2>. SUFFICES ASSUME NEW t \in Tabs, NEW k \in Toks, call'[t].pc = "answered", call'[t].token = k
                PROVE  (\A d \in Devices : jar'[d].refresh # k) /\ \A u \in Tabs \ {t} : call'[u].token # k
    BY DEF OwnAnswer
  <2>1. call[t].token = k /\ call[t].pc = "answered" /\ k # NoToken
    BY <1>0 DEF Core, References, Valid
  <2>. QED  BY <1>0, <2>1 DEF Turns, OwnAnswer
<1>. QED  BY <1>1, <1>2, <1>3, <1>4 DEF Turns

LEMMA TurnsCalls ==
    ASSUME SessionConstants, Core, Turns, NEW t \in Tabs,
           \/ Request(t) \/ RefreshRefused(t) \/ RefreshRead(t) \/ RefreshCount(t) \/ Lose(t)
           \/ RefreshConsume(t) /\ ~Wins(call[t].token)
    PROVE  Turns'
<1>1. rows' = rows /\ jar' = jar /\ reused' = reused /\ excused \subseteq excused'
  BY DEF Request, RefreshRefused, RefreshRead, RefreshCount, Lose, RefreshConsume, tokenVars, history
<1>2. \A k \in Toks : Kind(k)' = Kind(k)
  BY <1>1 DEF Kind
<1>3. \A u \in Tabs \ {t} : call'[u] = call[u]
  BY DEF Request, RefreshRefused, RefreshRead, RefreshCount, Lose, RefreshConsume, Reject, Core, Shape
<1>4. Idle.pc = "idle" /\ Idle.token = NoToken /\ \A k : Refresh(k).pc = "sent" /\ Refresh(k).token = k
  BY DEF Idle, Refresh
<1>5. call[t] \in Calls
  BY DEF Core, Shape
<1>6. \/ /\ call'[t].token = call[t].token /\ (call'[t].pc = "answered" => call[t].pc = "answered")
         /\ (call[t].pc \in Turning => call'[t].pc \in Turning)
      \/ /\ call'[t].token = NoToken /\ call'[t].pc # "answered"
         /\ (call[t].pc \in Turning => call[t].token.fam \in excused')
      \/ /\ call'[t].token = jar[DeviceOf[t]].refresh /\ jar' = jar
         /\ call'[t].pc = "sent" /\ call[t].pc = "idle"
  <2>1. CASE Request(t)
    BY <1>1, <1>4, <2>1 DEF Request, Core, Shape
  <2>2. CASE RefreshRefused(t) \/ (RefreshConsume(t) /\ ~Wins(call[t].token))
    BY <1>4, <2>2 DEF RefreshRefused, RefreshConsume, Reject, Turning, Core, Shape
  <2>3. CASE RefreshRead(t)
    BY <1>5, <2>3 DEF RefreshRead, Turning, Core, Shape, Calls
  <2>4. CASE RefreshCount(t)
    BY <1>5, <2>4 DEF RefreshCount, Turning, Core, Shape, Calls
  <2>5. CASE Lose(t)
    BY <1>4, <2>5 DEF Lose, Reject, Core, Shape
  <2>. QED  BY <2>1, <2>2, <2>3, <2>4, <2>5
<1>7. reused' \subseteq excused'
  BY <1>1 DEF Turns
<1>8. \A u \in Tabs \ {t} :
        /\ call'[u].token = call[u].token /\ (call'[u].pc = "answered" => call[u].pc = "answered")
        /\ (call[u].pc \in Turning => call'[u].pc \in Turning)
  BY <1>3
<1>9. \A k \in Toks : k = NoToken \/ Valid(k) => Kind(k)' \in {Kind(k), "deleted"}
  BY <1>2
<1>10. \A d \in Devices : jar'[d].refresh = jar[d].refresh \/ jar'[d].refresh = NoToken
  BY <1>1
<1>. QED  BY <1>1, <1>6, <1>7, <1>8, <1>9, <1>10, TurnsElsewhere

LEMMA TurnsOthers ==
    ASSUME SessionConstants, Core, Turns,
           \/ \E d \in Devices : LoginRead(d) \/ AccessExpires(d)
           \/ \E how \in Endings, d \in Devices \cup {NoDevice} : EndBegin(how, d)
           \/ EndDeny \/ Reactivate
           \/ \E f \in Families : MarkerExpires(f) \/ SessionAges(f)
    PROVE  Turns'
<1>1. UNCHANGED <<rows, call, excused, reused>>
  BY DEF LoginRead, AccessExpires, EndBegin, EndDeny, Reactivate, MarkerExpires, SessionAges,
         tokenVars, clientVars, history
<1>2. \A k \in Toks : Kind(k)' = Kind(k)
  BY <1>1 DEF Kind
<1>3. \A e \in Devices : jar'[e].refresh = jar[e].refresh
  <2>1. ASSUME NEW d \in Devices, AccessExpires(d) PROVE \A e \in Devices : jar'[e].refresh = jar[e].refresh
    BY <2>1 DEF AccessExpires, Core, Shape
  <2>2. CASE jar' = jar
    BY <2>2
  <2>. QED  BY <2>1, <2>2 DEF LoginRead, EndBegin, EndDeny, Reactivate, MarkerExpires, SessionAges, clientVars
<1>4. reused' \subseteq excused'
  BY <1>1 DEF Turns
<1>. QED  BY <1>1, <1>2, <1>3, <1>4, TurnsElsewhere

LEMMA TurnsDeletes ==
    ASSUME SessionConstants, Core, Turns,
           \/ \E t \in Tabs : RefreshReused(t) \/ RefreshTooOld(t) \/ RefreshBarred(t)
           \/ EndDelete
    PROVE  Turns'
<1>1. PICK S : Delete(S)
  BY DEF RefreshReused, RefreshTooOld, Revoke, RefreshBarred, EndDelete
<1>2. \A k \in Toks : k = NoToken \/ Valid(k) => Kind(k)' \in {Kind(k), "deleted"}
  BY <1>1, DeleteRows DEF Kind, Valid, Core, Shape
<1>3. ASSUME NEW t \in Tabs, RefreshReused(t) \/ RefreshTooOld(t) \/ RefreshBarred(t) PROVE Turns'
  <2>1. Reject(t) /\ jar' = Clear(DeviceOf[t]) /\ DeviceOf[t] \in Devices /\ excused' = excused
    BY <1>3 DEF RefreshReused, RefreshTooOld, Revoke, RefreshBarred, SessionConstants
  <2>2. /\ \A d \in Devices : jar'[d].refresh = jar[d].refresh \/ jar'[d].refresh = NoToken
        /\ jar'[DeviceOf[t]].refresh = NoToken
    BY <2>1 DEF Clear, Core, Shape
  <2>3. reused' \subseteq excused'
    <3>1. CASE reused' = reused
      BY <2>1, <3>1 DEF Turns
    <3>2. CASE RefreshReused(t)
      BY <2>1, <3>2 DEF RefreshReused, IsReuse, Turns, CallTurns, Core, Shape, Calls
    <3>. QED  BY <1>3, <3>1, <3>2 DEF RefreshTooOld, RefreshBarred
  <2>4. call'[t].token = NoToken /\ call'[t].pc = "idle" /\ \A u \in Tabs \ {t} : call'[u] = call[u]
    BY <2>1, EndCall
  <2>. QED  BY <1>2, <2>1, <2>2, <2>3, <2>4, TurnsElsewhere
<1>4. CASE EndDelete
  <2>1. call' = call /\ excused' = excused /\ reused' = reused /\ (jar' = jar \/ jar' = Clear(ending.device))
    BY <1>4 DEF EndDelete
  <2>2. \A d \in Devices : jar'[d].refresh = jar[d].refresh \/ jar'[d].refresh = NoToken
    BY <2>1 DEF Clear, Core, Shape
  <2>3. reused' \subseteq excused'
    BY <2>1 DEF Turns
  <2>. QED  BY <1>2, <2>1, <2>2, <2>3, TurnsElsewhere
<1>. QED  BY <1>3, <1>4

\* The grace of a row ends: whoever still waits for its session is late.
LEMMA TurnsGrace ==
    ASSUME SessionConstants, Core, Turns, NEW k \in Tokens, GraceEnds(k)
    PROVE  Turns'
<1>1. UNCHANGED <<jar, call, reused>> /\ excused \subseteq excused'
      /\ ((\E t \in Tabs : call[t].token.fam = k.fam) => k.fam \in excused')
  BY DEF GraceEnds, clientVars
<1>2. Valid(k) /\ k \in Toks /\ Kind(k) = "fresh" /\ rows' = [rows EXCEPT ![k.fam][k.n] = "tomb"]
  BY TokenTypes DEF GraceEnds, Core
<1>3. \A x \in Toks : (x = NoToken \/ Valid(x)) /\ x # k => Kind(x)' = Kind(x)
  BY <1>2 DEF Kind, Valid, Toks, Core, Shape
<1>4. \A d \in Devices : jar[d].refresh \in Toks /\ (jar[d].refresh = NoToken \/ Valid(jar[d].refresh))
  BY DEF Core, Shape, References
<1>5. \A t \in Tabs : call[t].token \in Toks /\ (call[t].token = NoToken \/ Valid(call[t].token))
  BY DEF Core, Shape, References, Calls
<1>6. CookieTurns'
  <2>. SUFFICES ASSUME NEW d \in Devices, NEW x \in Toks, jar[d].refresh = x,
                       Kind(x)' \in {"fresh", "tomb"}, x.fam \notin excused'
                PROVE  /\ Kind(x)' = "fresh"
                       /\ \E t \in Tabs : DeviceOf[t] = d /\ call[t].pc \in Turning /\ call[t].token.fam = x.fam
    BY <1>1 DEF CookieTurns
  <2>1. CASE x = k
    BY <1>1, <1>2, <2>1 DEF Turns, CookieTurns
  <2>2. CASE x # k
    BY <1>1, <1>3, <1>4, <2>2 DEF Turns, CookieTurns
  <2>. QED  BY <2>1, <2>2
<1>7. CallTurns'
  <2>. SUFFICES ASSUME NEW t \in Tabs, NEW x \in Toks, call[t].token = x, x.fam \notin excused',
                       Kind(x)' = "tomb" \/ (call[t].pc = "answered" /\ Kind(x)' = "fresh")
                PROVE  FALSE
    BY <1>1 DEF CallTurns
  <2>1. x # k
    BY <1>1
  <2>. QED  BY <1>1, <1>3, <1>5, <2>1 DEF Turns, CallTurns
<1>8. OneHome' /\ OwnAnswer'
  BY <1>1 DEF Turns, OneHome, Home, OwnAnswer
<1>. QED  BY <1>1, <1>6, <1>7, <1>8 DEF Turns

\* The row of a cookie is rotated: the call that did it will bring the next.
LEMMA TurnsConsume ==
    ASSUME SessionConstants, Core, Turns, NEW t \in Tabs, RefreshConsume(t), Wins(call[t].token)
    PROVE  Turns'
<1>1. PICK k \in Toks : k = call[t].token
  BY DEF Core, Shape, Calls
<1>2. UNCHANGED <<jar, excused, reused>> /\ call[t].pc = "read" /\ Valid(k) /\ Kind(k) = "active"
      /\ rows' = [rows EXCEPT ![k.fam][k.n] = "fresh"] /\ call' = [call EXCEPT ![t].pc = "consumed"]
  BY <1>1 DEF RefreshConsume, Wins, history, Core, References
<1>3. /\ call'[t].pc = "consumed" /\ call'[t].token = k
      /\ \A u \in Tabs \ {t} : call'[u] = call[u]
  <2>1. call[t] \in Calls
    BY DEF Core, Shape
  <2>. QED  BY <1>1, <1>2, <2>1 DEF Calls, Core, Shape
<1>4. (\A x \in Toks : (x = NoToken \/ Valid(x)) /\ x # k => Kind(x)' = Kind(x))
      /\ k # NoToken /\ Kind(k)' = "fresh"
  <2>1. \A x \in Toks : (x = NoToken \/ Valid(x)) /\ x # k => Kind(x)' = Kind(x)
    BY <1>2 DEF Kind, Valid, Toks, Core, Shape
  <2>2. k # NoToken
    BY <1>2 DEF Valid, NoToken, Token, SessionConstants
  <2>3. rows[k.fam] \in Seq(RowKinds)
    BY <1>2 DEF Valid, Core, Shape, Rows
  <2>4. rows'[k.fam] = [rows[k.fam] EXCEPT ![k.n] = "fresh"]
    BY <1>2 DEF Valid, Core, Shape, Rows
  <2>5. rows'[k.fam][k.n] = "fresh"
    BY <1>2, <2>3, <2>4 DEF Valid
  <2>. QED  BY <2>1, <2>2, <2>5 DEF Kind
<1>5. \A d \in Devices : jar[d].refresh \in Toks /\ (jar[d].refresh = NoToken \/ Valid(jar[d].refresh))
  BY DEF Core, Shape, References
<1>6. \A u \in Tabs : /\ call'[u].token = call[u].token /\ (call'[u].pc = "answered" => call[u].pc = "answered")
                     /\ (call[u].pc \in Turning => call'[u].pc \in Turning)
                     /\ call[u].token \in Toks /\ (call[u].token = NoToken \/ Valid(call[u].token))
  BY <1>1, <1>3 DEF Turning, Core, References, Shape, Calls
<1>7. CookieTurns'
  <2>. SUFFICES ASSUME NEW d \in Devices, NEW x \in Toks, jar[d].refresh = x,
                       Kind(x)' \in {"fresh", "tomb"}, x.fam \notin excused
                PROVE  /\ Kind(x)' = "fresh"
                       /\ \E u \in Tabs : DeviceOf[u] = d /\ call'[u].pc \in Turning /\ call'[u].token.fam = x.fam
    BY <1>2 DEF CookieTurns
  <2>1. CASE x = k
    <3>1. DeviceOf[t] = d
      BY <1>1, <1>2, <2>1 DEF Turns, OneHome, Home, Valid
    <3>. QED  BY <1>3, <1>4, <2>1, <3>1 DEF Turning
  <2>2. CASE x # k
    BY <1>4, <1>5, <1>6, <2>2 DEF Turns, CookieTurns
  <2>. QED  BY <2>1, <2>2
<1>8. CallTurns'
  <2>. SUFFICES ASSUME NEW u \in Tabs, NEW x \in Toks, call'[u].token = x, x.fam \notin excused,
                       Kind(x)' = "tomb" \/ (call'[u].pc = "answered" /\ Kind(x)' = "fresh")
                PROVE  FALSE
    BY <1>2 DEF CallTurns
  <2>1. CASE x = k
    BY <1>1, <1>3, <1>4, <1>6, <2>1 DEF Turns, OwnAnswer
  <2>2. CASE x # k
    BY <1>4, <1>6, <2>2 DEF Turns, CallTurns
  <2>. QED  BY <2>1, <2>2
<1>9. OneHome' /\ OwnAnswer'
  BY <1>2, <1>6 DEF Turns, OneHome, Home, OwnAnswer
<1>. QED  BY <1>2, <1>7, <1>8, <1>9 DEF Turns

\* A new row is active, and the rows before it stay or are deleted.
LEMMA InsertKinds ==
    ASSUME SessionConstants, Core, NEW f \in Families, NEW S, InsertToken(f, S), NEW new,
           new = Token(f, Len(rows[f]) + 1)
    PROVE  /\ \A k \in Toks : k = NoToken \/ Valid(k) => Kind(k)' \in {Kind(k), "deleted"} /\ k # new
           /\ Kind(new)' = "active" /\ new \in Toks /\ new.fam = f
<1>. DEFINE seq(g) == [n \in DOMAIN rows[g] |-> IF Token(g, n) \in S THEN "deleted" ELSE rows[g][n]]
<1>1. ASSUME NEW g \in Families
      PROVE  /\ seq(g) \in Seq(RowKinds) /\ Len(seq(g)) = Len(rows[g]) /\ DOMAIN rows[g] = 1..Len(rows[g])
             /\ Len(rows[g]) \in Nat
             /\ \A n \in DOMAIN rows[g] : seq(g)[n] \in {rows[g][n], "deleted"}
  <2>1. rows[g] \in Seq(RowKinds) /\ DOMAIN rows[g] = 1..Len(rows[g]) /\ Len(rows[g]) \in Nat
        /\ \A n \in DOMAIN rows[g] : rows[g][n] \in RowKinds
    BY LenProperties DEF Core, Shape, Rows
  <2>2. \A n \in DOMAIN rows[g] : seq(g)[n] \in RowKinds
    BY <2>1 DEF RowKinds
  <2>3. seq(g) \in Seq(RowKinds) /\ Len(seq(g)) = Len(rows[g])
    BY ZenonT(40), <2>1, <2>2, Mapped
  <2>. QED  BY <2>1, <2>3
<1>2. rows' = [g \in Families |-> IF g = f THEN Append(seq(g), "active") ELSE seq(g)]
  BY DEF InsertToken
<1>. HIDE DEF seq
<1>3. /\ \A n \in 1..Len(rows[f]) : Append(seq(f), "active")[n] = seq(f)[n]
      /\ Append(seq(f), "active")[Len(rows[f]) + 1] = "active"
  BY <1>1 DEF RowKinds
<1>4. new \in Toks /\ new.fam = f /\ new.n = Len(rows[f]) + 1 /\ Len(rows[f]) + 1 \notin DOMAIN rows[f]
  BY <1>1 DEF Token, Toks
<1>5. NoToken # new /\ new # NoToken /\ NoToken.fam # f
  BY <1>4 DEF NoToken, Token, SessionConstants
<1>6. Kind(new)' = "active"
  BY <1>2, <1>3, <1>4, <1>5 DEF Kind
<1>7. ASSUME NEW k \in Toks, Valid(k) PROVE Kind(k)' \in {Kind(k), "deleted"} /\ k # new
  <2>1. rows'[k.fam][k.n] \in {rows[k.fam][k.n], "deleted"}
    BY <1>1, <1>2, <1>3, <1>7 DEF Valid
  <2>2. k # NoToken /\ k # new
    BY <1>4, <1>5, <1>7 DEF Valid, NoToken, Token, SessionConstants
  <2>. QED  BY <2>1, <2>2 DEF Kind
<1>8. Kind(NoToken)' = "deleted" /\ Kind(NoToken) = "deleted"
  BY DEF Kind, NoToken, Token
<1>. QED  BY <1>4, <1>5, <1>6, <1>7, <1>8

\* A login: nobody knows its family yet.
LEMMA TurnsLogin ==
    ASSUME SessionConstants, Core, Turns, NEW d \in Devices, LoginIssue(d)
    PROVE  Turns'
<1>1. PICK f \in Families : login[d].fam = f /\ rows[f] = <<>>
  BY DEF LoginIssue, Core, Shape, Starting
<1>2. PICK new : new = Token(f, 1)
  OBVIOUS
<1>3. InsertToken(f, login[d].evicts) /\ UNCHANGED <<call, excused, reused>> /\ new = Token(f, Len(rows[f]) + 1)
  BY <1>1, <1>2, EmptySeq DEF LoginIssue
<1>4. /\ \A k \in Toks : k = NoToken \/ Valid(k) => Kind(k)' \in {Kind(k), "deleted"} /\ k # new
      /\ Kind(new)' = "active" /\ new \in Toks /\ new.fam = f
  BY <1>3, InsertKinds
<1>5. jar'[d].refresh = new /\ \A e \in Devices \ {d} : jar'[e] = jar[e]
  BY <1>1, <1>2 DEF LoginIssue, Give, Core, Shape
<1>6. /\ \A e \in Devices : jar[e].refresh \in Toks /\ (jar[e].refresh = NoToken \/ Valid(jar[e].refresh))
      /\ \A t \in Tabs : call[t].token \in Toks /\ (call[t].token = NoToken \/ Valid(call[t].token))
      /\ NoToken.fam # f /\ \A k : Valid(k) => k.fam # f
  BY <1>1 DEF Core, Shape, References, Calls, NoToken, Token, SessionConstants, Valid
<1>7. CookieTurns'
  <2>. SUFFICES ASSUME NEW e \in Devices, NEW x \in Toks, jar'[e].refresh = x,
                       Kind(x)' \in {"fresh", "tomb"}, x.fam \notin excused
                PROVE  /\ Kind(x)' = "fresh"
                       /\ \E t \in Tabs : DeviceOf[t] = e /\ call[t].pc \in Turning /\ call[t].token.fam = x.fam
    BY <1>3 DEF CookieTurns
  <2>1. e # d
    BY <1>4, <1>5
  <2>2. jar[e].refresh = x /\ Kind(x)' = Kind(x)
    BY <1>4, <1>5, <1>6, <2>1
  <2>. QED  BY <2>2 DEF Turns, CookieTurns
<1>8. CallTurns'
  <2>. SUFFICES ASSUME NEW t \in Tabs, NEW x \in Toks, call[t].token = x, x.fam \notin excused,
                       Kind(x)' = "tomb" \/ (call[t].pc = "answered" /\ Kind(x)' = "fresh")
                PROVE  FALSE
    BY <1>3 DEF CallTurns
  <2>1. Kind(x)' = Kind(x)
    BY <1>4, <1>6
  <2>. QED  BY <2>1 DEF Turns, CallTurns
<1>9. OneHome'
  <2>1. ASSUME NEW g \in Families \ {f}, NEW e \in Devices \cup {NoDevice}, Home(g, e) PROVE Home(g, e)'
    BY <1>3, <1>4, <1>5, <2>1 DEF Home
  <2>2. Home(f, d)'
    BY <1>3, <1>5, <1>6 DEF Home
  <2>. QED  BY <2>1, <2>2 DEF Turns, OneHome
<1>10. OwnAnswer'
  BY <1>3, <1>4, <1>5, <1>6 DEF Turns, OwnAnswer
<1>. QED  BY <1>3, <1>7, <1>8, <1>9, <1>10 DEF Turns

\* The next row of a session, and the answer with it.
LEMMA TurnsIssue ==
    ASSUME SessionConstants, Core, Turns, NEW t \in Tabs, RefreshIssue(t)
    PROVE  Turns'
<1>1. PICK f \in Families : call[t].token.fam = f
  BY DEF RefreshIssue, Core, References, Valid
<1>2. PICK new : new = Token(f, Len(rows[f]) + 1)
  OBVIOUS
<1>3. InsertToken(f, call[t].evicts) /\ UNCHANGED <<jar, excused, reused>> /\ call[t].pc = "counted"
  BY <1>1 DEF RefreshIssue
<1>4. /\ \A k \in Toks : k = NoToken \/ Valid(k) => Kind(k)' \in {Kind(k), "deleted"} /\ k # new
      /\ Kind(new)' = "active" /\ new \in Toks /\ new.fam = f
  BY <1>2, <1>3, InsertKinds
<1>5. call'[t].token = new /\ call'[t].pc = "answered" /\ \A u \in Tabs \ {t} : call'[u] = call[u]
  BY <1>1, <1>2 DEF RefreshIssue, Core, Shape
<1>6. /\ \A e \in Devices : jar[e].refresh \in Toks /\ (jar[e].refresh = NoToken \/ Valid(jar[e].refresh))
      /\ \A u \in Tabs : call[u].token \in Toks /\ (call[u].token = NoToken \/ Valid(call[u].token))
  BY DEF Core, Shape, References, Calls
<1>7. CookieTurns'
  <2>. SUFFICES ASSUME NEW e \in Devices, NEW x \in Toks, jar[e].refresh = x,
                       Kind(x)' \in {"fresh", "tomb"}, x.fam \notin excused
                PROVE  /\ Kind(x)' = "fresh"
                       /\ \E u \in Tabs : DeviceOf[u] = e /\ call'[u].pc \in Turning /\ call'[u].token.fam = x.fam
    BY <1>3 DEF CookieTurns
  <2>1. Kind(x)' = Kind(x)
    BY <1>4, <1>6
  <2>2. Kind(x) = "fresh" /\ \E u \in Tabs : DeviceOf[u] = e /\ call[u].pc \in Turning /\ call[u].token.fam = x.fam
    BY <2>1 DEF Turns, CookieTurns
  <2>3. PICK u \in Tabs : DeviceOf[u] = e /\ call[u].pc \in Turning /\ call[u].token.fam = x.fam
    BY <2>2
  <2>4. call'[u].pc \in Turning /\ call'[u].token.fam = x.fam
    BY <1>1, <1>4, <1>5, <2>3 DEF Turning
  <2>. QED  BY <2>1, <2>2, <2>3, <2>4
<1>8. CallTurns'
  <2>. SUFFICES ASSUME NEW u \in Tabs, NEW x \in Toks, call'[u].token = x, x.fam \notin excused,
                       Kind(x)' = "tomb" \/ (call'[u].pc = "answered" /\ Kind(x)' = "fresh")
                PROVE  FALSE
    BY <1>3 DEF CallTurns
  <2>1. u # t
    BY <1>4, <1>5
  <2>2. Kind(x)' = Kind(x) /\ call[u] = call'[u]
    BY <1>4, <1>5, <1>6, <2>1
  <2>. QED  BY <2>2 DEF Turns, CallTurns
<1>9. OneHome'
  <2>1. ASSUME NEW g \in Families, NEW e \in Devices \cup {NoDevice}, Home(g, e) PROVE Home(g, e)'
    BY <1>1, <1>3, <1>4, <1>5, <2>1 DEF Home
  <2>. QED  BY <2>1 DEF Turns, OneHome
<1>10. OwnAnswer'
  <2>. SUFFICES ASSUME NEW u \in Tabs, NEW x \in Toks, call'[u].pc = "answered", call'[u].token = x
                PROVE  (\A e \in Devices : jar[e].refresh # x) /\ \A v \in Tabs \ {u} : call'[v].token # x
    BY <1>3 DEF OwnAnswer
  <2>1. CASE u = t
    BY <1>4, <1>5, <1>6, <2>1
  <2>2. CASE u # t
    <3>1. call[u].pc = "answered" /\ call[u].token = x
      BY <1>5, <2>2
    <3>2. x # new
      BY <1>4, <1>6, <3>1
    <3>. QED  BY <1>5, <3>1, <3>2 DEF Turns, OwnAnswer
  <2>. QED  BY <2>1, <2>2
<1>. QED  BY <1>3, <1>7, <1>8, <1>9, <1>10 DEF Turns

\* The answer replaces the rotated row in the cookies.
LEMMA TurnsDeliver ==
    ASSUME SessionConstants, Core, Turns, NEW t \in Tabs, Deliver(t)
    PROVE  Turns'
<1>1. PICK k \in Toks : k = call[t].token
  BY DEF Core, Shape, Calls
<1>2. PICK d \in Devices : d = DeviceOf[t]
  BY DEF SessionConstants
<1>3. UNCHANGED <<rows, excused, reused>> /\ call[t].pc = "answered" /\ Valid(k)
  BY <1>1 DEF Deliver, tokenVars, history, Core, References
<1>4. \A x \in Toks : Kind(x)' = Kind(x)
  BY <1>3 DEF Kind
<1>5. jar'[d].refresh = k /\ \A e \in Devices \ {d} : jar'[e] = jar[e]
  BY <1>1, <1>2 DEF Deliver, Give, Core, Shape
<1>6. /\ call'[t].token \in {k, NoToken} /\ call'[t].pc \in {"idle", "sent"}
      /\ \A u \in Tabs \ {t} : call'[u] = call[u]
  <2>1. Idle.pc = "idle" /\ Idle.token = NoToken /\ \A x : Refresh(x).pc = "sent" /\ Refresh(x).token = x
    BY DEF Idle, Refresh
  <2>2. call' = [call EXCEPT ![t] = Idle] \/ call' = [call EXCEPT ![t] = Refresh(k)]
    BY <1>1 DEF Deliver, Reject
  <2>. QED  BY <2>1, <2>2 DEF Core, Shape
<1>7. k.fam \in Families /\ (Kind(k) \in {"fresh", "tomb"} => k.fam \in excused)
      /\ Kind(NoToken) = "deleted" /\ NoToken.fam \notin Families
  BY <1>1, <1>3 DEF Turns, CallTurns, Valid, Kind, NoToken, Token, SessionConstants
<1>8. CookieTurns'
  <2>. SUFFICES ASSUME NEW e \in Devices, NEW x \in Toks, jar'[e].refresh = x,
                       Kind(x) \in {"fresh", "tomb"}, x.fam \notin excused
                PROVE  /\ Kind(x) = "fresh"
                       /\ \E u \in Tabs : DeviceOf[u] = e /\ call'[u].pc \in Turning /\ call'[u].token.fam = x.fam
    BY <1>3, <1>4 DEF CookieTurns
  <2>1. e # d /\ jar[e].refresh = x
    BY <1>5, <1>7
  <2>2. Kind(x) = "fresh" /\ \E u \in Tabs : DeviceOf[u] = e /\ call[u].pc \in Turning /\ call[u].token.fam = x.fam
    BY <2>1 DEF Turns, CookieTurns
  <2>. QED  BY <1>2, <1>6, <2>1, <2>2
<1>9. CallTurns'
  <2>. SUFFICES ASSUME NEW u \in Tabs, NEW x \in Toks, call'[u].token = x, x.fam \notin excused,
                       Kind(x) = "tomb" \/ (call'[u].pc = "answered" /\ Kind(x) = "fresh")
                PROVE  FALSE
    BY <1>3, <1>4 DEF CallTurns
  <2>1. CASE u = t
    BY <1>6, <1>7, <2>1
  <2>2. CASE u # t
    BY <1>6, <2>2 DEF Turns, CallTurns
  <2>. QED  BY <2>1, <2>2
<1>10. OneHome'
  <2>. SUFFICES ASSUME NEW f \in Families, NEW e \in Devices \cup {NoDevice}, Home(f, e) PROVE Home(f, e)'
    BY DEF Turns, OneHome
  <2>1. k.fam = f => d = e
    BY <1>1, <1>2 DEF Home
  <2>2. \A c \in Devices : jar'[c].refresh.fam = f => c = e
    BY <1>5, <2>1 DEF Home
  <2>3. \A u \in Tabs : call'[u].token.fam = f => DeviceOf[u] = e
    BY <1>2, <1>6, <1>7, <2>1 DEF Home
  <2>. QED  BY <2>2, <2>3 DEF Home
<1>11. OwnAnswer'
  <2>. SUFFICES ASSUME NEW u \in Tabs, NEW x \in Toks, call'[u].pc = "answered", call'[u].token = x
                PROVE  (\A e \in Devices : jar'[e].refresh # x) /\ \A v \in Tabs \ {u} : call'[v].token # x
    BY DEF OwnAnswer
  <2>1. u # t /\ call[u].pc = "answered" /\ call[u].token = x
    BY <1>6
  <2>2. x # k /\ x # NoToken
    BY <1>1, <1>7, <2>1 DEF Turns, OwnAnswer, Core, References, Valid
  <2>. QED  BY <1>5, <1>6, <2>1, <2>2 DEF Turns, OwnAnswer
<1>12. reused' \subseteq excused'
  BY <1>3 DEF Turns
<1>. QED  BY <1>8, <1>9, <1>10, <1>11, <1>12 DEF Turns

LEMMA TurnsKept ==
    ASSUME SessionConstants, Core, Turns, [Next]_vars
    PROVE  Turns'
<1>1. CASE UNCHANGED vars
  BY <1>1 DEF Turns, CookieTurns, CallTurns, OneHome, Home, OwnAnswer, Kind,
              vars, tokenVars, clientVars, history
<1>2. CASE \E t \in Tabs : Request(t) \/ RefreshStep(t)
  <2>1. PICK t \in Tabs : Request(t) \/ RefreshStep(t)
    BY <1>2
  <2>. QED  BY <2>1, TurnsCalls, TurnsDeletes, TurnsConsume, TurnsIssue, TurnsDeliver DEF RefreshStep
<1>3. CASE \E d \in Devices : LoginIssue(d)
  BY <1>3, TurnsLogin
<1>4. CASE \E k \in Tokens : GraceEnds(k)
  BY <1>4, TurnsGrace
<1>5. CASE EndDelete
  BY <1>5, TurnsDeletes
<1>. QED  BY <1>1, <1>2, <1>3, <1>4, <1>5, TurnsOthers DEF Next

LEMMA TurnsInit == SessionConstants /\ Init => Turns
<1>. SUFFICES ASSUME SessionConstants, Init PROVE Turns
    OBVIOUS
  <1>1. Kind(NoToken) = "deleted" /\ NoToken.fam \notin Families
    BY DEF Kind, NoToken, Token, SessionConstants
  <1>2. Idle.token = NoToken /\ Idle.pc = "idle"
    BY DEF Idle
  <1>3. /\ \A d \in Devices : jar[d].refresh = NoToken
        /\ \A t \in Tabs : call[t] = Idle
        /\ reused = {}
    BY DEF Init
  <1>4. CookieTurns /\ CallTurns /\ OwnAnswer /\ reused \subseteq excused
    BY <1>1, <1>2, <1>3 DEF CookieTurns, CallTurns, OwnAnswer
  <1>5. OneHome
    BY <1>1, <1>2, <1>3 DEF OneHome, Home
  <1>. QED  BY <1>4, <1>5 DEF Turns

\* ReuseNeedsDelay: tabs that race for a refresh in time never trip the
\* reuse detection.
THEOREM RacesAreBenign == Spec => []ReuseNeedsDelay
<1>1. Init => Turns
  BY TurnsInit, SessionConstants
<1>2. Core /\ Turns /\ [Next]_vars => Turns'
  BY TurnsKept, SessionConstants
<1>3. Turns => ReuseNeedsDelay
  BY DEF Turns, ReuseNeedsDelay
<1>. QED  BY <1>1, <1>2, <1>3, CoreHolds, PTL DEF Spec

-----------------------------------------------------------------------------
(* MAX_SESSIONS_PER_USER.                                                  *)

\* Of finitely many things in a line, one comes first.
LEMMA FirstInLine ==
    ASSUME NEW K, IsFiniteSet(K), K # {}, NEW after,
           \A f \in K : f \notin after[f],
           \A f, g \in K : f = g \/ f \in after[g] \/ g \in after[f],
           \A f, g, h \in K : g \in after[f] /\ h \in after[g] => h \in after[f]
    PROVE  \E f \in K : K \ {f} \subseteq after[f]
<1>. DEFINE Missing(f) == K \ after[f]
            size == [f \in K |-> Cardinality(Missing(f))]
            sizes == { size[f] : f \in K }
<1>1. ASSUME NEW f \in K
      PROVE  Missing(f) \subseteq K /\ IsFiniteSet(Missing(f)) /\ Cardinality(Missing(f)) \in Nat
  <2>1. Missing(f) \in SUBSET K
    OBVIOUS
  <2>. HIDE DEF Missing
  <2>. QED  BY <2>1, FS_Subset, FS_CardinalityType
<1>2. PICK f \in K : \A g \in K : Cardinality(Missing(f)) <= Cardinality(Missing(g))
  <2>1. size \in [K -> Nat]
    BY <1>1
  <2>2. sizes \subseteq Nat /\ sizes # {}
    <3>. HIDE DEF size
    <3>. QED  BY <2>1
  <2>3. Min(sizes) \in sizes /\ \A n \in sizes : Min(sizes) <= n
    <3>. HIDE DEF sizes
    <3>. QED  BY <2>2, LeastIsOne
  <2>4. \E f \in K : \A g \in K : size[f] <= size[g]
    <3>1. PICK m : m \in sizes /\ \A n \in sizes : m <= n
      BY <2>3
    <3>2. PICK f \in K : m = size[f]
      BY <3>1
    <3>3. \A g \in K : size[g] \in sizes
      OBVIOUS
    <3>. HIDE DEF size, sizes
    <3>. QED  BY <3>1, <3>2, <3>3
  <2>5. \A f \in K : size[f] = Cardinality(Missing(f))
    OBVIOUS
  <2>6. PICK f \in K : \A g \in K : size[f] <= size[g]
    BY <2>4
  <2>7. \A g \in K : Cardinality(Missing(f)) <= Cardinality(Missing(g))
    <3>. HIDE DEF size, Missing
    <3>. QED  BY <2>5, <2>6
  <2>. QED  BY <2>7
<1>3. ASSUME NEW g \in K \ {f}, g \notin after[f] PROVE FALSE
  <2>1. f \in after[g]
    BY <1>3
  <2>2. Missing(g) \subseteq Missing(f) \ {f} /\ f \in Missing(f)
    BY <2>1
  <2>. HIDE DEF Missing
  <2>3. Cardinality(Missing(f) \ {f}) = Cardinality(Missing(f)) - 1
    BY <1>1, <2>2, FS_RemoveElement
  <2>4. Cardinality(Missing(g)) <= Cardinality(Missing(f) \ {f})
    BY <1>1, <2>2, FS_Subset
  <2>. QED  BY <1>1, <1>2, <2>3, <2>4
<1>. QED  BY <1>3

\* The sessions are in a line by their latest rows.
InLine ==
    /\ younger \in [Families -> SUBSET Families]
    /\ \A f \in Families : f \notin younger[f]
    /\ \A f, g \in ActiveFamilies : f = g \/ f \in younger[g] \/ g \in younger[f]
    /\ \A f, g, h \in Families : g \in younger[f] /\ h \in younger[g] => h \in younger[f]

\* The sessions that are left without the rows of S.
LeftBy(S) == { f \in Families : \E n : Act(f, n) /\ Token(f, n) \notin S }

\* One login or refresh at a time is between its count and its new row.
OneCounts ==
    /\ \A d, e \in Devices : login[d] # NoLogin /\ login[e] # NoLogin => d = e
    /\ \A t, u \in Tabs : call[t].pc = "counted" /\ call[u].pc = "counted" => t = u
    /\ \A d \in Devices, t \in Tabs : login[d] = NoLogin \/ call[t].pc # "counted"

\* There is room for the sessions, and for the one that is about to be new.
Roomy ==
    /\ Cardinality(ActiveFamilies) <= MaxActive
    /\ \A d \in Devices : login[d] # NoLogin => Cardinality(LeftBy(login[d].evicts)) <= MaxActive - 1
    /\ \A t \in Tabs : call[t].pc = "counted" => Cardinality(LeftBy(call[t].evicts)) <= MaxActive - 1

CapInv == InLine /\ (~crowded => OneCounts /\ Roomy)

LEMMA ActiveIs == Core => ActiveFamilies = { f \in Families : \E n : Act(f, n) }
  BY DEF ActiveFamilies, HasActive, Act

LEMMA SmallerSets ==
    ASSUME IsFiniteSet(Families), NEW A \in SUBSET Families, NEW B \in SUBSET A
    PROVE  IsFiniteSet(A) /\ Cardinality(B) <= Cardinality(A) /\ Cardinality(B) \in Nat /\ Cardinality(A) \in Nat
  BY FS_Subset, FS_CardinalityType

\* What a count evicts leaves room for one.
LEMMA EvictsMakeRoom ==
    ASSUME SessionConstants, Core, InLine, IsFiniteSet(Families)
    PROVE  Cardinality(LeftBy(Evicts)) <= MaxActive - 1
<1>. DEFINE K == { f \in ActiveFamilies : Cardinality(Newer(f)) < MaxActive - 1 }
<1>1. \A f \in Families : Newer(f) \subseteq Families /\ Cardinality(Newer(f)) \in Nat
  BY SmallerSets DEF Newer, InLine
<1>2. LeftBy(Evicts) \subseteq K
  <2>. SUFFICES ASSUME NEW f \in Families, NEW n, Act(f, n), Token(f, n) \notin Evicts PROVE f \in K
    BY DEF LeftBy
  <2>1. f \in ActiveFamilies /\ Token(f, n) \in Tokens
    BY ActiveIs DEF Act, Tokens
  <2>2. Kind(Token(f, n)) = "active" /\ Token(f, n).fam = f
    BY DEF Kind, Token, NoToken, Act, SessionConstants
  <2>3. ~(Cardinality(Newer(f)) >= MaxActive - 1)
    BY <2>1, <2>2 DEF Evicts
  <2>. QED  BY <1>1, <2>1, <2>3 DEF SessionConstants
<1>3. K \subseteq ActiveFamilies /\ ActiveFamilies \subseteq Families
  BY DEF ActiveFamilies
<1>4. Cardinality(K) <= MaxActive - 1
  <2>1. CASE K = {}
    BY <2>1, FS_EmptySet DEF SessionConstants
  <2>2. CASE K # {}
    <3>0. IsFiniteSet(K) /\ Cardinality(K) \in Nat
      BY <1>3, SmallerSets
    <3>1. \E f \in K : K \ {f} \subseteq younger[f]
      <4>1. /\ \A f \in K : f \notin younger[f]
            /\ \A f, g \in K : f = g \/ f \in younger[g] \/ g \in younger[f]
            /\ \A f, g, h \in K : g \in younger[f] /\ h \in younger[g] => h \in younger[f]
        BY <1>3 DEF InLine
      <4>. HIDE DEF K
      <4>. QED  BY <2>2, <3>0, <4>1, FirstInLine
    <3>2. PICK f \in K : K \ {f} \subseteq younger[f]
      BY <3>1
    <3>3. K \ {f} \subseteq Newer(f)
      BY <3>2 DEF Newer, ActiveFamilies
    <3>4. Cardinality(K \ {f}) = Cardinality(K) - 1
      BY <3>0, <3>2, FS_RemoveElement
    <3>5. Cardinality(K \ {f}) <= Cardinality(Newer(f))
      BY <1>1, <1>3, <3>3, SmallerSets
    <3>. QED  BY <1>1, <1>3, <3>0, <3>2, <3>4, <3>5 DEF SessionConstants
  <2>. QED  BY <2>1, <2>2
<1>. QED  BY <1>2, <1>3, <1>4, SmallerSets DEF SessionConstants

\* Rows become active when a login or a refresh ends, not before.
LEMMA QuietRows ==
    ASSUME Core, Effect,
           \A d \in Devices : login'[d] = login[d] \/ login[d] = NoLogin,
           \A t \in Tabs : call'[t].pc = "answered" => call[t].pc = "answered"
    PROVE  /\ \A f \in Families : \A n : Act(f, n)' => Act(f, n)
           /\ ActiveFamilies' \subseteq ActiveFamilies
           /\ \A S : LeftBy(S)' \subseteq LeftBy(S)
<1>1. ASSUME NEW f \in Families, NEW n, Act(f, n)' PROVE Act(f, n)
  <2>1. Act(f, n) \/ ByLogin(f, n) \/ ByRefresh(f, n)
    BY <1>1 DEF Effect, RowStep
  <2>2. ~ByRefresh(f, n)
    BY DEF ByRefresh, Issues
  <2>3. ASSUME ByLogin(f, n) PROVE FALSE
    <3>1. rows[f] = <<>> /\ rows'[f] # <<>>
      BY <1>1, <2>3 DEF ByLogin, Act
    <3>2. PICK d \in Devices : login[d].fam = f /\ login'[d].fam # f
      BY <3>1 DEF Effect, RowStep
    <3>. QED  BY <3>2, SessionConstants DEF NoLogin
  <2>. QED  BY <2>1, <2>2, <2>3
<1>. QED  BY <1>1 DEF ActiveFamilies, HasActive, Act, LeftBy

LEMMA CapQuiet ==
    ASSUME SessionConstants, IsFiniteSet(Families), Core, CapInv, Effect, younger' = younger,
           crowded => crowded', login' = login,
           \A t \in Tabs : call'[t] = call[t] \/ call'[t].pc \in {"idle", "sent", "read", "consumed"}
    PROVE  CapInv'
<1>0. \A t \in Tabs : call'[t].pc \in {"answered", "counted"} => call'[t] = call[t]
  OBVIOUS
<1>1. /\ ActiveFamilies' \subseteq ActiveFamilies /\ ActiveFamilies \in SUBSET Families
      /\ \A S : LeftBy(S)' \subseteq LeftBy(S) /\ LeftBy(S) \in SUBSET Families
  BY <1>0, QuietRows DEF ActiveFamilies, LeftBy
<1>2. InLine'
  BY <1>1 DEF CapInv, InLine
<1>3. ~crowded' => OneCounts'
  BY <1>0 DEF CapInv, OneCounts
<1>4. ASSUME ~crowded' PROVE Roomy'
  <2>1. Roomy
    BY <1>4 DEF CapInv
  <2>2. \A S : Cardinality(LeftBy(S)') <= Cardinality(LeftBy(S)) /\ Cardinality(LeftBy(S)') \in Nat
                /\ Cardinality(LeftBy(S)) \in Nat
    BY <1>1, SmallerSets
  <2>3. Cardinality(ActiveFamilies') <= MaxActive
    <3>1. /\ Cardinality(ActiveFamilies') <= Cardinality(ActiveFamilies)
          /\ Cardinality(ActiveFamilies') \in Nat /\ Cardinality(ActiveFamilies) \in Nat
      BY <1>1, SmallerSets
    <3>. QED  BY <2>1, <3>1 DEF Roomy, SessionConstants
  <2>4. ASSUME NEW d \in Devices, login'[d] # NoLogin
        PROVE  (Cardinality(LeftBy(login[d].evicts)) <= MaxActive - 1)'
    <3>1. PICK S : S = login[d].evicts
      OBVIOUS
    <3>2. LeftBy(login[d].evicts)' = LeftBy(S)'
      BY <3>1 DEF LeftBy
    <3>3. Cardinality(LeftBy(S)) <= MaxActive - 1
      BY <2>1, <2>4, <3>1 DEF Roomy
    <3>. QED  BY <2>2, <3>2, <3>3 DEF SessionConstants
  <2>5. ASSUME NEW t \in Tabs, call'[t].pc = "counted"
        PROVE  (Cardinality(LeftBy(call[t].evicts)) <= MaxActive - 1)'
    <3>1. PICK S : S = call[t].evicts
      OBVIOUS
    <3>2. LeftBy(call[t].evicts)' = LeftBy(S)' /\ call'[t] = call[t]
      BY <1>0, <2>5, <3>1 DEF LeftBy
    <3>3. Cardinality(LeftBy(S)) <= MaxActive - 1
      BY <2>1, <2>5, <3>1, <3>2 DEF Roomy
    <3>. QED  BY <2>2, <3>2, <3>3 DEF SessionConstants
  <2>. QED  BY <2>3, <2>4, <2>5 DEF Roomy
<1>. QED  BY <1>2, <1>3, <1>4 DEF CapInv

\* Most steps of the refreshes, and those that end sessions or let time pass.
LEMMA CapElsewhere ==
    ASSUME SessionConstants, IsFiniteSet(Families), Core, CapInv,
           \/ \E t \in Tabs : \/ Request(t) \/ RefreshRefused(t) \/ RefreshReused(t) \/ RefreshTooOld(t)
                              \/ RefreshRead(t) \/ RefreshConsume(t) \/ RefreshBarred(t)
                              \/ Deliver(t) \/ Lose(t)
           \/ \E d \in Devices : AccessExpires(d)
           \/ \E how \in Endings, d \in Devices \cup {NoDevice} : EndBegin(how, d)
           \/ EndDeny \/ EndDelete \/ Reactivate
           \/ \E k \in Tokens : GraceEnds(k)
           \/ \E f \in Families : MarkerExpires(f) \/ SessionAges(f)
    PROVE  CapInv'
<1>1. Effect
  BY EveryStep DEF Next, RefreshStep, Kept
<1>2. UNCHANGED <<younger, crowded, login>>
  BY DEF Request, RefreshRefused, RefreshReused, RefreshTooOld, Revoke, RefreshRead, RefreshConsume,
         RefreshBarred, Deliver, Lose, AccessExpires, EndBegin, EndDeny, EndDelete, Reactivate,
         GraceEnds, MarkerExpires, SessionAges, tokenVars, clientVars, history
<1>3. \A u \in Tabs : call'[u] = call[u] \/ call'[u].pc \in {"idle", "sent", "read", "consumed"}
  <2>0. Idle.pc = "idle" /\ \A k : Refresh(k).pc = "sent"
    BY DEF Idle, Refresh
  <2>1. CASE call' = call
    BY <2>1
  <2>2. CASE \E t \in Tabs : call' = [call EXCEPT ![t] = Idle]
    BY <2>0, <2>2 DEF Core, Shape
  <2>3. CASE \E t \in Tabs : \E k : call' = [call EXCEPT ![t] = Refresh(k)]
    BY <2>0, <2>3 DEF Core, Shape
  <2>4. CASE \E t \in Tabs, x \in {"read", "consumed"} : call' = [call EXCEPT ![t].pc = x]
    BY <2>4 DEF Core, Shape, Calls
  <2>. QED
    BY <2>1, <2>2, <2>3, <2>4
       DEF Request, RefreshRefused, RefreshReused, RefreshTooOld, Revoke, RefreshRead, RefreshConsume,
         RefreshBarred, Deliver, Lose, Reject, AccessExpires, EndBegin, EndDeny, EndDelete, Reactivate,
         GraceEnds, MarkerExpires, SessionAges, clientVars
<1>. QED  BY <1>1, <1>2, <1>3, CapQuiet

\* A login or a refresh counts the active rows: nobody else is about to add one.
LEMMA CapReads ==
    ASSUME SessionConstants, IsFiniteSet(Families), Core, CapInv,
           (\E d \in Devices : LoginRead(d)) \/ (\E t \in Tabs : RefreshCount(t))
    PROVE  CapInv'
<1>0. PICK S : S = Evicts
  OBVIOUS
<1>1. UNCHANGED <<rows, younger>> /\ (crowded => crowded')
  BY DEF LoginRead, RefreshCount, Crowd, tokenVars
<1>2. /\ ActiveFamilies' = ActiveFamilies /\ \A R : LeftBy(R)' = LeftBy(R)
      /\ Cardinality(LeftBy(S)) <= MaxActive - 1
  BY <1>0, <1>1, EvictsMakeRoom DEF ActiveFamilies, HasActive, LeftBy, Act, CapInv
<1>3. InLine'
  BY <1>1, <1>2 DEF CapInv, InLine
<1>4. ASSUME ~crowded', NEW d \in Devices, LoginRead(d) PROVE OneCounts' /\ Roomy'
  <2>1. OneCounts /\ Roomy
    BY <1>1, <1>4 DEF CapInv
  <2>2. /\ call' = call /\ login'[d].evicts = S /\ \A e \in Devices \ {d} : login'[e] = login[e]
        /\ \A e \in Devices \ {d} : login[e] = NoLogin
        /\ \A t \in Tabs : call[t].pc # "counted"
    <3>1. \E r : r.evicts = S /\ login' = [login EXCEPT ![d] = r]
      <4>1. PICK f : login' = [login EXCEPT ![d] = [fam |-> f, evicts |-> S]]
        BY <1>0, <1>4 DEF LoginRead
      <4>2. [fam |-> f, evicts |-> S].evicts = S
        OBVIOUS
      <4>. QED  BY <4>1, <4>2
    <3>3. login'[d].evicts = S /\ \A e \in Devices \ {d} : login'[e] = login[e]
      BY <3>1 DEF Core, Shape
    <3>2. call' = call /\ Crowd(Devices \ {d}, Tabs)
      BY <1>4 DEF LoginRead
    <3>. QED  BY <1>4, <3>2, <3>3 DEF Crowd
  <2>3. OneCounts'
    BY <2>1, <2>2 DEF OneCounts
  <2>4. LeftBy(login[d].evicts)' = LeftBy(S)
    BY <1>1, <2>2 DEF LeftBy, Act
  <2>. QED  BY <1>2, <2>1, <2>2, <2>3, <2>4 DEF Roomy
<1>5. ASSUME ~crowded', NEW t \in Tabs, RefreshCount(t) PROVE OneCounts' /\ Roomy'
  <2>1. OneCounts /\ Roomy
    BY <1>1, <1>5 DEF CapInv
  <2>2. /\ login' = login /\ call'[t].evicts = S /\ \A u \in Tabs \ {t} : call'[u] = call[u]
        /\ \A u \in Tabs \ {t} : call[u].pc # "counted"
        /\ \A d \in Devices : login[d] = NoLogin
    <3>1. call' = [call EXCEPT ![t].pc = "counted", ![t].evicts = S]
      BY <1>0, <1>5 DEF RefreshCount
    <3>2. login' = login /\ Crowd(Devices, Tabs \ {t})
      BY <1>5 DEF RefreshCount
    <3>3. call \in [Tabs -> Calls]
      BY DEF Core, Shape
    <3>4. call'[t].evicts = S /\ \A u \in Tabs \ {t} : call'[u] = call[u]
      BY <3>1, <3>3 DEF Calls
    <3>. QED  BY <1>5, <3>2, <3>4 DEF Crowd
  <2>3. OneCounts'
    BY <2>1, <2>2 DEF OneCounts
  <2>4. LeftBy(call[t].evicts)' = LeftBy(S)
    BY <1>1, <2>2 DEF LeftBy, Act
  <2>. QED  BY <1>2, <2>1, <2>2, <2>3, <2>4 DEF Roomy
<1>. QED  BY <1>3, <1>4, <1>5 DEF CapInv

\* A new row is the only one of its session, and its session is the latest.
LEMMA CapInserts ==
    ASSUME SessionConstants, IsFiniteSet(Families), Core, CapInv, NEW f \in Families, NEW S,
           InsertToken(f, S), crowded' = crowded,
           ~crowded => /\ Cardinality(LeftBy(S)) <= MaxActive - 1
                       /\ \A d \in Devices : login'[d] = NoLogin
                       /\ \A t \in Tabs : call'[t].pc # "counted"
    PROVE  CapInv'
<1>1. ActiveFamilies' \subseteq LeftBy(S) \cup {f} /\ ActiveFamilies' \subseteq ActiveFamilies \cup {f}
  <2>. SUFFICES ASSUME NEW g \in Families \ {f}, NEW n, Act(g, n)' PROVE g \in LeftBy(S) /\ g \in ActiveFamilies
    BY DEF ActiveFamilies, HasActive, Act
  <2>1. rows'[g] = [m \in DOMAIN rows[g] |-> IF Token(g, m) \in S THEN "deleted" ELSE rows[g][m]]
    BY DEF InsertToken
  <2>2. Act(g, n) /\ Token(g, n) \notin S
    BY <2>1 DEF Act
  <2>. QED  BY <2>2, ActiveIs DEF LeftBy
<1>2. younger' = [g \in Families |-> IF g = f THEN {} ELSE younger[g] \cup {f}]
  BY DEF InsertToken
<1>3. InLine'
  <2>1. younger' \in [Families -> SUBSET Families] /\ \A g \in Families : g \notin younger'[g]
    BY <1>2 DEF CapInv, InLine
  <2>2. \A g, h \in ActiveFamilies' : g = h \/ g \in younger'[h] \/ h \in younger'[g]
    BY <1>1, <1>2 DEF CapInv, InLine, ActiveFamilies
  <2>3. \A e, g, h \in Families : g \in younger'[e] /\ h \in younger'[g] => h \in younger'[e]
    BY <1>2 DEF CapInv, InLine
  <2>. QED  BY <2>1, <2>2, <2>3 DEF InLine
<1>4. ASSUME ~crowded' PROVE Cardinality(ActiveFamilies') <= MaxActive
  <2>1. LeftBy(S) \in SUBSET Families
    BY DEF LeftBy
  <2>2. IsFiniteSet(LeftBy(S)) /\ Cardinality(LeftBy(S)) \in Nat
    BY <2>1, SmallerSets
  <2>3. /\ IsFiniteSet(LeftBy(S) \cup {f})
        /\ Cardinality(LeftBy(S) \cup {f}) <= Cardinality(LeftBy(S)) + 1
        /\ Cardinality(LeftBy(S) \cup {f}) \in Nat
    <3>1. /\ IsFiniteSet(LeftBy(S) \cup {f})
          /\ Cardinality(LeftBy(S) \cup {f}) \in {Cardinality(LeftBy(S)), Cardinality(LeftBy(S)) + 1}
      BY <2>2, FS_AddElement
    <3>. QED  BY <2>2, <3>1
  <2>4. Cardinality(ActiveFamilies') <= Cardinality(LeftBy(S) \cup {f}) /\ Cardinality(ActiveFamilies') \in Nat
    BY <1>1, <2>3, FS_Subset, FS_CardinalityType
  <2>. QED  BY <1>4, <2>2, <2>3, <2>4 DEF SessionConstants
<1>. QED  BY <1>3, <1>4 DEF CapInv, OneCounts, Roomy

LEMMA CapKeeps ==
    ASSUME SessionConstants, IsFiniteSet(Families), Core, CapInv, [Next]_vars
    PROVE  CapInv'
<1>1. CASE UNCHANGED vars
  BY <1>1, EveryStep, CapQuiet DEF Kept, vars, tokenVars, clientVars, history
<1>2. ASSUME NEW d \in Devices, LoginIssue(d) PROVE CapInv'
  <2>1. PICK f, S : f \in Families /\ f = login[d].fam /\ S = login[d].evicts
    BY <1>2 DEF LoginIssue, Core, Shape
  <2>2. InsertToken(f, S) /\ crowded' = crowded /\ call' = call /\ login' = [login EXCEPT ![d] = NoLogin]
        /\ login[d] # NoLogin
    BY <1>2, <2>1 DEF LoginIssue
  <2>3. ~crowded => /\ Cardinality(LeftBy(S)) <= MaxActive - 1
                    /\ \A e \in Devices : login'[e] = NoLogin
                    /\ \A t \in Tabs : call'[t].pc # "counted"
    BY <2>1, <2>2 DEF CapInv, OneCounts, Roomy, Core, Shape
  <2>. QED  BY <2>1, <2>2, <2>3, CapInserts
<1>3. ASSUME NEW t \in Tabs, RefreshIssue(t) PROVE CapInv'
  <2>1. PICK f, S : f \in Families /\ f = call[t].token.fam /\ S = call[t].evicts
    BY <1>3 DEF RefreshIssue, Core, References, Valid
  <2>2. /\ InsertToken(f, S) /\ crowded' = crowded /\ login' = login /\ call[t].pc = "counted"
        /\ \E c : c.pc = "answered" /\ call' = [call EXCEPT ![t] = c]
    BY <1>3, <2>1 DEF RefreshIssue
  <2>3. ~crowded => /\ Cardinality(LeftBy(S)) <= MaxActive - 1
                    /\ \A d \in Devices : login'[d] = NoLogin
                    /\ \A u \in Tabs : call'[u].pc # "counted"
    BY <2>1, <2>2 DEF CapInv, OneCounts, Roomy, Core, Shape
  <2>. QED  BY <2>1, <2>2, <2>3, CapInserts
<1>. QED  BY <1>1, <1>2, <1>3, CapElsewhere, CapReads DEF Next, RefreshStep

\* A user has more sessions than MAX_SESSIONS_PER_USER only if two logins or
\* refreshes ran at once, each of which counted before the other's new row
\* (issueTokens).
THEOREM SessionsAreCapped ==
    ASSUME IsFiniteSet(Families)
    PROVE  Spec => []CapKept
<1>1. SessionConstants
  BY SessionConstants
<1>2. Init => CapInv
  <2>. SUFFICES ASSUME Init PROVE CapInv
    OBVIOUS
  <2>1. ActiveFamilies = {}
    BY EmptySeq DEF Init, ActiveFamilies, HasActive
  <2>2. Idle.pc = "idle"
    BY DEF Idle
  <2>3. Cardinality(ActiveFamilies) <= MaxActive
    BY <1>1, <2>1, FS_EmptySet DEF SessionConstants
  <2>. QED  BY <2>1, <2>2, <2>3 DEF Init, CapInv, InLine, OneCounts, Roomy
<1>3. Core /\ CapInv /\ [Next]_vars => CapInv'
  BY <1>1, CapKeeps
<1>4. CapInv => CapKept
  BY DEF CapInv, Roomy, CapKept
<1>. QED  BY <1>2, <1>3, <1>4, CoreHolds, PTL DEF Spec
=============================================================================
