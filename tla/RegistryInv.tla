---------------------------- MODULE RegistryInv ----------------------------
(***************************************************************************)
(* The inductive invariant behind AdminsRemain, NamesLead,                 *)
(* AcceptedWithAuthority and NoLockCycle: what each transaction has found  *)
(* and may rely on until it commits, because of the locks it holds, and    *)
(* which locks those can be.                                               *)
(***************************************************************************)
EXTENDS Registry

HoldsLock(s, kind, row, mode) == Lock(kind, row, mode) \in rowLock[s]

HoldsPlace(s, p) ==
    HoldsLock(s, "place", p, "update") /\ HoldsLock(s, "namespace", p[1], "keyshare")

\* Transactions never hold locks that clash.
LocksExclude ==
    \A s, t \in Sessions : s # t =>
        \A k \in rowLock[s], h \in rowLock[t] : k.row = h.row => {k.mode, h.mode} \notin Clashing

\* What a transaction has not begun to do it holds no locks for.
HoldsNothing ==
    \A s \in Sessions :
        call[s].op \in {"idle", "made"} \/ call[s].step = 0 => rowLock[s] = {}

\* A repository is made by one request.
CreatesApart ==
    \A s, t \in Sessions :
        call[s].op = "create" /\ call[t].op = "create" /\ call[s].repo = call[t].repo => s = t

\* Place p is free, in a namespace that stays.
Free(s, p) == HoldsPlace(s, p) /\ ~Taken(p) /\ LiveNamespace(p[1])

HoldsRepo(s, r) == HoldsLock(s, "repo", r, "update") /\ Exists(r)

HoldsRequests(s, ids) ==
    \A i \in ids : HoldsLock(s, "request", i, "update") \/ HoldsLock(s, "request", i, "nokey")

\* The requests that go when organisation o does.
Touching(o) ==
    {i \in DOMAIN request : request[i].status # "gone" /\ o \in {request[i].from[1], request[i].to[1]}}

RequestsOf(r) == {i \in DOMAIN request : request[i].repo = r}

MemberGuard(s) ==
    LET c == call[s] IN
    c.op = "member" /\ c.step > 0 =>
        HoldsLock(s, "namespace", c.org, "update") /\ org[c.org] = "live" /\ KeepsOrgAdmin(c)

AccountGuard(s) ==
    LET c == call[s] IN
    c.op = "account" /\ c.step > 0 =>
        /\ HoldsLock(s, "advisory", "site-admins", "update") /\ KeepsSiteAdmin(c)
        /\ c.step > 1 => HoldsLock(s, "user", c.user, "nokey")

MoveGuard(s) ==
    LET c == call[s] IN
    c.op = "move" /\ c.step > 0 =>
        /\ HoldsRepo(s, c.repo) /\ place[c.repo] # c.to
        /\ c.step > 1 => Free(s, c.to)
        /\ c.step > 2 => HoldsRequests(s, Pending(c.repo))

FileGuard(s) ==
    LET c == call[s] IN
    c.op = "file" /\ c.step > 0 =>
        /\ HoldsRepo(s, c.repo)
        /\ \A h \in rowLock[s] : h.mode = "nokey" =>
                \E i \in DOMAIN request :
                    h = Lock("request", i, "nokey") /\ request[i].status = "pending"
        /\ c.step > 2 =>
            /\ Pending(c.repo) \subseteq Expiring(s) /\ LiveNamespace(c.to[1])
            /\ HoldsLock(s, "namespace", place[c.repo][1], "keyshare")
            /\ HoldsLock(s, "namespace", c.to[1], "keyshare")

AcceptGuard(s) ==
    LET c == call[s]  q == request[c.id] IN
    c.op = "accept" =>
        /\ c.id \in DOMAIN request
        /\ c.step > 0 => HoldsRepo(s, q.repo)
        /\ c.step > 1 => HoldsLock(s, "request", c.id, "update") /\ q.status = "pending"
        /\ c.step > 2 => HoldsLock(s, "namespace", q.from[1], "share")
        /\ c.step > 3 =>
            /\ HoldsLock(s, "user", q.by, "share")
            /\ RequesterMayStillTransfer(q) /\ q.repo \notin archived
        /\ c.step > 4 => Free(s, q.to) /\ place[q.repo] # q.to

DecideGuard(s) ==
    LET c == call[s] IN
    c.op = "decide" =>
        /\ c.id \in DOMAIN request
        /\ c.step > 0 =>
            HoldsLock(s, "request", c.id, "update") /\ request[c.id].status = "pending"

DissolveGuard(s) ==
    LET c == call[s] IN
    c.op = "dissolve" /\ c.step > 0 =>
        /\ HoldsLock(s, "namespace", c.org, "update") /\ org[c.org] = "live"
        /\ \A r \in Repos : Exists(r) => place[r][1] # c.org
        /\ c.step > 1 => HoldsRequests(s, Touching(c.org))

CreateGuard(s) ==
    LET c == call[s] IN
    c.op = "create" =>
        /\ place[c.repo] = Unborn
        /\ c.step > 0 => Free(s, c.to)

DeleteGuard(s) ==
    LET c == call[s] IN
    c.op = "delete" /\ c.step > 0 =>
        /\ HoldsRepo(s, c.repo)
        /\ c.step > 1 => HoldsRequests(s, RequestsOf(c.repo))

Guarded(s) ==
    /\ MemberGuard(s) /\ AccountGuard(s) /\ MoveGuard(s) /\ FileGuard(s) /\ AcceptGuard(s)
    /\ DecideGuard(s) /\ DissolveGuard(s) /\ CreateGuard(s) /\ DeleteGuard(s)

\* A redirect leads to one repository.
RedirectsSingle == \A p \in Places : redirect[p] # {} => \E r \in Repos : redirect[p] = {r}

RegistryInv ==
    /\ RegistryTypeOK /\ LocksExclude /\ HoldsNothing /\ CreatesApart
    /\ \A s \in Sessions : Guarded(s)
    /\ AdminsRemain /\ NamesLead /\ RedirectsSingle

\* What the rows that others may wait for say of a transaction that has locked h:
\* what it is, how far it has come, and which request it is about.
Fits(requests, c, h) ==
    /\ h.row[1] = "namespace" =>
        h.mode \in {"keyshare", "share"} \/ c.op \in {"member", "dissolve"}
    /\ h.row[1] = "user" =>
        (c.op = "account" /\ c.step > 1) \/ (c.op = "accept" /\ h.mode = "share")
    /\ h.row[1] = "place" =>
        \/ c.op = "create"
        \/ c.op = "move" /\ c.step > 1
        \/ c.op = "accept" /\ c.step > 4
    /\ h.row[1] = "request" =>
        \/ c.op \in {"decide", "dissolve"}
        \/ c.op = "accept" /\ h.row[2] = c.id
        \/ /\ c.op \in {"move", "file", "delete"} /\ h.row[2] \in DOMAIN requests
           /\ requests[h.row[2]].repo = c.repo

\* A lock that a transaction holds is one that fits what it does.
LocksFit == \A s \in Sessions : \A h \in rowLock[s] : Fits(request, call[s], h)

=============================================================================
