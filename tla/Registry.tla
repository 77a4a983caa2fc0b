------------------------------ MODULE Registry ------------------------------
(***************************************************************************)
(* Who administers what, and where repositories live: accounts,            *)
(* organisations and their members, repository names, the redirects old    *)
(* names leave behind, and transfers (store/orgs.go, users.go, repos.go,   *)
(* redirects.go, transfers.go, with the handlers of package api that call  *)
(* them).  A call of the store is a PostgreSQL transaction: it takes its   *)
(* row locks statement by statement, reads what is committed, and its      *)
(* writes appear when it commits.  An organisation is its row, so one      *)
(* created later under the name of a deleted one is another.               *)
(***************************************************************************)
EXTENDS Naturals, Sequences, FiniteSets

CONSTANTS
    Users,
    Gates,            \* what may shut an account out: suspension, pending approval
    Homes,            \* the users whose personal namespaces are modelled
    Orgs,
    Repos,            \* repositories, all of one kind
    RepoNames,
    Sessions,         \* database connections serving requests
    MaxCalls          \* bound: requests that reach the store

ASSUME RegistryAssumption ==
    /\ IsFiniteSet(Users)
    /\ Homes \subseteq Users
    /\ "is_admin" \notin Gates
    /\ MaxCalls \in Nat

Namespaces == Orgs \cup Homes
Places == Namespaces \X RepoNames
Unborn == <<>>
Gone == <<"gone">>
Roles == {"none", "write", "admin"}

Requests ==
    [repo : Repos, from : Places, to : Places, by : Users, lapsed : BOOLEAN,
     status : {"pending", "accepted", "rejected", "cancelled", "expired", "gone"}]

VARIABLES
    org,          \* each organisation: "unborn", "live" or "deleted"
    role,         \* org_members
    siteAdmin,    \* users.is_admin
    shut,         \* per user, the gates closed: disabled_at, approval_pending_at
    place,        \* repositories: namespace and name, or Unborn, or Gone once deleted
    archived,     \* repositories.archived_at
    redirect,     \* repo_redirects: who used to live at a place
    request,      \* repo_transfers that were ever pending, in id order
    call,         \* each session
    rowLock,      \* the row locks each session's transaction holds
    asked         \* requests so far

registryVars ==
    <<org, role, siteAdmin, shut, place, archived, redirect, request, call, rowLock, asked>>
accountVars == <<siteAdmin, shut>>
orgVars == <<org, role>>
repoVars == <<place, archived, redirect>>

Idle == [op |-> "idle"]

\* A session, from its handler's checks to the end of its transaction: how many
\* of the statements that lock are done, and what the handler asked for.
Calls ==
    [op : {"member"}, step : Nat, org : Orgs, user : Users, becomes : Roles]
    \cup [op : {"account"}, step : Nat, user : Users, what : Gates \cup {"is_admin"}, opens : BOOLEAN]
    \cup [op : {"move"}, step : Nat, repo : Repos, to : Places]
    \cup [op : {"file"}, step : Nat, repo : Repos, to : Places, by : Users]
    \cup [op : {"accept"}, step : Nat, id : Nat]
    \cup [op : {"decide"}, step : Nat, id : Nat, status : {"rejected", "cancelled"}]
    \cup [op : {"dissolve"}, step : Nat, org : Orgs]
    \cup [op : {"create"}, step : Nat, repo : Repos, to : Places]
    \cup [op : {"made", "delete"}, step : Nat, repo : Repos]
    \cup {Idle}

-----------------------------------------------------------------------------
(* Reading the tables.                                                     *)

LiveNamespace(n) == n \in Homes \cup {o \in Orgs : org[o] = "live"}
Usable(u) == shut[u] = {}
UsableAdmins == {u \in siteAdmin : Usable(u)}
OrgAdmins(o) == {u \in Users : role[o][u] = "admin"}

\* roleIn: a site administrator administers every namespace.
MayAdmin(u, n) == u \in siteAdmin \/ u = n \/ (n \in Orgs /\ role[n][u] = "admin")
MayWrite(u, n) == MayAdmin(u, n) \/ (n \in Orgs /\ role[n][u] = "write")

Exists(r) == place[r] \in Places
Taken(p) == \E r \in Repos : place[r] = p
Pending(r) == {i \in DOMAIN request : request[i].repo = r /\ request[i].status = "pending"}
Overdue(r) == {i \in Pending(r) : request[i].lapsed}

\* requesterMayStillTransfer, of the request q.
RequesterMayStillTransfer(q) == Usable(q.by) /\ MayAdmin(q.by, q.from[1])

\* resolveTransferTarget: the repository and the target namespace exist, the
\* move changes something and nothing is in its way.
Resolves(r, to) ==
    /\ Exists(r)
    /\ LiveNamespace(to[1])
    /\ place[r] # to
    /\ ~Taken(to)

-----------------------------------------------------------------------------
(* Row locks.  A key-share lock is what a foreign key takes on the row it  *)
(* refers to; a place is locked by the unique index on repositories.       *)

Clashing ==
    {{"keyshare", "update"}, {"share", "nokey"}, {"share", "update"},
     {"nokey"}, {"nokey", "update"}, {"update"}}

Lock(kind, row, mode) == [row |-> <<kind, row>>, mode |-> mode]
RequestLocks(ids, mode) == {Lock("request", i, mode) : i \in ids}

\* As if the organisation's row were read without FOR UPDATE.
OrgLockNone(o) == {}

OrgLock(o) == {Lock("namespace", o, "update")}

\* As if the source namespace were read without a lock.
SourceLockNone(n) == {}

\* As if it were locked FOR UPDATE.
SourceLockExclusive(n) == {Lock("namespace", n, "update")}

SourceLock(n) == {Lock("namespace", n, "share")}
ForeignKey(n) == {Lock("namespace", n, "keyshare")}
HomeKey(r) == IF Exists(r) THEN ForeignKey(place[r][1]) ELSE {}
NewPlace(p) == {Lock("place", p, "update")} \cup ForeignKey(p[1])
AdminsLock == {Lock("advisory", "site-admins", "update")}

\* The locks of a call's transaction, one set per statement that takes some.
Statements(c) ==
    CASE c.op = "member" -> <<OrgLock(c.org)>>
      [] c.op = "account" -> <<AdminsLock, {Lock("user", c.user, "nokey")}>>
      [] c.op = "move" ->
            <<{Lock("repo", c.repo, "update")}, NewPlace(c.to),
              RequestLocks(Pending(c.repo), "nokey"), HomeKey(c.repo)>>
      [] c.op = "file" ->
            <<{Lock("repo", c.repo, "update")}, RequestLocks(Overdue(c.repo), "nokey"),
              HomeKey(c.repo) \cup ForeignKey(c.to[1])>>
      [] c.op = "accept" ->
            LET q == request[c.id] IN
            <<{Lock("repo", q.repo, "update")}, RequestLocks({c.id}, "update"),
              SourceLock(q.from[1]), {Lock("user", q.by, "share")}, NewPlace(q.to)>>
      [] c.op = "decide" -> <<RequestLocks({c.id}, "update")>>
      [] c.op = "dissolve" ->
            <<OrgLock(c.org),
              RequestLocks({i \in DOMAIN request :
                              /\ request[i].status # "gone"
                              /\ c.org \in {request[i].from[1], request[i].to[1]}}, "update")>>
      [] c.op = "create" -> <<NewPlace(c.to)>>
      [] c.op = "delete" ->
            <<{Lock("repo", c.repo, "update")},
              RequestLocks({i \in DOMAIN request : request[i].repo = c.repo}, "update")>>
      [] OTHER -> <<>>

\* What the call's next statement has to lock.
Wants(c) == IF c.op # "idle" /\ c.step < Len(Statements(c)) THEN Statements(c)[c.step + 1] ELSE {}

\* Session s would wait for session t.
Blocked(s, t) ==
    /\ s # t
    /\ \E k \in Wants(call[s]), h \in rowLock[t] : k.row = h.row /\ {k.mode, h.mode} \in Clashing

\* A statement outside any transaction of the model, which locks k.
Unheld(k) ==
    \A t \in Sessions : \A h \in rowLock[t] : k.row = h.row => {k.mode, h.mode} \notin Clashing

-----------------------------------------------------------------------------
(* A transaction, one step per statement that locks.                       *)

\* guardLastOrgAdmin.
KeepsOrgAdmin(c) ==
    role[c.org][c.user] = "admin" /\ c.becomes # "admin" => Cardinality(OrgAdmins(c.org)) > 1

\* guardLastSiteAdmin, before an administrator loses the flag or a gate closes.
KeepsSiteAdmin(c) ==
    c.user \in siteAdmin /\ c.opens = FALSE => Cardinality(UsableAdmins) > 1

Answerable(i) == request[i].status = "pending" /\ ~request[i].lapsed
StillThere(q) == place[q.repo] = q.from

\* The overdue requests whose rows this transaction has written.
Expiring(s) == {i \in DOMAIN request : Lock("request", i, "nokey") \in rowLock[s]}

\* What the statement under way has to find, once it has its locks, for the
\* transaction to go on.
Finds(s) ==
    LET c == call[s]  q == request[c.id] IN
    /\ c.op = "member" => org[c.org] = "live" /\ role[c.org][c.user] # "none" /\ KeepsOrgAdmin(c)
    /\ c.op = "account" /\ c.step = 0 =>
            (c.what \in Gates => c.opens = (c.what \in shut[c.user])) /\ KeepsSiteAdmin(c)
    /\ c.op \in {"move", "file"} /\ c.step = 0 => Resolves(c.repo, c.to)
    /\ c.op = "move" /\ c.step = 1 => ~Taken(c.to) /\ LiveNamespace(c.to[1])
    /\ c.op = "file" /\ c.step = 2 =>
            LiveNamespace(c.to[1]) /\ Pending(c.repo) \subseteq Expiring(s)
    /\ c.op = "accept" /\ c.step = 0 => Exists(q.repo)
    /\ c.op = "accept" /\ c.step = 1 => Answerable(c.id) /\ StillThere(q)
    /\ c.op = "accept" /\ c.step = 3 => RequesterMayStillTransfer(q) /\ q.repo \notin archived
    /\ c.op = "accept" /\ c.step = 4 => Resolves(q.repo, q.to)
    /\ c.op = "decide" => Answerable(c.id)
    /\ c.op = "dissolve" =>
            org[c.org] = "live" /\ \A r \in Repos : Exists(r) => place[r][1] # c.org
    /\ c.op = "create" => ~Taken(c.to) /\ LiveNamespace(c.to[1])
    /\ c.op = "delete" => Exists(c.repo)

\* A decision that is refused still writes: an overdue request expires, and one
\* that no longer means what it said is void.
StatusAfterRefusal(c) ==
    LET q == request[c.id]
        void == \/ c.step = 1 /\ ~StillThere(q)
                \/ c.step = 3 /\ ~RequesterMayStillTransfer(q)
    IN
    IF q.status # "pending" THEN q.status
    ELSE IF q.lapsed /\ (c.op = "decide" \/ c.step = 1) THEN "expired"
    ELSE IF c.op = "accept" /\ void THEN "cancelled"
    ELSE "pending"

Executes(s) ==
    /\ call[s].op # "idle" /\ call[s].step < Len(Statements(call[s]))
    /\ \A t \in Sessions : ~Blocked(s, t)

Statement(s) ==
    /\ Executes(s) /\ Finds(s)
    /\ rowLock' = [rowLock EXCEPT ![s] = @ \cup Wants(call[s])]
    /\ call' = [call EXCEPT ![s].step = @ + 1]
    /\ UNCHANGED <<accountVars, orgVars, repoVars, request, asked>>

Ends(s) ==
    /\ call' = [call EXCEPT ![s] = Idle]
    /\ rowLock' = [rowLock EXCEPT ![s] = {}]

TurnedDown(s) ==
    /\ Executes(s) /\ ~Finds(s)
    /\ Ends(s)
    /\ request' = IF call[s].op \in {"accept", "decide"}
                  THEN [request EXCEPT ![call[s].id].status = StatusAfterRefusal(call[s])]
                  ELSE request
    /\ UNCHANGED <<accountVars, orgVars, repoVars, asked>>

\* The request is cancelled, the process dies, the connection is lost, or
\* PostgreSQL breaks a deadlock: the transaction is rolled back.
RolledBack(s) ==
    /\ call[s].op \notin {"idle", "made"}
    /\ Ends(s)
    /\ UNCHANGED <<accountVars, orgVars, repoVars, request, asked>>

CommitsAs(s, op) ==
    /\ call[s].op = op /\ call[s].step = Len(Statements(call[s]))
    /\ UNCHANGED asked

-----------------------------------------------------------------------------
(* What each transaction writes.                                           *)

\* UpdateOrgMemberRole, and RemoveOrgMember when the role is "none".
SetOrgMember(s) ==
    LET c == call[s] IN
    /\ CommitsAs(s, "member") /\ Ends(s)
    /\ role' = [role EXCEPT ![c.org][c.user] = c.becomes]
    /\ UNCHANGED <<accountVars, org, repoVars, request>>

\* SetUserAdmin, or setUserGate for SetUserDisabled and SetUserApproval.
SetAccount(s) ==
    LET c == call[s] IN
    /\ CommitsAs(s, "account") /\ Ends(s)
    /\ IF c.what = "is_admin"
          THEN /\ siteAdmin' = IF c.opens THEN siteAdmin \cup {c.user} ELSE siteAdmin \ {c.user}
               /\ UNCHANGED shut
          ELSE /\ shut' = [shut EXCEPT ![c.user] = IF c.opens THEN @ \ {c.what} ELSE @ \cup {c.what}]
               /\ UNCHANGED siteAdmin
    /\ UNCHANGED <<orgVars, repoVars, request>>

\* As if the redirect at the new place stayed.
RelocatedUnderRedirect(r, to) ==
    /\ place' = [place EXCEPT ![r] = to]
    /\ redirect' = [redirect EXCEPT ![place[r]] = {r}]
    /\ UNCHANGED archived

\* transferMove: the repository goes to its new place and leaves a redirect, the
\* redirect at the new place goes.
Relocated(r, to) ==
    /\ place' = [place EXCEPT ![r] = to]
    /\ redirect' = [redirect EXCEPT ![place[r]] = {r}, ![to] = {}]
    /\ UNCHANGED archived

\* Every other pending transfer of r is cancelled.
Cancelled(r, keep) ==
    [i \in DOMAIN request |->
        IF i \in Pending(r) \ keep THEN [request[i] EXCEPT !.status = "cancelled"] ELSE request[i]]

TransferRepo(s) ==
    LET c == call[s] IN
    /\ CommitsAs(s, "move") /\ Ends(s)
    /\ Relocated(c.repo, c.to)
    /\ request' = Cancelled(c.repo, {})
    /\ UNCHANGED <<accountVars, orgVars>>

AcceptRepoTransfer(s) ==
    LET c == call[s]  q == request[c.id] IN
    /\ CommitsAs(s, "accept") /\ Ends(s)
    /\ Relocated(q.repo, q.to)
    /\ request' = [Cancelled(q.repo, {c.id}) EXCEPT ![c.id].status = "accepted"]
    /\ UNCHANGED <<accountVars, orgVars>>

\* CreateRepoTransfer: the overdue request nobody answered makes room.
CreateRepoTransfer(s) ==
    LET c == call[s] IN
    /\ CommitsAs(s, "file") /\ Ends(s)
    /\ request' = Append([i \in DOMAIN request |->
                            IF i \in Expiring(s) THEN [request[i] EXCEPT !.status = "expired"]
                                                    ELSE request[i]],
                         [repo |-> c.repo, from |-> place[c.repo], to |-> c.to, by |-> c.by,
                          status |-> "pending", lapsed |-> FALSE])
    /\ UNCHANGED <<accountVars, orgVars, repoVars>>

\* RejectRepoTransfer and CancelRepoTransfer.
DecideRepoTransfer(s) ==
    LET c == call[s] IN
    /\ CommitsAs(s, "decide") /\ Ends(s)
    /\ request' = [request EXCEPT ![c.id].status = c.status]
    /\ UNCHANGED <<accountVars, orgVars, repoVars>>

\* The cascade: these rows go with an organisation or a repository.
Without(ids) ==
    [i \in DOMAIN request |-> IF i \in ids THEN [request[i] EXCEPT !.status = "gone"] ELSE request[i]]

DeleteOrg(s) ==
    LET o == call[s].org IN
    /\ CommitsAs(s, "dissolve") /\ Ends(s)
    /\ org' = [org EXCEPT ![o] = "deleted"]
    /\ role' = [role EXCEPT ![o] = [u \in Users |-> "none"]]
    /\ redirect' = [p \in Places |-> IF p[1] = o THEN {} ELSE redirect[p]]
    /\ request' = Without({i \in DOMAIN request : o \in {request[i].from[1], request[i].to[1]}})
    /\ UNCHANGED <<accountVars, place, archived>>

\* CreateRepo; the handler goes on to make the repository itself.
CreateRepo(s) ==
    LET c == call[s] IN
    /\ CommitsAs(s, "create")
    /\ call' = [call EXCEPT ![s] = [op |-> "made", step |-> 0, repo |-> c.repo]]
    /\ rowLock' = [rowLock EXCEPT ![s] = {}]
    /\ place' = [place EXCEPT ![c.repo] = c.to]
    /\ redirect' = [redirect EXCEPT ![c.to] = {}]
    /\ UNCHANGED <<accountVars, orgVars, archived, request>>

\* The repository is ready, or the process died with its row already there.
RepoMade(s) ==
    /\ call[s].op = "made" /\ Ends(s)
    /\ UNCHANGED <<accountVars, orgVars, repoVars, request, asked>>

\* rollbackCreateRepo: git, the log or the queue refused the first commit.
RollbackCreateRepo(s) ==
    /\ call[s].op = "made"
    /\ call' = [call EXCEPT ![s] = [op |-> "delete", step |-> 0, repo |-> call[s].repo]]
    /\ UNCHANGED <<accountVars, orgVars, repoVars, request, rowLock, asked>>

DropRepo(s) ==
    LET r == call[s].repo IN
    /\ CommitsAs(s, "delete") /\ Ends(s)
    /\ place' = [place EXCEPT ![r] = Gone]
    /\ archived' = archived \ {r}
    /\ redirect' = [p \in Places |-> redirect[p] \ {r}]
    /\ request' = Without({i \in DOMAIN request : request[i].repo = r})
    /\ UNCHANGED <<accountVars, orgVars>>

-----------------------------------------------------------------------------
(* The handlers: what they check before they call the store.  Their checks *)
(* hold when they are made, and nothing keeps them true afterwards.        *)

Asks(s, c) ==
    /\ call' = [call EXCEPT ![s] = c]
    /\ asked' = asked + 1
    /\ UNCHANGED <<accountVars, orgVars, repoVars, request, rowLock>>

Administered(n) == \E a \in Users : Usable(a) /\ MayAdmin(a, n)

\* handleUpdateOrgMember and handleRemoveOrgMember; a member may leave.
AskMember(s, o, u, to) ==
    /\ org[o] = "live" /\ role[o][u] \notin {"none", to}
    /\ Administered(o) \/ (to = "none" /\ Usable(u))
    /\ Asks(s, [op |-> "member", step |-> 0, org |-> o, user |-> u, becomes |-> to])

\* handleAdminUpdateUser: no administrator does this to themselves.
AskAccount(s, u, what, opens) ==
    /\ opens = IF what = "is_admin" THEN u \notin siteAdmin ELSE what \in shut[u]
    /\ UsableAdmins \ (IF opens THEN {} ELSE {u}) # {}
    /\ Asks(s, [op |-> "account", step |-> 0, user |-> u, what |-> what, opens |-> opens])

\* startTransfer: at once where the actor may write, else by request.
AskTransfer(s, by, r, to) ==
    /\ Usable(by) /\ Exists(r) /\ r \notin archived
    /\ MayAdmin(by, place[r][1]) /\ LiveNamespace(to[1])
    /\ Asks(s, IF MayWrite(by, to[1]) THEN [op |-> "move", step |-> 0, repo |-> r, to |-> to]
               ELSE [op |-> "file", step |-> 0, repo |-> r, to |-> to, by |-> by])

\* handleDecideTransfer and handleCancelTransfer.
AskDecision(s, by, i, status) ==
    /\ Usable(by) /\ request[i].status # "gone"
    /\ IF status = "cancelled"
          THEN /\ Answerable(i) /\ Exists(request[i].repo)
               /\ MayAdmin(by, place[request[i].repo][1])
          ELSE MayWrite(by, request[i].to[1])
    /\ Asks(s, IF status = "accepted" THEN [op |-> "accept", step |-> 0, id |-> i]
                ELSE [op |-> "decide", step |-> 0, id |-> i, status |-> status])

AskDeleteOrg(s, o) ==
    /\ org[o] = "live" /\ Administered(o)
    /\ Asks(s, [op |-> "dissolve", step |-> 0, org |-> o])

AskCreateRepo(s, r, to) ==
    /\ place[r] = Unborn /\ \A t \in Sessions : call[t].op = "create" => call[t].repo # r
    /\ LiveNamespace(to[1]) /\ \E by \in Users : Usable(by) /\ MayWrite(by, to[1])
    /\ Asks(s, [op |-> "create", step |-> 0, repo |-> r, to |-> to])

AskDeleteRepo(s, r) ==
    /\ Exists(r) /\ Administered(place[r][1])
    /\ Asks(s, [op |-> "delete", step |-> 0, repo |-> r])

-----------------------------------------------------------------------------
(* Calls that are one statement.                                           *)

AtOnce == asked < MaxCalls /\ asked' = asked + 1 /\ UNCHANGED <<accountVars, request, call, rowLock>>

CreateOrg(o, u) ==
    /\ AtOnce /\ org[o] = "unborn" /\ Usable(u)
    /\ org' = [org EXCEPT ![o] = "live"]
    /\ role' = [role EXCEPT ![o][u] = "admin"]
    /\ UNCHANGED repoVars

AddOrgMember(o, u, to) ==
    /\ AtOnce /\ org[o] = "live" /\ Administered(o) /\ role[o][u] = "none"
    /\ Unheld(Lock("namespace", o, "keyshare"))
    /\ role' = [role EXCEPT ![o][u] = to]
    /\ UNCHANGED <<org, repoVars>>

SetRepoArchived(r) ==
    /\ AtOnce /\ Exists(r) /\ Administered(place[r][1])
    /\ Unheld(Lock("repo", r, "nokey"))
    /\ archived' = IF r \in archived THEN archived \ {r} ELSE archived \cup {r}
    /\ UNCHANGED <<orgVars, place, redirect>>

\* Time passes expires_at.
RequestLapses(i) ==
    /\ Answerable(i)
    /\ request' = [request EXCEPT ![i].lapsed = TRUE]
    /\ UNCHANGED <<accountVars, orgVars, repoVars, call, rowLock, asked>>

-----------------------------------------------------------------------------
(* The specification.                                                      *)

\* Pending requests of those who administer the repository.
Filings ==
    UNION {[repo : {r}, from : {place[r]}, to : {p \in Places \ {place[r]} : LiveNamespace(p[1])},
            by : {u \in Users : MayAdmin(u, place[r][1])}, status : {"pending"}, lapsed : {FALSE}]
           : r \in {r \in Repos : Exists(r)}}

NoCalls ==
    /\ call = [s \in Sessions |-> Idle]
    /\ rowLock = [s \in Sessions |-> {}]
    /\ asked = 0

\* Any tables that calls before these may have left.
RegistryInit ==
    /\ org \in [Orgs -> {"unborn", "live"}]
    /\ role \in [Orgs -> [Users -> {"none", "admin"}]]
    /\ \A o \in Orgs : IF org[o] = "live" THEN OrgAdmins(o) # {}
                                        ELSE \A u \in Users : role[o][u] = "none"
    /\ siteAdmin \in (SUBSET Users) \ {{}}
    /\ shut = [u \in Users |-> {}]
    /\ place \in [Repos -> Places \cup {Unborn}]
    /\ \A r \in Repos : Exists(r) =>
        LiveNamespace(place[r][1]) /\ \A x \in Repos \ {r} : place[x] # place[r]
    /\ archived = {}
    /\ redirect = [p \in Places |-> {}]
    /\ request \in UNION {[1..n -> Filings] : n \in 0..Cardinality(Repos)}
    /\ \A i, j \in DOMAIN request : request[i].repo = request[j].repo => i = j
    /\ NoCalls

\* An instance nobody uses.
EmptyTables ==
    /\ org = [o \in Orgs |-> "unborn"] /\ role = [o \in Orgs |-> [u \in Users |-> "none"]]
    /\ siteAdmin = Users /\ shut = [u \in Users |-> {}]
    /\ place = [r \in Repos |-> Unborn] /\ archived = {} /\ redirect = [p \in Places |-> {}]
    /\ request = <<>> /\ NoCalls

Executing(s) ==
    \/ Statement(s) \/ TurnedDown(s) \/ RolledBack(s)
    \/ SetOrgMember(s) \/ SetAccount(s)
    \/ TransferRepo(s) \/ AcceptRepoTransfer(s) \/ CreateRepoTransfer(s) \/ DecideRepoTransfer(s)
    \/ DeleteOrg(s)
    \/ CreateRepo(s) \/ RepoMade(s) \/ RollbackCreateRepo(s) \/ DropRepo(s)

Asking(s) ==
    /\ asked < MaxCalls /\ call[s].op = "idle"
    /\ \/ \E o \in Orgs, u \in Users, to \in Roles : AskMember(s, o, u, to)
       \/ \E u \in Users, what \in Gates \cup {"is_admin"}, opens \in BOOLEAN :
               AskAccount(s, u, what, opens)
       \/ \E by \in Users, r \in Repos, to \in Places : AskTransfer(s, by, r, to)
       \/ \E by \in Users, i \in DOMAIN request, status \in {"accepted", "rejected", "cancelled"} :
               AskDecision(s, by, i, status)
       \/ \E o \in Orgs : AskDeleteOrg(s, o)
       \/ \E r \in Repos, to \in Places : AskCreateRepo(s, r, to)
       \/ \E r \in Repos : AskDeleteRepo(s, r)

RegistryNext ==
    \/ \E s \in Sessions : Asking(s) \/ Executing(s)
    \/ \E o \in Orgs, u \in Users : CreateOrg(o, u)
    \/ \E o \in Orgs, u \in Users, to \in {"write", "admin"} : AddOrgMember(o, u, to)
    \/ \E r \in Repos : SetRepoArchived(r)
    \/ \E i \in DOMAIN request : RequestLapses(i)

RegistrySpec == RegistryInit /\ [][RegistryNext]_registryVars

-----------------------------------------------------------------------------
(* Properties.                                                             *)

RegistryTypeOK ==
    /\ org \in [Orgs -> {"unborn", "live", "deleted"}]
    /\ role \in [Orgs -> [Users -> Roles]]
    /\ siteAdmin \subseteq Users /\ shut \in [Users -> SUBSET Gates]
    /\ place \in [Repos -> Places \cup {Unborn, Gone}]
    /\ archived \subseteq Repos
    /\ redirect \in [Places -> SUBSET Repos]
    /\ request \in Seq(Requests)
    /\ call \in [Sessions -> Calls] /\ DOMAIN rowLock = Sessions
    /\ asked \in 0..MaxCalls

\* Every organisation has a member who administers it, and the instance has a
\* site administrator who can sign in, whatever changes to members and accounts
\* run at once (orgs.go:503-528, users.go:296-316).
AdminsRemain ==
    /\ \A o \in Orgs : org[o] = "live" => OrgAdmins(o) # {}
    /\ UsableAdmins # {}

\* A redirect stands at a name of a live namespace that no repository has, and
\* leads to one repository that exists.
RedirectsLead ==
    \A p \in Places : redirect[p] # {} =>
        /\ LiveNamespace(p[1]) /\ ~Taken(p)
        /\ Cardinality(redirect[p]) = 1 /\ \A r \in redirect[p] : Exists(r)

\* A pending request offers a repository from where it lives to a namespace that
\* exists, and is its only one.
RequestsStand ==
    \A i \in DOMAIN request : request[i].status = "pending" =>
        /\ StillThere(request[i])
        /\ \A n \in {request[i].from[1], request[i].to[1]} : LiveNamespace(n)
        /\ Pending(request[i].repo) = {i}

PlacesApart ==
    \A r \in Repos : Exists(r) =>
        LiveNamespace(place[r][1]) /\ \A x \in Repos \ {r} : place[x] # place[r]

\* A name leads to one repository, wherever it was moved, and a request means
\* what it said, whatever moves, is renamed or goes at the same time
\* (transfers.go:204-216, repos.go:167).
NamesLead == RedirectsLead /\ RequestsStand /\ PlacesApart

\* No set of requests waits for itself: a transaction always gets its locks in
\* the end, unless an organisation that is being deleted is among those it
\* waits for (transfers.go:465-468 and 588-597).
NoLockCycle ==
    \A D \in SUBSET {s \in Sessions : call[s].op # "dissolve"} :
        D # {} => \E s \in D : \A t \in D : ~Blocked(s, t)

Decision(i) ==
    LET q == request[i]  status == request'[i].status IN
    IF q.status = "pending"
        THEN status = "accepted" =>
                StillThere(q) /\ RequesterMayStillTransfer(q) /\ q.repo \notin archived
        ELSE status \in {q.status, "gone"}

\* A transfer completes while its requester still has the authority they filed
\* it with, from where they filed it, on a repository that is not archived; and
\* a decision stands (transfers.go:583-587, 546-561).
AcceptedWithAuthority == [][\A i \in DOMAIN request : Decision(i)]_registryVars
=============================================================================
