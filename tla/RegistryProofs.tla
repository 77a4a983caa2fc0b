--------------------------- MODULE RegistryProofs ---------------------------
(***************************************************************************)
(* Accounts, organisations, names and transfers, for any number of users,  *)
(* repositories, sessions and calls.  Every write of a transaction rests   *)
(* on what an earlier statement found, and only the locks keep that true.  *)
(* So: locks that clash are never held together; what a session may write  *)
(* it holds the lock of; what another session relies on it therefore does  *)
(* not write; and a statement leaves its own transaction what the next one *)
(* relies on.  From the invariant each commit is then safe on its own.     *)
(* And as the locks are taken in an order, nobody waits in a circle.       *)
(***************************************************************************)
EXTENDS RegistryInv, FiniteSetTheorems, TLAPS

-----------------------------------------------------------------------------
(* Calls.                                                                  *)

\* What a call of each kind has.
LEMMA CallFacts ==
    ASSUME NEW c \in Calls
    PROVE  /\ c.op \in {"idle", "member", "account", "move", "file", "accept", "decide", "dissolve",
                        "create", "made", "delete"}
           /\ c.op # "idle" => c.step \in Nat
           /\ c.op = "member" => c.org \in Orgs /\ c.user \in Users /\ c.becomes \in Roles
           /\ c.op = "account" =>
                c.user \in Users /\ c.what \in Gates \cup {"is_admin"} /\ c.opens \in BOOLEAN
           /\ c.op \in {"move", "file", "create"} => c.repo \in Repos /\ c.to \in Places
           /\ c.op = "file" => c.by \in Users
           /\ c.op \in {"accept", "decide"} => c.id \in Nat
           /\ c.op = "decide" => c.status \in {"rejected", "cancelled"}
           /\ c.op = "dissolve" => c.org \in Orgs
           /\ c.op \in {"made", "delete"} => c.repo \in Repos
BY DEF Calls, Idle

\* The next statement of the same call.
LEMMA AdvancedFacts ==
    ASSUME NEW c \in Calls, c.op # "idle", NEW d, d = [c EXCEPT !.step = c.step + 1]
    PROVE  /\ d \in Calls
           /\ d.op = c.op /\ d.step = c.step + 1
           /\ c.op = "member" => d.org = c.org /\ d.user = c.user /\ d.becomes = c.becomes
           /\ c.op = "account" => d.user = c.user /\ d.what = c.what /\ d.opens = c.opens
           /\ c.op \in {"move", "file", "create"} => d.repo = c.repo /\ d.to = c.to
           /\ c.op = "file" => d.by = c.by
           /\ c.op \in {"accept", "decide"} => d.id = c.id
           /\ c.op = "decide" => d.status = c.status
           /\ c.op = "dissolve" => d.org = c.org
           /\ c.op \in {"made", "delete"} => d.repo = c.repo
BY CallFacts DEF Calls, Idle

\* The statements of each call.
LEMMA StatementsOf ==
    ASSUME NEW c
    PROVE  /\ c.op = "member" => Statements(c) = <<OrgLock(c.org)>>
           /\ c.op = "account" =>
                Statements(c) = <<AdminsLock, {Lock("user", c.user, "nokey")}>>
           /\ c.op = "move" =>
                Statements(c) =
                    <<{Lock("repo", c.repo, "update")}, NewPlace(c.to),
                      RequestLocks(Pending(c.repo), "nokey"), HomeKey(c.repo)>>
           /\ c.op = "file" =>
                Statements(c) =
                    <<{Lock("repo", c.repo, "update")}, RequestLocks(Overdue(c.repo), "nokey"),
                      HomeKey(c.repo) \cup ForeignKey(c.to[1])>>
           /\ c.op = "accept" =>
                Statements(c) =
                    <<{Lock("repo", request[c.id].repo, "update")}, RequestLocks({c.id}, "update"),
                      SourceLock(request[c.id].from[1]), {Lock("user", request[c.id].by, "share")},
                      NewPlace(request[c.id].to)>>
           /\ c.op = "decide" => Statements(c) = <<RequestLocks({c.id}, "update")>>
           /\ c.op = "dissolve" =>
                Statements(c) =
                    <<OrgLock(c.org),
                      RequestLocks({i \in DOMAIN request :
                              /\ request[i].status # "gone"
                              /\ c.org \in {request[i].from[1], request[i].to[1]}}, "update")>>
           /\ c.op = "create" => Statements(c) = <<NewPlace(c.to)>>
           /\ c.op = "delete" =>
                Statements(c) =
                    <<{Lock("repo", c.repo, "update")},
                      RequestLocks({i \in DOMAIN request : request[i].repo = c.repo}, "update")>>
BY ZenonT(60) DEF Statements

-----------------------------------------------------------------------------
(* Locks.                                                                  *)

\* The clashes the proofs use: FOR UPDATE with everything, FOR NO KEY UPDATE with
\* itself and FOR SHARE.
LEMMA ClashFacts ==
    /\ \A m \in {"keyshare", "share", "nokey", "update"} :
            {"update", m} \in Clashing /\ {m, "update"} \in Clashing
    /\ {"nokey", "nokey"} \in Clashing
    /\ {"nokey", "share"} \in Clashing /\ {"share", "nokey"} \in Clashing
BY DEF Clashing

\* The row and the mode of a lock.
LEMMA LockFacts ==
    ASSUME NEW kind, NEW row, NEW mode
    PROVE  Lock(kind, row, mode).row = <<kind, row>> /\ Lock(kind, row, mode).mode = mode
BY DEF Lock

\* Two sessions never hold clashing locks of one row.
LEMMA Excluded ==
    ASSUME LocksExclude, NEW s \in Sessions, NEW t \in Sessions, s # t, NEW kind, NEW row, NEW m, NEW n,
           HoldsLock(s, kind, row, m), HoldsLock(t, kind, row, n)
    PROVE  {m, n} \notin Clashing
BY LockFacts DEF LocksExclude, HoldsLock

\* A statement outside a transaction waits for who holds a clashing lock.
LEMMA UnheldFacts ==
    ASSUME NEW kind, NEW row, NEW m, NEW n, Unheld(Lock(kind, row, m)), {m, n} \in Clashing,
           NEW t \in Sessions
    PROVE  ~HoldsLock(t, kind, row, n)
BY LockFacts DEF Unheld, HoldsLock

-----------------------------------------------------------------------------
(* What a step does to the sessions.                                       *)

\* Nothing happens to the sessions but s.
OthersRest(s) == \A t \in Sessions : t # s => call'[t] = call[t] /\ rowLock'[t] = rowLock[t]

\* Session s drops its locks and is at rest, or at the start of a call.
Released(s) ==
    /\ DOMAIN call' = Sessions /\ DOMAIN rowLock' = Sessions
    /\ OthersRest(s)
    /\ rowLock'[s] = {}
    /\ call' = [call EXCEPT ![s] = call'[s]]
    /\ call'[s] \in Calls
    /\ call'[s].op = "idle" \/ call'[s].step = 0

\* A session at rest.
LEMMA IdleFacts == Idle \in Calls /\ Idle.op = "idle"
BY DEF Idle, Calls

\* The end of a transaction releases its locks.
LEMMA EndsReleases ==
    ASSUME RegistryTypeOK, NEW s \in Sessions, Ends(s) PROVE Released(s)
BY IdleFacts DEF RegistryTypeOK, Ends, Released, OthersRest

\* Every step of a session but a statement ends or begins a call.
LEMMA OtherStepsRelease ==
    ASSUME RegistryTypeOK, HoldsNothing, NEW s \in Sessions, Asking(s) \/ Executing(s), ~Statement(s)
    PROVE  Released(s)
<1>1. ASSUME NEW c \in Calls, c.op # "idle", c.step = 0, call' = [call EXCEPT ![s] = c],
             DOMAIN rowLock' = Sessions, rowLock'[s] = {},
             \A t \in Sessions : t # s => rowLock'[t] = rowLock[t]
      PROVE  Released(s)
  BY <1>1 DEF RegistryTypeOK, Released, OthersRest
<1>2. CASE Executing(s) /\ ~CreateRepo(s) /\ ~RollbackCreateRepo(s)
  BY <1>2, EndsReleases DEF Executing, TurnedDown, RolledBack, SetOrgMember, SetAccount, TransferRepo,
      AcceptRepoTransfer, CreateRepoTransfer, DecideRepoTransfer, DeleteOrg, RepoMade, DropRepo
<1>3. call[s] \in Calls /\ DOMAIN rowLock = Sessions
  BY DEF RegistryTypeOK
<1>4. CASE CreateRepo(s)
  <2>1. call[s].op = "create"
    BY <1>4 DEF CreateRepo, CommitsAs
  <2>2. call[s].repo \in Repos
    BY <1>3, <2>1, CallFacts
  <2>3. [op |-> "made", step |-> 0, repo |-> call[s].repo] \in Calls
    BY <2>2 DEF Calls
  <2>4. QED
    BY <1>1, <1>3, <1>4, <2>3 DEF CreateRepo
<1>5. CASE Asking(s) \/ RollbackCreateRepo(s)
  <2>1. call[s].op \in {"idle", "made"}
    BY <1>5 DEF Asking, RollbackCreateRepo
  <2>2. rowLock[s] = {}
    BY <2>1 DEF HoldsNothing
  <2>3. rowLock' = rowLock
    BY <1>5 DEF Asking, RollbackCreateRepo, AskMember, AskAccount, AskTransfer, AskDecision,
        AskDeleteOrg, AskCreateRepo, AskDeleteRepo, Asks
  <2>4. ASSUME NEW c \in Calls, c.op # "idle", c.step = 0, Asks(s, c) PROVE Released(s)
    BY <1>1, <1>3, <2>2, <2>3, <2>4 DEF Asks
  <2>5. CASE RollbackCreateRepo(s)
    <3>1. call[s].repo \in Repos
      BY <1>3, <2>5, CallFacts DEF RollbackCreateRepo
    <3>2. [op |-> "delete", step |-> 0, repo |-> call[s].repo] \in Calls
      BY <3>1 DEF Calls
    <3>3. QED
      BY <1>1, <1>3, <2>2, <2>3, <2>5, <3>2 DEF RollbackCreateRepo
  <2>6. ASSUME NEW o \in Orgs, NEW u \in Users, NEW to \in Roles, AskMember(s, o, u, to)
        PROVE  Released(s)
    <3>1. [op |-> "member", step |-> 0, org |-> o, user |-> u, becomes |-> to] \in Calls
      BY DEF Calls
    <3>2. QED
      BY <2>4, <2>6, <3>1 DEF AskMember
  <2>7. ASSUME NEW u \in Users, NEW what \in Gates \cup {"is_admin"}, NEW opens \in BOOLEAN,
               AskAccount(s, u, what, opens)
        PROVE  Released(s)
    <3>1. [op |-> "account", step |-> 0, user |-> u, what |-> what, opens |-> opens] \in Calls
      BY DEF Calls
    <3>2. QED
      BY <2>4, <2>7, <3>1 DEF AskAccount
  <2>8. ASSUME NEW by \in Users, NEW r \in Repos, NEW to \in Places, AskTransfer(s, by, r, to)
        PROVE  Released(s)
    <3>1. [op |-> "move", step |-> 0, repo |-> r, to |-> to] \in Calls
      BY DEF Calls
    <3>2. [op |-> "file", step |-> 0, repo |-> r, to |-> to, by |-> by] \in Calls
      BY DEF Calls
    <3>3. QED
      BY <2>4, <2>8, <3>1, <3>2 DEF AskTransfer
  <2>9. ASSUME NEW by \in Users, NEW i \in DOMAIN request,
               NEW status \in {"accepted", "rejected", "cancelled"},
               AskDecision(s, by, i, status)
        PROVE  Released(s)
    <3>1. i \in Nat
      BY DEF RegistryTypeOK
    <3>2. [op |-> "accept", step |-> 0, id |-> i] \in Calls
      BY <3>1 DEF Calls
    <3>3. status # "accepted" => [op |-> "decide", step |-> 0, id |-> i, status |-> status] \in Calls
      BY <3>1 DEF Calls
    <3>4. QED
      BY <2>4, <2>9, <3>2, <3>3 DEF AskDecision
  <2>10. ASSUME NEW o \in Orgs, AskDeleteOrg(s, o) PROVE Released(s)
    <3>1. [op |-> "dissolve", step |-> 0, org |-> o] \in Calls
      BY DEF Calls
    <3>2. QED
      BY <2>4, <2>10, <3>1 DEF AskDeleteOrg
  <2>11. ASSUME NEW r \in Repos, NEW to \in Places, AskCreateRepo(s, r, to)
         PROVE  Released(s)
    <3>1. [op |-> "create", step |-> 0, repo |-> r, to |-> to] \in Calls
      BY DEF Calls
    <3>2. QED
      BY <2>4, <2>11, <3>1 DEF AskCreateRepo
  <2>12. ASSUME NEW r \in Repos, AskDeleteRepo(s, r) PROVE Released(s)
    <3>1. [op |-> "delete", step |-> 0, repo |-> r] \in Calls
      BY DEF Calls
    <3>2. QED
      BY <2>4, <2>12, <3>1 DEF AskDeleteRepo
  <2>13. QED
    BY <1>5, <2>5, <2>6, <2>7, <2>8, <2>9, <2>10, <2>11, <2>12 DEF Asking
<1>6. QED
  BY <1>2, <1>4, <1>5

\* A call that locks nothing.
LEMMA NoStatements ==
    ASSUME NEW c, c.op \in {"idle", "made"} PROVE Statements(c) = <<>>
BY ZenonT(60) DEF Statements

\* What a statement does to the sessions.
LEMMA StatementFacts ==
    ASSUME RegistryTypeOK, NEW s \in Sessions, Statement(s)
    PROVE  /\ DOMAIN call' = Sessions /\ DOMAIN rowLock' = Sessions
           /\ OthersRest(s)
           /\ call[s] \in Calls /\ call[s].op \notin {"idle", "made"}
           /\ call'[s] = [call[s] EXCEPT !.step = call[s].step + 1]
           /\ call'[s] \in Calls /\ call'[s].op = call[s].op
           /\ call[s].step \in Nat /\ call'[s].step = call[s].step + 1
           /\ rowLock'[s] = rowLock[s] \cup Statements(call[s])[call[s].step + 1]
<1>1. call[s] \in Calls /\ call[s].op # "idle" /\ call[s].step < Len(Statements(call[s]))
  BY DEF RegistryTypeOK, Statement, Executes
<1>2. call[s].step \in Nat
  BY <1>1, CallFacts
<1>3. call[s].op # "made"
  BY <1>1, <1>2, NoStatements
<1>4. /\ DOMAIN call' = Sessions /\ DOMAIN rowLock' = Sessions
      /\ OthersRest(s)
      /\ call'[s] = [call[s] EXCEPT !.step = call[s].step + 1]
      /\ rowLock'[s] = rowLock[s] \cup Statements(call[s])[call[s].step + 1]
  BY <1>1 DEF RegistryTypeOK, Statement, OthersRest, Wants
<1>5. call'[s] \in Calls /\ call'[s].op = call[s].op /\ call'[s].step = call[s].step + 1
  BY <1>1, <1>4, AdvancedFacts
<1>6. QED
  BY <1>1, <1>2, <1>3, <1>4, <1>5

\* The calls that are one statement, and time, leave the sessions alone.
LEMMA OutsideRests ==
    ASSUME RegistryNext, ~\E s \in Sessions : Asking(s) \/ Executing(s)
    PROVE  call' = call /\ rowLock' = rowLock
BY DEF RegistryNext, CreateOrg, AddOrgMember, SetRepoArchived, RequestLapses, AtOnce

\* A step is a statement, ends or begins a call, or leaves the sessions alone.
LEMMA SessionsStep ==
    ASSUME RegistryTypeOK, HoldsNothing, [RegistryNext]_registryVars
    PROVE  \/ \E s \in Sessions : Statement(s)
           \/ \E s \in Sessions : (Asking(s) \/ Executing(s)) /\ ~Statement(s) /\ Released(s)
           \/ call' = call /\ rowLock' = rowLock
<1>1. CASE UNCHANGED registryVars
  BY <1>1 DEF registryVars
<1>2. QED
  BY <1>1, OutsideRests, OtherStepsRelease

\* Every step keeps clashing locks apart.
LEMMA LocksExcludeStep ==
    ASSUME RegistryTypeOK, LocksExclude, HoldsNothing, [RegistryNext]_registryVars
    PROVE  LocksExclude'
<1>1. CASE call' = call /\ rowLock' = rowLock
  BY <1>1 DEF LocksExclude
<1>2. ASSUME NEW s \in Sessions, Released(s) PROVE LocksExclude'
  BY <1>2 DEF Released, OthersRest, LocksExclude
<1>3. ASSUME NEW s \in Sessions, Statement(s) PROVE LocksExclude'
  <2>1. /\ \A t \in Sessions : t # s => rowLock'[t] = rowLock[t]
        /\ rowLock'[s] = rowLock[s] \cup Wants(call[s])
    BY <1>3, StatementFacts DEF OthersRest, Statement, RegistryTypeOK
  <2>2. \A t \in Sessions : t # s =>
            \A k \in Wants(call[s]), h \in rowLock[t] : k.row = h.row => {k.mode, h.mode} \notin Clashing
    BY <1>3 DEF Statement, Executes, Blocked
  <2>3. ASSUME NEW t \in Sessions, t # s, NEW k \in rowLock'[s], NEW h \in rowLock[t], k.row = h.row
        PROVE  {k.mode, h.mode} \notin Clashing
    BY <2>1, <2>2, <2>3 DEF LocksExclude
  <2>4. ASSUME NEW t \in Sessions, t # s, NEW k \in rowLock'[s], NEW h \in rowLock[t], k.row = h.row
        PROVE  {h.mode, k.mode} \notin Clashing
    <3>1. {h.mode, k.mode} = {k.mode, h.mode}
      OBVIOUS
    <3>2. QED
      BY <2>3, <2>4, <3>1
  <2>5. ASSUME NEW t \in Sessions, NEW u \in Sessions, t # u,
               NEW k \in rowLock'[t], NEW h \in rowLock'[u], k.row = h.row
        PROVE  {k.mode, h.mode} \notin Clashing
    <3>1. CASE t = s
      BY <2>1, <2>3, <2>5, <3>1
    <3>2. CASE u = s
      BY <2>1, <2>4, <2>5, <3>2
    <3>3. CASE t # s /\ u # s
      BY <2>1, <2>5, <3>3 DEF LocksExclude
    <3>4. QED
      BY <3>1, <3>2, <3>3
  <2>6. QED
    BY <2>5 DEF LocksExclude
<1>4. QED
  BY <1>1, <1>2, <1>3, SessionsStep

\* Every step keeps a call that has not begun without locks.
LEMMA HoldsNothingStep ==
    ASSUME RegistryTypeOK, HoldsNothing, [RegistryNext]_registryVars
    PROVE  HoldsNothing'
<1>1. CASE call' = call /\ rowLock' = rowLock
  BY <1>1 DEF HoldsNothing
<1>2. ASSUME NEW s \in Sessions, Released(s) PROVE HoldsNothing'
  BY <1>2 DEF Released, OthersRest, HoldsNothing
<1>3. ASSUME NEW s \in Sessions, Statement(s) PROVE HoldsNothing'
  <2>1. /\ call[s].op \notin {"idle", "made"} /\ call'[s].op = call[s].op
        /\ call[s].step \in Nat /\ call'[s].step = call[s].step + 1
        /\ OthersRest(s)
    BY <1>3, StatementFacts
  <2>2. call'[s].op \notin {"idle", "made"} /\ call'[s].step # 0
    BY <2>1
  <2>3. QED
    BY <2>1, <2>2 DEF HoldsNothing, OthersRest
<1>4. QED
  BY <1>1, <1>2, <1>3, SessionsStep

-----------------------------------------------------------------------------
(* What a transaction may rely on when it commits.                         *)

\* How many statements of a call lock.
LEMMA StatementCount ==
    ASSUME NEW c
    PROVE  /\ c.op = "member" \/ c.op = "decide" \/ c.op = "create" => Len(Statements(c)) = 1
           /\ c.op = "account" \/ c.op = "dissolve" \/ c.op = "delete" => Len(Statements(c)) = 2
           /\ c.op = "file" => Len(Statements(c)) = 3
           /\ c.op = "move" => Len(Statements(c)) = 4
           /\ c.op = "accept" => Len(Statements(c)) = 5
<1>1. \A x1, x2, x3, x4, x5 :
        /\ Len(<<x1>>) = 1 /\ Len(<<x1, x2>>) = 2 /\ Len(<<x1, x2, x3>>) = 3
        /\ Len(<<x1, x2, x3, x4>>) = 4 /\ Len(<<x1, x2, x3, x4, x5>>) = 5
  OBVIOUS
<1>2. CASE c.op = "member"
  <2>1. Len(Statements(c)) = 1
    BY <1>1, <1>2, StatementsOf, Zenon
  <2>2. QED
    BY <1>2, <2>1
<1>3. CASE c.op = "decide"
  <2>1. Len(Statements(c)) = 1
    BY <1>1, <1>3, StatementsOf, Zenon
  <2>2. QED
    BY <1>3, <2>1
<1>4. CASE c.op = "create"
  <2>1. Len(Statements(c)) = 1
    BY <1>1, <1>4, StatementsOf, Zenon
  <2>2. QED
    BY <1>4, <2>1
<1>5. CASE c.op = "account"
  <2>1. Statements(c) = <<AdminsLock, {Lock("user", c.user, "nokey")}>>
    BY <1>5, StatementsOf
  <2>2. QED
    BY <1>1, <1>5, <2>1
<1>6. CASE c.op = "dissolve"
  <2>1. Statements(c) = 
        <<OrgLock(c.org),
          RequestLocks({i \in DOMAIN request :
                          /\ request[i].status # "gone"
                          /\ c.org \in {request[i].from[1], request[i].to[1]}}, "update")>>
    BY <1>6, StatementsOf
  <2>2. QED
    BY <1>1, <1>6, <2>1
<1>7. CASE c.op = "delete"
  <2>1. Statements(c) = 
        <<{Lock("repo", c.repo, "update")},
          RequestLocks({i \in DOMAIN request : request[i].repo = c.repo}, "update")>>
    BY <1>7, StatementsOf
  <2>2. QED
    BY <1>1, <1>7, <2>1
<1>8. CASE c.op = "file"
  <2>1. Statements(c) = 
        <<{Lock("repo", c.repo, "update")}, RequestLocks(Overdue(c.repo), "nokey"),
          HomeKey(c.repo) \cup ForeignKey(c.to[1])>>
    BY <1>8, StatementsOf
  <2>2. QED
    BY <1>1, <1>8, <2>1
<1>9. CASE c.op = "move"
  <2>1. Len(Statements(c)) = 4
    BY <1>1, <1>9, StatementsOf, Zenon
  <2>2. QED
    BY <1>9, <2>1
<1>10. CASE c.op = "accept"
  <2>1. Len(Statements(c)) = 5
    BY <1>1, <1>10, StatementsOf, Zenon
  <2>2. QED
    BY <1>10, <2>1
<1>11. QED
  BY <1>2, <1>3, <1>4, <1>5, <1>6, <1>7, <1>8, <1>9, <1>10

\* A transaction commits when all its statements that lock are done.
LEMMA Committing ==
    ASSUME RegistryInv, NEW s \in Sessions, NEW op, CommitsAs(s, op)
    PROVE  /\ call[s] \in Calls /\ call[s].op = op /\ Guarded(s)
           /\ op \in {"member", "decide", "create"} => call[s].step = 1
           /\ op \in {"account", "dissolve", "delete"} => call[s].step = 2
           /\ op = "file" => call[s].step = 3
           /\ op = "move" => call[s].step = 4
           /\ op = "accept" => call[s].step = 5
<1>1. /\ call[s] \in Calls /\ call[s].op = op /\ Guarded(s)
      /\ call[s].step = Len(Statements(call[s]))
  BY DEF RegistryInv, RegistryTypeOK, CommitsAs
<1>2. QED
  BY <1>1, StatementCount

\* A change of members commits on a live organisation that keeps an administrator.
LEMMA SetOrgMemberRelies ==
    ASSUME RegistryInv, NEW s \in Sessions, SetOrgMember(s)
    PROVE  /\ call[s].org \in Orgs /\ call[s].user \in Users /\ call[s].becomes \in Roles
           /\ HoldsLock(s, "namespace", call[s].org, "update") /\ org[call[s].org] = "live"
           /\ KeepsOrgAdmin(call[s])
BY Committing, CallFacts DEF SetOrgMember, Guarded, MemberGuard

\* A change of an account commits alone, and leaves a site administrator.
LEMMA SetAccountRelies ==
    ASSUME RegistryInv, NEW s \in Sessions, SetAccount(s)
    PROVE  /\ call[s].user \in Users /\ call[s].what \in Gates \cup {"is_admin"}
           /\ call[s].opens \in BOOLEAN
           /\ HoldsLock(s, "advisory", "site-admins", "update")
           /\ HoldsLock(s, "user", call[s].user, "nokey")
           /\ KeepsSiteAdmin(call[s])
BY Committing, CallFacts DEF SetAccount, Guarded, AccountGuard

\* A move commits to a place that is free and held.
LEMMA TransferRepoRelies ==
    ASSUME RegistryInv, NEW s \in Sessions, TransferRepo(s)
    PROVE  /\ call[s].op = "move" /\ call[s].repo \in Repos /\ call[s].to \in Places
           /\ HoldsRepo(s, call[s].repo) /\ place[call[s].repo] # call[s].to
           /\ Free(s, call[s].to)
           /\ HoldsRequests(s, Pending(call[s].repo))
BY Committing, CallFacts DEF TransferRepo, Guarded, MoveGuard

\* An accept commits on a pending request its requester may still make, to a place
\* that is free and held.
LEMMA AcceptRelies ==
    ASSUME RegistryInv, NEW s \in Sessions, AcceptRepoTransfer(s), NEW q, q = request[call[s].id]
    PROVE  /\ call[s].op = "accept" /\ call[s].id \in DOMAIN request
           /\ q \in Requests /\ q.status = "pending"
           /\ HoldsLock(s, "request", call[s].id, "update")
           /\ HoldsRepo(s, q.repo) /\ place[q.repo] # q.to
           /\ Free(s, q.to)
           /\ RequesterMayStillTransfer(q) /\ q.repo \notin archived
           /\ StillThere(q)
           /\ Pending(q.repo) = {call[s].id}
<1>1. /\ call[s].op = "accept" /\ call[s].id \in DOMAIN request
      /\ q.status = "pending"
      /\ HoldsLock(s, "request", call[s].id, "update")
      /\ HoldsRepo(s, q.repo) /\ place[q.repo] # q.to
      /\ Free(s, q.to)
      /\ RequesterMayStillTransfer(q) /\ q.repo \notin archived
  BY Committing, CallFacts DEF AcceptRepoTransfer, Guarded, AcceptGuard
<1>2. q \in Requests
  BY <1>1 DEF RegistryInv, RegistryTypeOK
<1>3. StillThere(q) /\ Pending(q.repo) = {call[s].id}
  BY <1>1 DEF RegistryInv, NamesLead, RequestsStand
<1>4. QED
  BY <1>1, <1>2, <1>3

\* A request is filed once every pending one of its repository has been expired.
LEMMA CreateRepoTransferRelies ==
    ASSUME RegistryInv, NEW s \in Sessions, CreateRepoTransfer(s)
    PROVE  /\ call[s].op = "file" /\ call[s].repo \in Repos /\ call[s].to \in Places
           /\ call[s].by \in Users
           /\ HoldsRepo(s, call[s].repo)
           /\ \A i \in DOMAIN request : i \in Expiring(s) => request[i].status = "pending"
           /\ Pending(call[s].repo) \subseteq Expiring(s) /\ LiveNamespace(call[s].to[1])
           /\ HoldsLock(s, "namespace", place[call[s].repo][1], "keyshare")
           /\ HoldsLock(s, "namespace", call[s].to[1], "keyshare")
<1>1. call[s] \in Calls /\ call[s].op = "file" /\ call[s].step = 3 /\ FileGuard(s)
  BY Committing DEF CreateRepoTransfer, Guarded
<1>2. \A i, j \in DOMAIN request : Lock("request", i, "nokey") = Lock("request", j, "nokey") => i = j
  BY DEF Lock
<1>3. ASSUME NEW i \in DOMAIN request, i \in Expiring(s) PROVE request[i].status = "pending"
  BY <1>1, <1>2, <1>3, LockFacts DEF FileGuard, Expiring
<1>4. QED
  BY <1>1, <1>3, CallFacts DEF FileGuard

\* A decision commits on a request that is pending.
LEMMA DecideRelies ==
    ASSUME RegistryInv, NEW s \in Sessions, DecideRepoTransfer(s)
    PROVE  /\ call[s].op = "decide" /\ call[s].id \in DOMAIN request
           /\ call[s].status \in {"rejected", "cancelled"}
           /\ HoldsLock(s, "request", call[s].id, "update")
           /\ request[call[s].id].status = "pending"
BY Committing, CallFacts DEF DecideRepoTransfer, Guarded, DecideGuard

\* An organisation goes when no repository is in it.
LEMMA DeleteOrgRelies ==
    ASSUME RegistryInv, NEW s \in Sessions, DeleteOrg(s)
    PROVE  /\ call[s].op = "dissolve" /\ call[s].org \in Orgs
           /\ HoldsLock(s, "namespace", call[s].org, "update") /\ org[call[s].org] = "live"
           /\ \A r \in Repos : Exists(r) => place[r][1] # call[s].org
           /\ HoldsRequests(s, Touching(call[s].org))
BY Committing, CallFacts DEF DeleteOrg, Guarded, DissolveGuard

\* A repository is created at a place that is free and held.
LEMMA CreateRepoRelies ==
    ASSUME RegistryInv, NEW s \in Sessions, CreateRepo(s)
    PROVE  /\ call[s].op = "create" /\ call[s].repo \in Repos /\ call[s].to \in Places
           /\ place[call[s].repo] = Unborn
           /\ Free(s, call[s].to)
BY Committing, CallFacts DEF CreateRepo, Guarded, CreateGuard

\* A repository goes with its row and its requests locked.
LEMMA DropRepoRelies ==
    ASSUME RegistryInv, NEW s \in Sessions, DropRepo(s)
    PROVE  /\ call[s].op = "delete" /\ call[s].repo \in Repos
           /\ HoldsRepo(s, call[s].repo)
           /\ HoldsRequests(s, RequestsOf(call[s].repo))
BY Committing, CallFacts DEF DropRepo, Guarded, DeleteGuard

-----------------------------------------------------------------------------
(* What a session may change, and under which locks.                       *)

\* A repository moves, goes, or appears; where it goes is free.
PlaceStep(s) ==
    \A r \in Repos : place'[r] # place[r] =>
        /\ HoldsRepo(s, r) \/ (call[s].op = "create" /\ call[s].repo = r /\ place[r] = Unborn)
        /\ place'[r] = Gone \/ (place'[r] \in Places /\ Free(s, place'[r]))

\* A repository is archived or not under the lock of its row.
ArchivedStep(s) ==
    \A r \in Repos : ~(r \in archived' <=> r \in archived) => HoldsLock(s, "repo", r, "update")

\* An organisation and its members change under the lock of its row.
OrgStep(s) ==
    \A o \in Orgs :
        org'[o] # org[o] \/ role'[o] # role[o] => HoldsLock(s, "namespace", o, "update")

\* Accounts change under the administrators' lock and that of the user's row.
AccountStep(s) ==
    /\ siteAdmin' # siteAdmin \/ shut' # shut => HoldsLock(s, "advisory", "site-admins", "update")
    /\ \A u \in Users : ~(u \in siteAdmin' <=> u \in siteAdmin) \/ shut'[u] # shut[u] =>
            HoldsLock(s, "user", u, "nokey")

\* Of request i nothing changes but its status, or whether it is overdue.
SameRequest(i) ==
    /\ request'[i].repo = request[i].repo /\ request'[i].by = request[i].by
    /\ request'[i].from = request[i].from /\ request'[i].to = request[i].to

\* No session but s relies on request i.
Unrelied(s, i) ==
    \A t \in Sessions : t # s =>
        ~HoldsLock(t, "request", i, "update") /\ ~HoldsLock(t, "request", i, "nokey")

\* A request is settled once, by who holds its row, or goes; or one is filed.
RequestStep(s) ==
    /\ request' \in Seq(Requests)
    /\ DOMAIN request \subseteq DOMAIN request'
    /\ \A i \in DOMAIN request :
        /\ SameRequest(i)
        /\ request'[i].status # request[i].status =>
            /\ Unrelied(s, i) /\ request'[i].status # "pending"
            /\ request[i].status = "pending" \/ request'[i].status = "gone"
    /\ \A i \in DOMAIN request' \ DOMAIN request :
        /\ HoldsRepo(s, request'[i].repo)
        /\ HoldsLock(s, "namespace", request'[i].from[1], "keyshare")
        /\ HoldsLock(s, "namespace", request'[i].to[1], "keyshare")

\* The steps of a session that write one of the tables.
Writes(s) ==
    \/ SetOrgMember(s) \/ SetAccount(s)
    \/ TransferRepo(s) \/ AcceptRepoTransfer(s) \/ CreateRepoTransfer(s) \/ DecideRepoTransfer(s)
    \/ DeleteOrg(s) \/ CreateRepo(s) \/ DropRepo(s) \/ TurnedDown(s)

\* The other steps of a session write no table.
LEMMA OthersReadOnly ==
    ASSUME NEW s \in Sessions, Asking(s) \/ Executing(s), ~Writes(s)
    PROVE  UNCHANGED <<org, role, siteAdmin, shut, place, archived, redirect, request>>
<1>1. CASE Asking(s)
  BY <1>1 DEF Asking, AskMember, AskAccount, AskTransfer, AskDecision, AskDeleteOrg, AskCreateRepo,
     AskDeleteRepo, Asks, accountVars, orgVars, repoVars
<1>2. CASE Executing(s)
  BY <1>2 DEF Executing, Writes, Statement, RolledBack, RepoMade, RollbackCreateRepo,
     accountVars, orgVars, repoVars
<1>3. QED
  BY <1>1, <1>2

\* Who holds a request to write it holds it alone.
LEMMA RequestsAlone ==
    ASSUME LocksExclude, NEW s \in Sessions, NEW i,
           HoldsLock(s, "request", i, "update") \/ HoldsLock(s, "request", i, "nokey")
    PROVE  Unrelied(s, i)
BY Excluded, ClashFacts DEF Unrelied

\* The statements of each call, one by one.
LEMMA MemberStatements ==
    ASSUME NEW c, c.op = "member"
    PROVE  /\ Statements(c)[1] = OrgLock(c.org)
<1>1. Statements(c) = <<OrgLock(c.org)>>
  BY StatementsOf, ZenonT(30)
<1>2. QED
  BY <1>1

\* SetUserAdmin and setUserGate.
LEMMA AccountStatements ==
    ASSUME NEW c, c.op = "account"
    PROVE  /\ Statements(c)[1] = AdminsLock
           /\ Statements(c)[2] = {Lock("user", c.user, "nokey")}
<1>1. Statements(c) = <<AdminsLock,
                          {Lock("user", c.user, "nokey")}>>
  BY StatementsOf, ZenonT(30)
<1>2. QED
  BY <1>1

\* TransferRepo.
LEMMA MoveStatements ==
    ASSUME NEW c, c.op = "move"
    PROVE  /\ Statements(c)[1] = {Lock("repo", c.repo, "update")}
           /\ Statements(c)[2] = NewPlace(c.to)
           /\ Statements(c)[3] = RequestLocks(Pending(c.repo), "nokey")
           /\ Statements(c)[4] = HomeKey(c.repo)
<1>1. Statements(c) = <<{Lock("repo", c.repo, "update")},
                          NewPlace(c.to),
                          RequestLocks(Pending(c.repo), "nokey"),
                          HomeKey(c.repo)>>
  BY StatementsOf, ZenonT(30)
<1>2. QED
  BY <1>1

\* CreateRepoTransfer.
LEMMA FileStatements ==
    ASSUME NEW c, c.op = "file"
    PROVE  /\ Statements(c)[1] = {Lock("repo", c.repo, "update")}
           /\ Statements(c)[2] = RequestLocks(Overdue(c.repo), "nokey")
           /\ Statements(c)[3] = HomeKey(c.repo) \cup ForeignKey(c.to[1])
<1>1. Statements(c) = <<{Lock("repo", c.repo, "update")},
                          RequestLocks(Overdue(c.repo), "nokey"),
                          HomeKey(c.repo) \cup ForeignKey(c.to[1])>>
  BY StatementsOf, ZenonT(30)
<1>2. QED
  BY <1>1

\* AcceptRepoTransfer.
LEMMA AcceptStatements ==
    ASSUME NEW c, c.op = "accept"
    PROVE  /\ Statements(c)[1] = {Lock("repo", request[c.id].repo, "update")}
           /\ Statements(c)[2] = RequestLocks({c.id}, "update")
           /\ Statements(c)[3] = SourceLock(request[c.id].from[1])
           /\ Statements(c)[4] = {Lock("user", request[c.id].by, "share")}
           /\ Statements(c)[5] = NewPlace(request[c.id].to)
<1>1. Statements(c) = <<{Lock("repo", request[c.id].repo, "update")},
                          RequestLocks({c.id}, "update"),
                          SourceLock(request[c.id].from[1]),
                          {Lock("user", request[c.id].by, "share")},
                          NewPlace(request[c.id].to)>>
  BY StatementsOf, ZenonT(30)
<1>2. QED
  BY <1>1

\* RejectRepoTransfer and CancelRepoTransfer.
LEMMA DecideStatements ==
    ASSUME NEW c, c.op = "decide"
    PROVE  /\ Statements(c)[1] = RequestLocks({c.id}, "update")
<1>1. Statements(c) = <<RequestLocks({c.id}, "update")>>
  BY StatementsOf, ZenonT(30)
<1>2. QED
  BY <1>1

\* DeleteOrg.
LEMMA DissolveStatements ==
    ASSUME NEW c, c.op = "dissolve"
    PROVE  /\ Statements(c)[1] = OrgLock(c.org)
           /\ Statements(c)[2] = RequestLocks(Touching(c.org), "update")
<1>1. Statements(c) = <<OrgLock(c.org),
                          RequestLocks(Touching(c.org), "update")>>
  BY StatementsOf, ZenonT(30) DEF Touching
<1>2. QED
  BY <1>1

\* CreateRepo.
LEMMA CreateStatements ==
    ASSUME NEW c, c.op = "create"
    PROVE  /\ Statements(c)[1] = NewPlace(c.to)
<1>1. Statements(c) = <<NewPlace(c.to)>>
  BY StatementsOf, ZenonT(30)
<1>2. QED
  BY <1>1

\* DeleteRepo.
LEMMA DeleteStatements ==
    ASSUME NEW c, c.op = "delete"
    PROVE  /\ Statements(c)[1] = {Lock("repo", c.repo, "update")}
           /\ Statements(c)[2] = RequestLocks(RequestsOf(c.repo), "update")
<1>1. Statements(c) = <<{Lock("repo", c.repo, "update")},
                          RequestLocks(RequestsOf(c.repo), "update")>>
  BY StatementsOf, ZenonT(30) DEF RequestsOf
<1>2. QED
  BY <1>1

\* What may become of a request whose decision is refused.
LEMMA RefusalFacts ==
    ASSUME NEW c, c.op = "accept" \/ c.op = "decide"
    PROVE  /\ request[c.id].status # "pending" => StatusAfterRefusal(c) = request[c.id].status
           /\ request[c.id].status = "pending" =>
                StatusAfterRefusal(c) = "pending" \/ StatusAfterRefusal(c) = "expired"
                    \/ StatusAfterRefusal(c) = "cancelled"
           /\ StatusAfterRefusal(c) # request[c.id].status =>
                c.op = "decide" \/ (c.op = "accept" /\ (c.step = 1 \/ c.step = 3))
BY DEF StatusAfterRefusal

\* A refused decision writes a request no other transaction has locked.
LEMMA RefusalAlone ==
    ASSUME RegistryInv, NEW s \in Sessions, TurnedDown(s), call[s].op \in {"accept", "decide"}
    PROVE  /\ call[s].id \in DOMAIN request
           /\ StatusAfterRefusal(call[s]) # request[call[s].id].status => Unrelied(s, call[s].id)
<1> DEFINE c == call[s]
<1>1. /\ c \in Calls /\ Guarded(s) /\ c.step < Len(Statements(c))
      /\ \A t \in Sessions : ~Blocked(s, t)
  BY DEF RegistryInv, RegistryTypeOK, TurnedDown, Executes
<1>2. c.step \in Nat /\ c.id \in DOMAIN request
  BY <1>1, CallFacts DEF Guarded, AcceptGuard, DecideGuard
<1>3. ASSUME Statements(c)[c.step + 1] = RequestLocks({c.id}, "update")
      PROVE  Unrelied(s, c.id)
  <2>1. Lock("request", c.id, "update") \in Wants(c)
    BY <1>1, <1>3 DEF Wants, RequestLocks
  <2>2. ASSUME NEW t \in Sessions, t # s, NEW m \in {"update", "nokey"}, HoldsLock(t, "request", c.id, m)
        PROVE  FALSE
    <3>1. {"update", m} \in Clashing
      BY <2>2, ClashFacts
    <3>2. Lock("request", c.id, m) \in rowLock[t]
      BY <2>2 DEF HoldsLock
    <3>3. Blocked(s, t)
      <4> DEFINE k == Lock("request", c.id, "update")  h == Lock("request", c.id, m)
      <4>1. k.row = h.row /\ {k.mode, h.mode} \in Clashing
        BY <3>1, LockFacts
      <4> HIDE DEF k, h
      <4>2. QED
        BY <2>1, <2>2, <3>2, <4>1 DEF Blocked, k, h
    <3>4. QED
      BY <1>1, <3>3
  <2>3. QED
    BY <2>2 DEF Unrelied
<1>4. CASE c.op = "decide"
  <2>1. c.step = 0
    <3>1. Len(Statements(c)) = 1
      BY <1>4, StatementCount
    <3>2. QED
      BY <1>1, <1>2, <3>1
  <2>2. Statements(c)[1] = RequestLocks({c.id}, "update")
    BY <1>4, DecideStatements
  <2>3. QED
    BY <1>2, <1>3, <2>1, <2>2
<1>5. CASE c.op = "accept" /\ c.step = 1
  <2>1. Statements(c)[2] = RequestLocks({c.id}, "update")
    BY <1>5, AcceptStatements
  <2>2. QED
    BY <1>2, <1>3, <1>5, <2>1
<1>6. CASE c.op = "accept" /\ c.step = 3
  BY <1>1, <1>2, <1>6, RequestsAlone DEF Guarded, AcceptGuard, RegistryInv
<1>7. QED
  BY <1>2, <1>4, <1>5, <1>6, RefusalFacts

\* Repositories move under the lock of their row, to places held free.
LEMMA PlacesWritten ==
    ASSUME RegistryInv, NEW s \in Sessions, Asking(s) \/ Executing(s)
    PROVE  PlaceStep(s)
<1>1. ASSUME place' = place PROVE PlaceStep(s)
  BY <1>1 DEF PlaceStep
<1>2. place \in [Repos -> Places \cup {Unborn, Gone}]
  BY DEF RegistryInv, RegistryTypeOK
<1>3. CASE TransferRepo(s)
  <2>1. /\ call[s].repo \in Repos /\ call[s].to \in Places
        /\ HoldsRepo(s, call[s].repo) /\ Free(s, call[s].to)
    BY <1>3, TransferRepoRelies
  <2>2. place' = [place EXCEPT ![call[s].repo] = call[s].to]
    BY <1>3 DEF TransferRepo, Relocated
  <2>3. QED
    BY <1>2, <2>1, <2>2 DEF PlaceStep
<1>4. CASE AcceptRepoTransfer(s)
  <2> DEFINE q == request[call[s].id]
  <2>1. q \in Requests /\ HoldsRepo(s, q.repo) /\ Free(s, q.to)
    BY <1>4, AcceptRelies
  <2>2. q.repo \in Repos /\ q.to \in Places
    BY <2>1 DEF Requests
  <2>3. place' = [place EXCEPT ![q.repo] = q.to]
    BY <1>4 DEF AcceptRepoTransfer, Relocated
  <2>4. QED
    BY <1>2, <2>1, <2>2, <2>3 DEF PlaceStep
<1>5. CASE CreateRepo(s)
  <2>1. /\ call[s].op = "create" /\ call[s].repo \in Repos /\ call[s].to \in Places
        /\ place[call[s].repo] = Unborn /\ Free(s, call[s].to)
    BY <1>5, CreateRepoRelies
  <2>2. place' = [place EXCEPT ![call[s].repo] = call[s].to]
    BY <1>5 DEF CreateRepo
  <2>3. QED
    BY <1>2, <2>1, <2>2 DEF PlaceStep
<1>6. CASE DropRepo(s)
  <2>1. call[s].repo \in Repos /\ HoldsRepo(s, call[s].repo)
    BY <1>6, DropRepoRelies
  <2>2. place' = [place EXCEPT ![call[s].repo] = Gone]
    BY <1>6 DEF DropRepo
  <2>3. QED
    BY <1>2, <2>1, <2>2 DEF PlaceStep
<1>7. CASE \/ SetOrgMember(s) \/ SetAccount(s) \/ CreateRepoTransfer(s) \/ DecideRepoTransfer(s)
           \/ DeleteOrg(s) \/ TurnedDown(s)
  BY <1>1, <1>7 DEF SetOrgMember, SetAccount, CreateRepoTransfer, DecideRepoTransfer, DeleteOrg,
     TurnedDown, repoVars
<1>8. QED
  BY <1>1, <1>3, <1>4, <1>5, <1>6, <1>7, OthersReadOnly DEF Writes

\* archived_at goes with the repository, under the lock of its row.
LEMMA ArchivedWritten ==
    ASSUME RegistryInv, NEW s \in Sessions, Asking(s) \/ Executing(s)
    PROVE  ArchivedStep(s)
<1>1. CASE DropRepo(s)
  <2>1. call[s].repo \in Repos /\ HoldsRepo(s, call[s].repo)
    BY <1>1, DropRepoRelies
  <2>2. archived' = archived \ {call[s].repo}
    BY <1>1 DEF DropRepo
  <2>3. QED
    BY <2>1, <2>2 DEF ArchivedStep, HoldsRepo
<1>2. CASE ~DropRepo(s)
  <2>1. archived' = archived
    BY <1>2, OthersReadOnly
       DEF Writes, SetOrgMember, SetAccount, TransferRepo, AcceptRepoTransfer, Relocated,
           CreateRepoTransfer, DecideRepoTransfer, DeleteOrg, CreateRepo, TurnedDown, repoVars
  <2>2. QED
    BY <2>1 DEF ArchivedStep
<1>3. QED
  BY <1>1, <1>2

\* Members and organisations are written under FOR UPDATE of the namespace.
LEMMA OrgsWritten ==
    ASSUME RegistryInv, NEW s \in Sessions, Asking(s) \/ Executing(s)
    PROVE  OrgStep(s)
<1>1. org \in [Orgs -> {"unborn", "live", "deleted"}] /\ role \in [Orgs -> [Users -> Roles]]
  BY DEF RegistryInv, RegistryTypeOK
<1>2. CASE SetOrgMember(s)
  <2>1. call[s].org \in Orgs /\ HoldsLock(s, "namespace", call[s].org, "update")
    BY <1>2, SetOrgMemberRelies
  <2>2. org' = org /\ \A o \in Orgs : o # call[s].org => role'[o] = role[o]
    BY <1>1, <1>2 DEF SetOrgMember
  <2>3. QED
    BY <2>1, <2>2 DEF OrgStep
<1>3. CASE DeleteOrg(s)
  <2>1. call[s].org \in Orgs /\ HoldsLock(s, "namespace", call[s].org, "update")
    BY <1>3, DeleteOrgRelies
  <2>2. \A o \in Orgs : o # call[s].org => org'[o] = org[o] /\ role'[o] = role[o]
    BY <1>1, <1>3 DEF DeleteOrg
  <2>3. QED
    BY <2>1, <2>2 DEF OrgStep
<1>4. CASE ~SetOrgMember(s) /\ ~DeleteOrg(s)
  <2>1. org' = org /\ role' = role
    BY <1>4, OthersReadOnly
       DEF Writes, SetAccount, TransferRepo, AcceptRepoTransfer, CreateRepoTransfer,
           DecideRepoTransfer, CreateRepo, DropRepo, TurnedDown, orgVars
  <2>2. QED
    BY <2>1 DEF OrgStep
<1>5. QED
  BY <1>2, <1>3, <1>4

\* Accounts are written under the advisory lock.
LEMMA AccountsWritten ==
    ASSUME RegistryInv, NEW s \in Sessions, Asking(s) \/ Executing(s)
    PROVE  AccountStep(s)
<1>1. siteAdmin \subseteq Users /\ shut \in [Users -> SUBSET Gates]
  BY DEF RegistryInv, RegistryTypeOK
<1>2. CASE SetAccount(s)
  <2>1. /\ call[s].user \in Users
        /\ HoldsLock(s, "advisory", "site-admins", "update")
        /\ HoldsLock(s, "user", call[s].user, "nokey")
    BY <1>2, SetAccountRelies
  <2>2. \A u \in Users : u # call[s].user =>
            (u \in siteAdmin' <=> u \in siteAdmin) /\ shut'[u] = shut[u]
    BY <1>1, <1>2 DEF SetAccount
  <2>3. QED
    BY <2>1, <2>2 DEF AccountStep
<1>3. CASE ~SetAccount(s)
  <2>1. siteAdmin' = siteAdmin /\ shut' = shut
    BY <1>3, OthersReadOnly
       DEF Writes, SetOrgMember, TransferRepo, AcceptRepoTransfer, CreateRepoTransfer,
           DecideRepoTransfer, DeleteOrg, CreateRepo, DropRepo, TurnedDown, accountVars
  <2>2. QED
    BY <2>1 DEF AccountStep
<1>4. QED
  BY <1>2, <1>3

\* The statuses of a request.
Statuses == {"pending", "accepted", "rejected", "cancelled", "expired", "gone"}

\* A request with another status.
LEMMA RestatusFacts ==
    ASSUME NEW q \in Requests, NEW x \in Statuses
    PROVE  /\ [q EXCEPT !.status = x] \in Requests
           /\ [q EXCEPT !.status = x].status = x
           /\ [q EXCEPT !.status = x].repo = q.repo /\ [q EXCEPT !.status = x].by = q.by
           /\ [q EXCEPT !.status = x].from = q.from /\ [q EXCEPT !.status = x].to = q.to
           /\ [q EXCEPT !.status = x].lapsed = q.lapsed
BY DEF Requests, Statuses

\* Some requests get the same status.
Settled(S, x) ==
    [i \in DOMAIN request |-> IF i \in S THEN [request[i] EXCEPT !.status = x] ELSE request[i]]

\* Requests that are settled keep everything but their status.
LEMMA SettledFacts ==
    ASSUME request \in Seq(Requests), NEW S, NEW x \in Statuses
    PROVE  /\ Settled(S, x) \in Seq(Requests) /\ Len(Settled(S, x)) = Len(request)
           /\ DOMAIN Settled(S, x) = DOMAIN request
           /\ \A i \in DOMAIN request :
                /\ Settled(S, x)[i] \in Requests
                /\ Settled(S, x)[i].status = IF i \in S THEN x ELSE request[i].status
                /\ Settled(S, x)[i].repo = request[i].repo /\ Settled(S, x)[i].by = request[i].by
                /\ Settled(S, x)[i].from = request[i].from /\ Settled(S, x)[i].to = request[i].to
                /\ Settled(S, x)[i].lapsed = request[i].lapsed
<1>1. \A i \in DOMAIN request : request[i] \in Requests
  OBVIOUS
<1>2. \A i \in DOMAIN request :
        Settled(S, x)[i] = IF i \in S THEN [request[i] EXCEPT !.status = x] ELSE request[i]
  BY DEF Settled
<1>3. ASSUME NEW i \in DOMAIN request
      PROVE  /\ Settled(S, x)[i] \in Requests
             /\ Settled(S, x)[i].status = IF i \in S THEN x ELSE request[i].status
             /\ Settled(S, x)[i].repo = request[i].repo /\ Settled(S, x)[i].by = request[i].by
             /\ Settled(S, x)[i].from = request[i].from /\ Settled(S, x)[i].to = request[i].to
             /\ Settled(S, x)[i].lapsed = request[i].lapsed
  <2>1. request[i] \in Requests
    BY <1>1
  <2>2. CASE i \in S
    <3>1. Settled(S, x)[i] = [request[i] EXCEPT !.status = x]
      BY <1>2, <2>2
    <3>2. QED
      BY <2>1, <2>2, <3>1, RestatusFacts
  <2>3. CASE i \notin S
    BY <1>2, <2>1, <2>3
  <2>4. QED
    BY <2>2, <2>3
<1>4. Settled(S, x) = [i \in 1..Len(request) |-> Settled(S, x)[i]]
  BY DEF Settled
<1>5. Len(request) \in Nat /\ DOMAIN request = 1..Len(request)
  OBVIOUS
<1> HIDE DEF Settled
<1>6. Settled(S, x) \in [1..Len(request) -> Requests]
  BY <1>3, <1>4, <1>5
<1>7. QED
  BY <1>3, <1>5, <1>6

\* The request i of an EXCEPT.
LEMMA OneSettled ==
    ASSUME request \in Seq(Requests), NEW i \in DOMAIN request, NEW x \in Statuses
    PROVE  [request EXCEPT ![i].status = x] = Settled({i}, x)
BY DEF Settled

\* To settle requests that nobody relies on is what RequestStep allows.
LEMMA SettledStep ==
    ASSUME request \in Seq(Requests), NEW s, NEW S, NEW x \in Statuses \ {"pending"},
           request' = Settled(S, x),
           \A i \in DOMAIN request : i \in S /\ request[i].status # x =>
                Unrelied(s, i) /\ (request[i].status = "pending" \/ x = "gone")
    PROVE  RequestStep(s)
BY SettledFacts DEF RequestStep, SameRequest

\* Every step of a session does to the requests what RequestStep allows.
LEMMA RequestsWritten ==
    ASSUME RegistryInv, NEW s \in Sessions, Asking(s) \/ Executing(s)
    PROVE  RequestStep(s)
<1>1. request \in Seq(Requests) /\ LocksExclude
  BY DEF RegistryInv, RegistryTypeOK
<1>2. ASSUME request' = request PROVE RequestStep(s)
  BY <1>1, <1>2 DEF RequestStep, SameRequest
<1>3. CASE TransferRepo(s)
  <2> DEFINE r == call[s].repo
  <2>1. request' = Settled(Pending(r), "cancelled")
    BY <1>3 DEF TransferRepo, Cancelled, Settled
  <2>2. HoldsRequests(s, Pending(r))
    BY <1>3, TransferRepoRelies
  <2>3. \A i \in Pending(r) : Unrelied(s, i) /\ request[i].status = "pending"
    BY <1>1, <2>2, RequestsAlone DEF HoldsRequests, Pending
  <2>4. "cancelled" \in Statuses \ {"pending"}
    BY DEF Statuses
  <2>5. QED
    BY <1>1, <2>1, <2>3, <2>4, SettledStep
<1>4. CASE AcceptRepoTransfer(s)
  <2> DEFINE i == call[s].id
  <2>1. /\ i \in DOMAIN request /\ request[i].status = "pending"
        /\ HoldsLock(s, "request", i, "update") /\ Pending(request[i].repo) = {i}
    BY <1>4, AcceptRelies
  <2>2. Cancelled(request[i].repo, {i}) = request
    BY <1>1, <2>1 DEF Cancelled
  <2>3. request' = [request EXCEPT ![i].status = "accepted"]
    BY <1>4, <2>2 DEF AcceptRepoTransfer
  <2>4. "accepted" \in Statuses \ {"pending"}
    BY DEF Statuses
  <2>5. request' = Settled({i}, "accepted")
    BY <1>1, <2>1, <2>3, <2>4, OneSettled
  <2>6. Unrelied(s, i)
    BY <1>1, <2>1, RequestsAlone
  <2>7. QED
    BY <1>1, <2>1, <2>4, <2>5, <2>6, SettledStep
<1>5. CASE CreateRepoTransfer(s)
  <2> DEFINE c == call[s]
             f == Settled(Expiring(s), "expired")
             new == [repo |-> c.repo, from |-> place[c.repo], to |-> c.to, by |-> c.by,
                     status |-> "pending", lapsed |-> FALSE]
  <2>1. request' = Append(f, new)
    BY <1>5 DEF CreateRepoTransfer, Settled
  <2>2. /\ c.repo \in Repos /\ c.to \in Places /\ c.by \in Users
        /\ HoldsRepo(s, c.repo)
        /\ \A i \in DOMAIN request : i \in Expiring(s) => request[i].status = "pending"
        /\ HoldsLock(s, "namespace", place[c.repo][1], "keyshare")
        /\ HoldsLock(s, "namespace", c.to[1], "keyshare")
    BY <1>5, CreateRepoTransferRelies
  <2>3. new \in Requests
    BY <2>2 DEF HoldsRepo, Exists, Requests
  <2>4. "expired" \in Statuses \ {"pending"}
    BY DEF Statuses
  <2>5. /\ f \in Seq(Requests) /\ Len(f) = Len(request) /\ DOMAIN f = DOMAIN request
        /\ \A i \in DOMAIN request :
              /\ f[i].status = IF i \in Expiring(s) THEN "expired" ELSE request[i].status
              /\ f[i].repo = request[i].repo /\ f[i].by = request[i].by
              /\ f[i].from = request[i].from /\ f[i].to = request[i].to
    BY <1>1, <2>4, SettledFacts
  <2>6. \A i \in DOMAIN request : i \in Expiring(s) => Unrelied(s, i)
    BY <1>1, RequestsAlone DEF Expiring, HoldsLock
  <2>7. /\ new.repo = c.repo /\ new.from = place[c.repo] /\ new.to = c.to
    OBVIOUS
  <2> HIDE DEF f, new
  <2>8. /\ request' \in Seq(Requests) /\ DOMAIN request \subseteq DOMAIN request'
        /\ \A i \in DOMAIN request : request'[i] = f[i]
        /\ \A i \in DOMAIN request' \ DOMAIN request : request'[i] = new
    BY <1>1, <2>1, <2>3, <2>5
  <2>9. ASSUME NEW i \in DOMAIN request
        PROVE  /\ SameRequest(i)
               /\ request'[i].status # request[i].status =>
                    /\ Unrelied(s, i) /\ request'[i].status # "pending"
                    /\ request[i].status = "pending"
    BY <2>2, <2>5, <2>6, <2>8, <2>9 DEF SameRequest
  <2>10. ASSUME NEW i \in DOMAIN request' \ DOMAIN request
         PROVE  /\ HoldsRepo(s, request'[i].repo)
                /\ HoldsLock(s, "namespace", request'[i].from[1], "keyshare")
                /\ HoldsLock(s, "namespace", request'[i].to[1], "keyshare")
    BY <2>2, <2>7, <2>8, <2>10
  <2>11. QED
    BY <2>8, <2>9, <2>10 DEF RequestStep
<1>6. CASE DecideRepoTransfer(s)
  <2> DEFINE i == call[s].id  x == call[s].status
  <2>1. /\ i \in DOMAIN request /\ x \in {"rejected", "cancelled"}
        /\ HoldsLock(s, "request", i, "update") /\ request[i].status = "pending"
    BY <1>6, DecideRelies
  <2>2. x \in Statuses \ {"pending"}
    BY <2>1 DEF Statuses
  <2>3. request' = Settled({i}, x)
    BY <1>1, <1>6, <2>1, <2>2, OneSettled DEF DecideRepoTransfer
  <2>4. Unrelied(s, i)
    BY <1>1, <2>1, RequestsAlone
  <2>5. QED
    BY <1>1, <2>1, <2>2, <2>3, <2>4, SettledStep
<1>7. "gone" \in Statuses \ {"pending"}
  BY DEF Statuses
<1>8. CASE DeleteOrg(s)
  <2> DEFINE o == call[s].org
             S == {i \in DOMAIN request : o \in {request[i].from[1], request[i].to[1]}}
  <2>1. request' = Settled(S, "gone")
    BY <1>8 DEF DeleteOrg, Without, Settled
  <2>2. HoldsRequests(s, Touching(o))
    BY <1>8, DeleteOrgRelies
  <2>3. ASSUME NEW i \in DOMAIN request, i \in S, request[i].status # "gone" PROVE Unrelied(s, i)
    BY <1>1, <2>2, <2>3, RequestsAlone DEF HoldsRequests, Touching
  <2>4. QED
    BY <1>1, <1>7, <2>1, <2>3, SettledStep
<1>9. CASE DropRepo(s)
  <2> DEFINE S == RequestsOf(call[s].repo)
  <2>1. request' = Settled(S, "gone")
    BY <1>9 DEF DropRepo, Without, Settled, RequestsOf
  <2>2. HoldsRequests(s, S)
    BY <1>9, DropRepoRelies
  <2>3. ASSUME NEW i \in DOMAIN request, i \in S PROVE Unrelied(s, i)
    BY <1>1, <2>2, <2>3, RequestsAlone DEF HoldsRequests
  <2>4. QED
    BY <1>1, <1>7, <2>1, <2>3, SettledStep
<1>10. CASE TurnedDown(s)
  <2> DEFINE i == call[s].id  x == StatusAfterRefusal(call[s])
  <2>1. CASE call[s].op \in {"accept", "decide"}
    <3>1. i \in DOMAIN request /\ (x # request[i].status => Unrelied(s, i))
      BY <1>10, <2>1, RefusalAlone
    <3>2. request[i] \in Requests
      BY <1>1, <3>1
    <3>3. /\ request[i].status # "pending" => x = request[i].status
          /\ request[i].status = "pending" => x \in {"pending", "expired", "cancelled"}
      BY <2>1, RefusalFacts
    <3>4. x \in Statuses /\ (x # request[i].status => x # "pending" /\ request[i].status = "pending")
      BY <3>2, <3>3 DEF Requests, Statuses
    <3>5. request' = [request EXCEPT ![i].status = x]
      BY <1>10, <2>1 DEF TurnedDown
    <3> HIDE DEF x
    <3>6. CASE x = request[i].status
      <4>1. request' = request
        BY <1>1, <3>1, <3>2, <3>5, <3>6 DEF Requests
      <4>2. QED
        BY <1>2, <4>1
    <3>7. CASE x # request[i].status
      <4>1. request' = Settled({i}, x)
        BY <1>1, <3>1, <3>4, <3>5, OneSettled
      <4>2. QED
        BY <1>1, <3>1, <3>4, <3>7, <4>1, SettledStep
    <3>8. QED
      BY <3>6, <3>7
  <2>2. CASE call[s].op \notin {"accept", "decide"}
    BY <1>2, <1>10, <2>2 DEF TurnedDown
  <2>3. QED
    BY <2>1, <2>2
<1>11. CASE SetOrgMember(s) \/ SetAccount(s) \/ CreateRepo(s)
  BY <1>2, <1>11 DEF SetOrgMember, SetAccount, CreateRepo
<1>12. QED
  BY <1>2, <1>3, <1>4, <1>5, <1>6, <1>8, <1>9, <1>10, <1>11, OthersReadOnly DEF Writes

-----------------------------------------------------------------------------
(* What stays true for a transaction while others take steps.              *)

\* The repositories t has locked stay where they are, archived or not.
KeepsRepos(t) ==
    \A r \in Repos : HoldsRepo(t, r) =>
        place'[r] = place[r] /\ (r \in archived' <=> r \in archived)

\* The repository t is making is not made by another.
KeepsBirth(t) == call[t].op = "create" => place'[call[t].repo] = place[call[t].repo]

\* The free places t holds stay free.
KeepsPlaces(t) == \A p \in Places : HoldsPlace(t, p) /\ ~Taken(p) => ~Taken(p)'

\* The live organisations t has locked, in any mode, stay.
KeepsLive(t) ==
    \A o \in Orgs, m \in {"keyshare", "share", "update"} :
        HoldsLock(t, "namespace", o, m) /\ org[o] = "live" => org'[o] = "live"

\* An organisation locked FOR UPDATE keeps its members, and no repository arrives.
KeepsOrg(t) ==
    \A o \in Orgs : HoldsLock(t, "namespace", o, "update") /\ org[o] = "live" =>
        /\ role'[o] = role[o]
        /\ \A r \in Repos : Exists(r)' /\ place'[r][1] = o => Exists(r) /\ place[r][1] = o

\* An organisation locked FOR SHARE keeps its administrators.
KeepsAdmins(t) ==
    \A o \in Orgs, u \in Users :
        HoldsLock(t, "namespace", o, "share") /\ role[o][u] = "admin" => role'[o][u] = "admin"

\* The accounts under the advisory lock stay as they are, and a user's row
\* locked FOR SHARE.
KeepsAccounts(t) ==
    /\ HoldsLock(t, "advisory", "site-admins", "update") => siteAdmin' = siteAdmin /\ shut' = shut
    /\ \A u \in Users : HoldsLock(t, "user", u, "share") =>
            (u \in siteAdmin' <=> u \in siteAdmin) /\ shut'[u] = shut[u]

\* The requests t has locked keep their status, none comes back, and none is filed
\* for a repository or an organisation t has locked FOR UPDATE.
KeepsRequests(t) ==
    /\ request' \in Seq(Requests) /\ DOMAIN request \subseteq DOMAIN request'
    /\ \A i \in DOMAIN request :
        /\ SameRequest(i)
        /\ HoldsLock(t, "request", i, "update") \/ HoldsLock(t, "request", i, "nokey") =>
                request'[i].status = request[i].status
        /\ request'[i].status = "pending" => request[i].status = "pending"
        /\ request[i].status = "gone" => request'[i].status = "gone"
    /\ \A i \in DOMAIN request' \ DOMAIN request :
        /\ ~HoldsLock(t, "repo", request'[i].repo, "update")
        /\ ~HoldsLock(t, "namespace", request'[i].from[1], "update")
        /\ ~HoldsLock(t, "namespace", request'[i].to[1], "update")

\* What session t relies on.
Kept(t) ==
    /\ KeepsRepos(t) /\ KeepsBirth(t) /\ KeepsPlaces(t) /\ KeepsLive(t) /\ KeepsOrg(t)
    /\ KeepsAdmins(t) /\ KeepsAccounts(t) /\ KeepsRequests(t)

\* A place is neither Unborn nor Gone.
LEMMA PlaceFacts ==
    /\ Unborn \notin Places /\ Gone \notin Places /\ Unborn # Gone
    /\ \A p \in Places : p[1] \in Namespaces
BY DEF Places, Unborn, Gone

\* A step of session s leaves what session t relies on.
LEMMA SessionKeeps ==
    ASSUME RegistryInv, NEW s \in Sessions, Asking(s) \/ Executing(s), NEW t \in Sessions, t # s
    PROVE  Kept(t)
<1>1. /\ PlaceStep(s) /\ ArchivedStep(s) /\ OrgStep(s) /\ AccountStep(s) /\ RequestStep(s)
  BY PlacesWritten, ArchivedWritten, OrgsWritten, AccountsWritten, RequestsWritten
<1>2. /\ LocksExclude /\ CreatesApart /\ Guarded(t)
      /\ place \in [Repos -> Places \cup {Unborn, Gone}]
      /\ call[t] \in Calls
  BY DEF RegistryInv, RegistryTypeOK
<1>3. ASSUME NEW kind, NEW row, NEW m, NEW n, HoldsLock(s, kind, row, m), HoldsLock(t, kind, row, n),
             {m, n} \in Clashing
      PROVE  FALSE
  BY <1>2, <1>3, Excluded
<1>4. \A m \in {"keyshare", "share", "nokey", "update"} :
            {"update", m} \in Clashing /\ {m, "update"} \in Clashing
  BY ClashFacts
<1>5. KeepsRepos(t)
  <2>1. ASSUME NEW r \in Repos, HoldsRepo(t, r) PROVE place'[r] = place[r]
    <3>1. ~HoldsRepo(s, r)
      BY <1>3, <1>4, <2>1 DEF HoldsRepo
    <3>2. place[r] # Unborn
      BY <2>1, PlaceFacts DEF HoldsRepo, Exists
    <3>3. QED
      BY <1>1, <3>1, <3>2 DEF PlaceStep
  <2>2. ASSUME NEW r \in Repos, HoldsRepo(t, r) PROVE r \in archived' <=> r \in archived
    <3>1. ~HoldsLock(s, "repo", r, "update")
      BY <1>3, <1>4, <2>2 DEF HoldsRepo
    <3>2. QED
      BY <1>1, <3>1 DEF ArchivedStep
  <2>3. QED
    BY <2>1, <2>2 DEF KeepsRepos
<1>6. KeepsBirth(t)
  <2>1. ASSUME call[t].op = "create" PROVE place'[call[t].repo] = place[call[t].repo]
    <3> DEFINE r == call[t].repo
    <3>1. r \in Repos
      BY <1>2, <2>1, CallFacts
    <3>2. place[r] = Unborn
      BY <1>2, <2>1 DEF Guarded, CreateGuard
    <3>3. ~HoldsRepo(s, r)
      BY <3>2, PlaceFacts DEF HoldsRepo, Exists
    <3>4. ~(call[s].op = "create" /\ call[s].repo = r)
      BY <1>2, <2>1 DEF CreatesApart
    <3>5. QED
      BY <1>1, <3>1, <3>3, <3>4 DEF PlaceStep
  <2>2. QED
    BY <2>1 DEF KeepsBirth
<1>7. KeepsPlaces(t)
  <2>1. ASSUME NEW p \in Places, HoldsPlace(t, p), ~Taken(p), NEW r \in Repos, place'[r] = p PROVE FALSE
    <3>1. place'[r] # place[r] /\ place'[r] # Gone
      BY <2>1, PlaceFacts DEF Taken
    <3>2. HoldsPlace(s, p)
      BY <1>1, <2>1, <3>1 DEF PlaceStep, Free
    <3>3. QED
      BY <1>3, <1>4, <2>1, <3>2 DEF HoldsPlace
  <2>2. QED
    BY <2>1 DEF KeepsPlaces, Taken
<1>8. KeepsLive(t)
  BY <1>1, <1>3, <1>4 DEF KeepsLive, OrgStep
<1>9. KeepsOrg(t)
  <2>1. ASSUME NEW o \in Orgs, HoldsLock(t, "namespace", o, "update"), org[o] = "live"
        PROVE  role'[o] = role[o]
    BY <1>1, <1>3, <1>4, <2>1 DEF OrgStep
  <2>2. ASSUME NEW o \in Orgs, HoldsLock(t, "namespace", o, "update"), org[o] = "live",
               NEW r \in Repos, Exists(r)', place'[r][1] = o
        PROVE  Exists(r) /\ place[r][1] = o
    <3>1. CASE place'[r] = place[r]
      BY <2>2, <3>1 DEF Exists
    <3>2. CASE place'[r] # place[r]
      <4>1. HoldsLock(s, "namespace", o, "keyshare")
        BY <1>1, <2>2, <3>2, PlaceFacts DEF PlaceStep, Exists, Free, HoldsPlace
      <4>2. QED
        BY <1>3, <1>4, <2>2, <4>1
    <3>3. QED
      BY <3>1, <3>2
  <2>3. QED
    BY <2>1, <2>2 DEF KeepsOrg
<1>10. KeepsAdmins(t)
  BY <1>1, <1>3, <1>4 DEF KeepsAdmins, OrgStep
<1>11. KeepsAccounts(t)
  <2>1. {"nokey", "share"} \in Clashing
    BY ClashFacts
  <2>2. QED
    BY <1>1, <1>3, <1>4, <2>1 DEF KeepsAccounts, AccountStep
<1>12. KeepsRequests(t)
  <2>1. ASSUME NEW i \in DOMAIN request' \ DOMAIN request
        PROVE  /\ ~HoldsLock(t, "repo", request'[i].repo, "update")
               /\ ~HoldsLock(t, "namespace", request'[i].from[1], "update")
               /\ ~HoldsLock(t, "namespace", request'[i].to[1], "update")
    BY <1>1, <1>3, <1>4, <2>1 DEF RequestStep, HoldsRepo
  <2>2. QED
    BY <1>1, <2>1 DEF KeepsRequests, RequestStep, Unrelied
<1>13. QED
  BY <1>5, <1>6, <1>7, <1>8, <1>9, <1>10, <1>11, <1>12 DEF Kept

\* So does a call that is one statement, and time.
LEMMA OutsideKeeps ==
    ASSUME RegistryInv, RegistryNext, ~\E s \in Sessions : Asking(s) \/ Executing(s),
           NEW t \in Sessions
    PROVE  Kept(t)
<1>1. /\ org \in [Orgs -> {"unborn", "live", "deleted"}] /\ role \in [Orgs -> [Users -> Roles]]
      /\ request \in Seq(Requests)
  BY DEF RegistryInv, RegistryTypeOK
<1>2. ASSUME place' = place PROVE KeepsBirth(t) /\ KeepsPlaces(t)
  BY <1>2 DEF KeepsBirth, KeepsPlaces, Taken
<1>3. ASSUME place' = place, archived' = archived PROVE KeepsRepos(t)
  BY <1>3 DEF KeepsRepos
<1>4. ASSUME org' = org PROVE KeepsLive(t)
  BY <1>4 DEF KeepsLive
<1>5. ASSUME place' = place, role' = role PROVE KeepsOrg(t) /\ KeepsAdmins(t)
  BY <1>5 DEF KeepsOrg, KeepsAdmins, Exists
<1>6. ASSUME siteAdmin' = siteAdmin, shut' = shut PROVE KeepsAccounts(t)
  BY <1>6 DEF KeepsAccounts
<1>7. ASSUME request' = request PROVE KeepsRequests(t)
  BY <1>1, <1>7 DEF KeepsRequests, SameRequest
<1>8. ASSUME NEW o \in Orgs, NEW u \in Users, CreateOrg(o, u) PROVE Kept(t)
  <2>1. /\ place' = place /\ archived' = archived /\ siteAdmin' = siteAdmin /\ shut' = shut
        /\ request' = request
        /\ org[o] = "unborn" /\ org'[o] = "live"
        /\ \A p \in Orgs : p # o => org'[p] = org[p] /\ role'[p] = role[p]
        /\ \A v \in Users : v # u => role'[o][v] = role[o][v]
        /\ role'[o][u] = "admin"
    BY <1>1, <1>8 DEF CreateOrg, AtOnce, accountVars, repoVars
  <2>2. KeepsLive(t) /\ KeepsOrg(t) /\ KeepsAdmins(t)
    BY <2>1 DEF KeepsLive, KeepsOrg, KeepsAdmins, Exists
  <2>3. QED
    BY <1>2, <1>3, <1>6, <1>7, <2>1, <2>2 DEF Kept
<1>9. ASSUME NEW o \in Orgs, NEW u \in Users, NEW to \in {"write", "admin"}, AddOrgMember(o, u, to)
      PROVE  Kept(t)
  <2>1. /\ place' = place /\ archived' = archived /\ siteAdmin' = siteAdmin /\ shut' = shut
        /\ request' = request /\ org' = org
        /\ Unheld(Lock("namespace", o, "keyshare"))
        /\ role[o][u] = "none"
        /\ \A p \in Orgs : p # o => role'[p] = role[p]
        /\ \A v \in Users : v # u => role'[o][v] = role[o][v]
    BY <1>1, <1>9 DEF AddOrgMember, AtOnce, accountVars, repoVars
  <2>2. ~HoldsLock(t, "namespace", o, "update")
    BY <2>1, UnheldFacts, ClashFacts
  <2>3. KeepsOrg(t) /\ KeepsAdmins(t)
    BY <2>1, <2>2 DEF KeepsOrg, KeepsAdmins, Exists
  <2>4. QED
    BY <1>2, <1>3, <1>4, <1>6, <1>7, <2>1, <2>3 DEF Kept
<1>10. ASSUME NEW r \in Repos, SetRepoArchived(r) PROVE Kept(t)
  <2>1. /\ place' = place /\ siteAdmin' = siteAdmin /\ shut' = shut
        /\ request' = request /\ org' = org /\ role' = role
        /\ Unheld(Lock("repo", r, "nokey"))
        /\ \A x \in Repos : x # r => (x \in archived' <=> x \in archived)
    BY <1>10 DEF SetRepoArchived, AtOnce, accountVars, orgVars
  <2>2. ~HoldsLock(t, "repo", r, "update")
    BY <2>1, UnheldFacts, ClashFacts
  <2>3. KeepsRepos(t)
    BY <2>1, <2>2 DEF KeepsRepos, HoldsRepo
  <2>4. QED
    BY <1>2, <1>4, <1>5, <1>6, <1>7, <2>1, <2>3 DEF Kept
<1>11. ASSUME NEW i \in DOMAIN request, RequestLapses(i) PROVE Kept(t)
  <2>1. /\ place' = place /\ siteAdmin' = siteAdmin /\ shut' = shut
        /\ org' = org /\ role' = role /\ archived' = archived
        /\ request' = [request EXCEPT ![i].lapsed = TRUE]
    BY <1>11 DEF RequestLapses, accountVars, orgVars, repoVars
  <2>2. \A q \in Requests :
          /\ [q EXCEPT !.lapsed = TRUE] \in Requests
          /\ [q EXCEPT !.lapsed = TRUE].repo = q.repo /\ [q EXCEPT !.lapsed = TRUE].by = q.by
          /\ [q EXCEPT !.lapsed = TRUE].from = q.from /\ [q EXCEPT !.lapsed = TRUE].to = q.to
          /\ [q EXCEPT !.lapsed = TRUE].status = q.status
    BY DEF Requests
  <2>3. /\ request[i] \in Requests
        /\ request'[i] = [request[i] EXCEPT !.lapsed = TRUE]
        /\ DOMAIN request' = DOMAIN request
        /\ \A j \in DOMAIN request : j # i => request'[j] = request[j]
    BY <1>1, <2>1
  <2>4. request' \in Seq(Requests)
    BY <1>1, <2>1, <2>2, <2>3
  <2>5. \A j \in DOMAIN request : SameRequest(j) /\ request'[j].status = request[j].status
    <3>1. SameRequest(i) /\ request'[i].status = request[i].status
      BY <2>2, <2>3 DEF SameRequest
    <3>2. \A j \in DOMAIN request : j # i => request'[j] = request[j]
      BY <2>3
    <3>3. QED
      BY <3>1, <3>2 DEF SameRequest
  <2>6. KeepsRequests(t)
    BY <2>3, <2>4, <2>5 DEF KeepsRequests
  <2>7. QED
    BY <1>2, <1>3, <1>4, <1>5, <1>6, <2>1, <2>6 DEF Kept
<1>12. QED
  BY <1>8, <1>9, <1>10, <1>11 DEF RegistryNext

\* Session t rests while another step is taken.
Rests(t) == call'[t] = call[t] /\ rowLock'[t] = rowLock[t]

\* A session at rest keeps its locks.
LEMMA LocksKept ==
    ASSUME NEW t, Rests(t), NEW kind, NEW row, NEW m
    PROVE  HoldsLock(t, kind, row, m)' <=> HoldsLock(t, kind, row, m)
BY DEF Rests, HoldsLock

\* A live namespace that a session has locked stays live.
LEMMA NamespaceKept ==
    ASSUME NEW t, KeepsLive(t), NEW n, NEW m \in {"keyshare", "share", "update"},
           HoldsLock(t, "namespace", n, m), LiveNamespace(n)
    PROVE  LiveNamespace(n)'
BY DEF KeepsLive, LiveNamespace

\* A place held free stays so.
LEMMA FreeKept ==
    ASSUME NEW t, Rests(t), Kept(t), NEW p \in Places, Free(t, p)
    PROVE  Free(t, p)'
BY NamespaceKept DEF Kept, KeepsPlaces, Free, HoldsPlace, HoldsLock, Rests

\* A repository whose row is held stays where it is.
LEMMA RepoKept ==
    ASSUME NEW t, Rests(t), Kept(t), NEW r \in Repos, HoldsRepo(t, r)
    PROVE  /\ HoldsRepo(t, r)' /\ place'[r] = place[r]
           /\ r \in archived' <=> r \in archived
BY DEF Kept, KeepsRepos, HoldsRepo, HoldsLock, Rests, Exists

\* A change of members keeps what it relies on.
LEMMA MemberKept ==
    ASSUME NEW t \in Sessions, NEW c \in Calls, call[t] = c, Rests(t), Kept(t), MemberGuard(t)
    PROVE  MemberGuard(t)'
<1>1. CASE c.op = "member" /\ c.step > 0
  <2>1. /\ c.org \in Orgs /\ HoldsLock(t, "namespace", c.org, "update") /\ org[c.org] = "live"
        /\ KeepsOrgAdmin(c)
    BY <1>1, CallFacts DEF MemberGuard
  <2>2. role'[c.org] = role[c.org] /\ org'[c.org] = "live"
    BY <2>1 DEF Kept, KeepsOrg, KeepsLive
  <2>3. OrgAdmins(c.org)' = OrgAdmins(c.org)
    BY <2>2 DEF OrgAdmins
  <2>4. KeepsOrgAdmin(c)'
    BY <2>1, <2>2, <2>3 DEF KeepsOrgAdmin
  <2>5. QED
    BY <2>1, <2>2, <2>4, LocksKept DEF MemberGuard, Rests
<1>2. CASE ~(c.op = "member" /\ c.step > 0)
  BY <1>2 DEF MemberGuard, Rests
<1>3. QED
  BY <1>1, <1>2

\* So does a change of an account.
LEMMA AccountKept ==
    ASSUME NEW t \in Sessions, NEW c \in Calls, call[t] = c, Rests(t), Kept(t), AccountGuard(t)
    PROVE  AccountGuard(t)'
BY LocksKept DEF AccountGuard, Rests, Kept, KeepsAccounts, KeepsSiteAdmin, UsableAdmins, Usable

\* So does a move.
LEMMA MoveKept ==
    ASSUME NEW t \in Sessions, NEW c \in Calls, call[t] = c, Rests(t), Kept(t), MoveGuard(t)
    PROVE  MoveGuard(t)'
<1>1. CASE c.op = "move" /\ c.step > 0
  <2>1. c.repo \in Repos /\ c.to \in Places /\ c.step \in Nat
    BY <1>1, CallFacts
  <2>2. /\ HoldsRepo(t, c.repo) /\ place[c.repo] # c.to
        /\ c.step > 1 => Free(t, c.to)
        /\ c.step > 2 => HoldsRequests(t, Pending(c.repo))
    BY <1>1 DEF MoveGuard
  <2>3. HoldsRepo(t, c.repo)' /\ place'[c.repo] # c.to
    BY <2>1, <2>2, RepoKept DEF Rests
  <2>4. c.step > 1 => Free(t, c.to)'
    BY <2>1, <2>2, FreeKept DEF Rests
  <2>5. ASSUME c.step > 2 PROVE HoldsRequests(t, Pending(c.repo))'
    <3>1. ASSUME NEW i \in Pending(c.repo)' PROVE i \in Pending(c.repo)
      <4>1. i \in DOMAIN request' /\ request'[i].repo = c.repo /\ request'[i].status = "pending"
        BY <3>1 DEF Pending, Rests
      <4>2. i \in DOMAIN request
        BY <2>2, <4>1 DEF Kept, KeepsRequests, HoldsRepo
      <4>3. QED
        BY <4>1, <4>2 DEF Kept, KeepsRequests, SameRequest, Pending
    <3>2. QED
      BY <2>2, <2>5, <3>1, LocksKept DEF HoldsRequests
  <2>6. QED
    BY <2>3, <2>4, <2>5 DEF MoveGuard, Rests
<1>2. CASE ~(c.op = "move" /\ c.step > 0)
  BY <1>2 DEF MoveGuard, Rests
<1>3. QED
  BY <1>1, <1>2

\* So does the filing of a request.
LEMMA FileKept ==
    ASSUME NEW t \in Sessions, NEW c \in Calls, call[t] = c, Rests(t), Kept(t), FileGuard(t)
    PROVE  FileGuard(t)'
<1>1. CASE c.op = "file" /\ c.step > 0
  <2>1. c.repo \in Repos /\ c.to \in Places
    BY <1>1, CallFacts
  <2>2. /\ HoldsRepo(t, c.repo)
        /\ \A h \in rowLock[t] : h.mode = "nokey" =>
                \E i \in DOMAIN request :
                    h = Lock("request", i, "nokey") /\ request[i].status = "pending"
        /\ c.step > 2 =>
            /\ Pending(c.repo) \subseteq Expiring(t) /\ LiveNamespace(c.to[1])
            /\ HoldsLock(t, "namespace", place[c.repo][1], "keyshare")
            /\ HoldsLock(t, "namespace", c.to[1], "keyshare")
    BY <1>1 DEF FileGuard
  <2>3. HoldsRepo(t, c.repo)' /\ place'[c.repo] = place[c.repo]
    BY <2>1, <2>2, RepoKept
  <2>4. ASSUME NEW h \in rowLock'[t], h.mode = "nokey"
        PROVE  \E i \in DOMAIN request' :
                    h = Lock("request", i, "nokey") /\ request'[i].status = "pending"
    <3>1. PICK i \in DOMAIN request :
                h = Lock("request", i, "nokey") /\ request[i].status = "pending"
      BY <2>2, <2>4 DEF Rests
    <3>2. HoldsLock(t, "request", i, "nokey")
      BY <2>4, <3>1 DEF HoldsLock, Rests
    <3>3. i \in DOMAIN request' /\ request'[i].status = "pending"
      BY <3>1, <3>2 DEF Kept, KeepsRequests
    <3>4. QED
      BY <3>1, <3>3
  <2>5. ASSUME c.step > 2 PROVE Pending(c.repo)' \subseteq Expiring(t)'
    <3>1. ASSUME NEW i \in Pending(c.repo)' PROVE i \in Expiring(t)'
      <4>1. i \in DOMAIN request' /\ request'[i].repo = c.repo /\ request'[i].status = "pending"
        BY <3>1 DEF Pending, Rests
      <4>2. i \in DOMAIN request
        BY <2>2, <4>1 DEF Kept, KeepsRequests, HoldsRepo
      <4>3. i \in Pending(c.repo)
        BY <4>1, <4>2 DEF Kept, KeepsRequests, SameRequest, Pending
      <4>4. QED
        BY <2>2, <2>5, <4>1, <4>3 DEF Expiring, Rests
    <3>2. QED
      BY <3>1
  <2>6. c.step > 2 => LiveNamespace(c.to[1])'
    BY <2>2, NamespaceKept DEF Kept
  <2>7. QED
    BY <2>2, <2>3, <2>4, <2>5, <2>6, LocksKept DEF FileGuard, Rests
<1>2. CASE ~(c.op = "file" /\ c.step > 0)
  BY <1>2 DEF FileGuard, Rests
<1>3. QED
  BY <1>1, <1>2

\* So does an accept.
LEMMA AcceptKept ==
    ASSUME NEW t \in Sessions, NEW c \in Calls, call[t] = c, Rests(t), Kept(t), AcceptGuard(t),
           request \in Seq(Requests)
    PROVE  AcceptGuard(t)'
<1>1. ASSUME NEW q, q = request[c.id], NEW p, p = request'[c.id], c.op = "accept"
      PROVE  AcceptGuard(t)'
  <2>1. /\ c.id \in DOMAIN request
        /\ c.step > 0 => HoldsRepo(t, q.repo)
        /\ c.step > 1 => HoldsLock(t, "request", c.id, "update") /\ q.status = "pending"
        /\ c.step > 2 => HoldsLock(t, "namespace", q.from[1], "share")
        /\ c.step > 3 =>
            /\ HoldsLock(t, "user", q.by, "share")
            /\ RequesterMayStillTransfer(q) /\ q.repo \notin archived
        /\ c.step > 4 => Free(t, q.to) /\ place[q.repo] # q.to
    BY <1>1 DEF AcceptGuard
  <2>2. q \in Requests /\ c.step \in Nat
    BY <1>1, <2>1, CallFacts
  <2>3. q.repo \in Repos /\ q.to \in Places /\ q.by \in Users
    BY <2>2 DEF Requests
  <2>4. /\ c.id \in DOMAIN request'
        /\ p.repo = q.repo /\ p.by = q.by /\ p.from = q.from /\ p.to = q.to
        /\ c.step > 1 => p.status = "pending"
    BY <1>1, <2>1 DEF Kept, KeepsRequests, SameRequest
  <2>5. c.step > 0 => HoldsRepo(t, p.repo)'
    BY <2>1, <2>3, <2>4, RepoKept
  <2>6. c.step > 3 => RequesterMayStillTransfer(p)' /\ p.repo \notin archived'
    <3>1. ASSUME c.step > 3
          PROVE  shut'[q.by] = shut[q.by] /\ (q.by \in siteAdmin' <=> q.by \in siteAdmin)
      BY <2>1, <2>3, <3>1 DEF Kept, KeepsAccounts
    <3>2. ASSUME c.step > 3, q.from[1] \in Orgs, role[q.from[1]][q.by] = "admin"
          PROVE  role'[q.from[1]][q.by] = "admin"
      BY <2>1, <2>2, <2>3, <3>2 DEF Kept, KeepsAdmins
    <3>3. ASSUME c.step > 3 PROVE q.repo \notin archived'
      BY <2>1, <2>2, <2>3, <3>3, RepoKept
    <3>4. QED
      BY <2>1, <2>4, <3>1, <3>2, <3>3 DEF RequesterMayStillTransfer, Usable, MayAdmin
  <2>7. c.step > 4 => Free(t, p.to)' /\ place'[p.repo] # p.to
    BY <2>1, <2>2, <2>3, <2>4, RepoKept, FreeKept
  <2>8. AcceptGuard(t)' <=>
        /\ c.id \in DOMAIN request'
        /\ c.step > 0 => HoldsRepo(t, p.repo)'
        /\ c.step > 1 => HoldsLock(t, "request", c.id, "update")' /\ p.status = "pending"
        /\ c.step > 2 => HoldsLock(t, "namespace", p.from[1], "share")'
        /\ c.step > 3 =>
            /\ HoldsLock(t, "user", p.by, "share")'
            /\ RequesterMayStillTransfer(p)' /\ p.repo \notin archived'
        /\ c.step > 4 => Free(t, p.to)' /\ place'[p.repo] # p.to
    BY <1>1 DEF AcceptGuard, Rests
  <2>9. QED
    BY <2>1, <2>4, <2>5, <2>6, <2>7, <2>8, LocksKept
<1>2. CASE c.op # "accept"
  BY <1>2 DEF AcceptGuard, Rests
<1>3. QED
  BY <1>1, <1>2

\* So does a decision.
LEMMA DecideKept ==
    ASSUME NEW t \in Sessions, NEW c \in Calls, call[t] = c, Rests(t), Kept(t), DecideGuard(t)
    PROVE  DecideGuard(t)'
BY LocksKept DEF DecideGuard, Rests, Kept, KeepsRequests

\* So does the deletion of an organisation.
LEMMA DissolveKept ==
    ASSUME NEW t \in Sessions, NEW c \in Calls, call[t] = c, Rests(t), Kept(t), DissolveGuard(t)
    PROVE  DissolveGuard(t)'
<1>1. CASE c.op = "dissolve" /\ c.step > 0
  <2>1. /\ c.org \in Orgs
        /\ HoldsLock(t, "namespace", c.org, "update") /\ org[c.org] = "live"
        /\ \A r \in Repos : Exists(r) => place[r][1] # c.org
        /\ c.step > 1 => HoldsRequests(t, Touching(c.org))
    BY <1>1, CallFacts DEF DissolveGuard
  <2>2. org'[c.org] = "live"
    BY <2>1 DEF Kept, KeepsLive
  <2>3. \A r \in Repos : Exists(r)' => place'[r][1] # c.org
    BY <2>1 DEF Kept, KeepsOrg
  <2>4. ASSUME c.step > 1 PROVE HoldsRequests(t, Touching(c.org))'
    <3>1. ASSUME NEW i \in Touching(c.org)' PROVE i \in Touching(c.org)
      <4>1. /\ i \in DOMAIN request' /\ request'[i].status # "gone"
            /\ c.org = request'[i].from[1] \/ c.org = request'[i].to[1]
        BY <3>1 DEF Touching
      <4>2. i \in DOMAIN request
        BY <2>1, <4>1 DEF Kept, KeepsRequests
      <4>3. QED
        BY <4>1, <4>2 DEF Kept, KeepsRequests, SameRequest, Touching
    <3>2. QED
      BY <2>1, <2>4, <3>1, LocksKept DEF HoldsRequests
  <2>5. QED
    BY <2>1, <2>2, <2>3, <2>4, LocksKept DEF DissolveGuard, Rests
<1>2. CASE ~(c.op = "dissolve" /\ c.step > 0)
  BY <1>2 DEF DissolveGuard, Rests
<1>3. QED
  BY <1>1, <1>2

\* So does the creation of a repository.
LEMMA CreateKept ==
    ASSUME NEW t \in Sessions, NEW c \in Calls, call[t] = c, Rests(t), Kept(t), CreateGuard(t)
    PROVE  CreateGuard(t)'
<1>1. c.op = "create" => c.to \in Places
  BY CallFacts
<1>2. QED
  BY <1>1, FreeKept DEF CreateGuard, Rests, Kept, KeepsBirth

\* So does its deletion.
LEMMA DeleteKept ==
    ASSUME NEW t \in Sessions, NEW c \in Calls, call[t] = c, Rests(t), Kept(t), DeleteGuard(t)
    PROVE  DeleteGuard(t)'
<1>1. CASE c.op = "delete" /\ c.step > 0
  <2>1. /\ c.repo \in Repos /\ HoldsRepo(t, c.repo)
        /\ c.step > 1 => HoldsRequests(t, RequestsOf(c.repo))
    BY <1>1, CallFacts DEF DeleteGuard
  <2>2. HoldsRepo(t, c.repo)'
    BY <2>1, RepoKept
  <2>3. ASSUME c.step > 1 PROVE HoldsRequests(t, RequestsOf(c.repo))'
    <3>1. ASSUME NEW i \in RequestsOf(c.repo)' PROVE i \in RequestsOf(c.repo)
      <4>1. i \in DOMAIN request' /\ request'[i].repo = c.repo
        BY <3>1 DEF RequestsOf
      <4>2. i \in DOMAIN request
        BY <2>1, <4>1 DEF Kept, KeepsRequests, HoldsRepo
      <4>3. QED
        BY <4>1, <4>2 DEF Kept, KeepsRequests, SameRequest, RequestsOf
    <3>2. QED
      BY <2>1, <2>3, <3>1, LocksKept DEF HoldsRequests
  <2>4. QED
    BY <2>2, <2>3 DEF DeleteGuard, Rests
<1>2. CASE ~(c.op = "delete" /\ c.step > 0)
  BY <1>2 DEF DeleteGuard, Rests
<1>3. QED
  BY <1>1, <1>2

\* A transaction keeps what it relies on while others take steps.
LEMMA GuardedKept ==
    ASSUME RegistryInv, NEW t \in Sessions, Rests(t), Kept(t)
    PROVE  Guarded(t)'
<1>1. call[t] \in Calls /\ Guarded(t) /\ request \in Seq(Requests)
  BY DEF RegistryInv, RegistryTypeOK
<1>2. QED
  BY <1>1, MemberKept, AccountKept, MoveKept, FileKept, AcceptKept, DecideKept, DissolveKept,
     CreateKept, DeleteKept DEF Guarded

-----------------------------------------------------------------------------
(* What a transaction may rely on once a statement has its locks.          *)

\* What is read of tables that stay as they are.
LEMMA SameTables ==
    ASSUME UNCHANGED <<org, role, siteAdmin, shut, place, archived, redirect, request>>
    PROVE  /\ \A p : Taken(p)' <=> Taken(p)
           /\ \A n : LiveNamespace(n)' <=> LiveNamespace(n)
           /\ \A r : Exists(r)' <=> Exists(r)
           /\ \A r : Pending(r)' = Pending(r) /\ RequestsOf(r)' = RequestsOf(r)
           /\ \A o : Touching(o)' = Touching(o)
           /\ \A q : RequesterMayStillTransfer(q)' <=> RequesterMayStillTransfer(q)
           /\ \A c : KeepsOrgAdmin(c)' <=> KeepsOrgAdmin(c)
           /\ \A c : KeepsSiteAdmin(c)' <=> KeepsSiteAdmin(c)
<1>1. \A o : OrgAdmins(o)' = OrgAdmins(o)
  BY DEF OrgAdmins
<1>2. UsableAdmins' = UsableAdmins
  BY DEF UsableAdmins, Usable
<1>3. \A c : KeepsOrgAdmin(c)' <=> KeepsOrgAdmin(c)
  BY <1>1 DEF KeepsOrgAdmin
<1>4. \A c : KeepsSiteAdmin(c)' <=> KeepsSiteAdmin(c)
  BY <1>2 DEF KeepsSiteAdmin
<1>5. /\ \A p : Taken(p)' <=> Taken(p)
      /\ \A n : LiveNamespace(n)' <=> LiveNamespace(n)
      /\ \A r : Exists(r)' <=> Exists(r)
  BY DEF Taken, LiveNamespace, Exists
<1>6. /\ \A r : Pending(r)' = Pending(r) /\ RequestsOf(r)' = RequestsOf(r)
      /\ \A o : Touching(o)' = Touching(o)
  BY DEF Pending, RequestsOf, Touching
<1>7. \A q : RequesterMayStillTransfer(q)' <=> RequesterMayStillTransfer(q)
  BY DEF RequesterMayStillTransfer, Usable, MayAdmin
<1>8. QED
  BY <1>3, <1>4, <1>5, <1>6, <1>7

\* A session after a statement: the same call, further, with more locks.
Advances(s, c, d) ==
    /\ c \in Calls /\ d \in Calls /\ call[s] = c /\ call'[s] = d
    /\ d.op = c.op /\ c.step \in Nat /\ d.step = c.step + 1
    /\ c.step < Len(Statements(c))
    /\ UNCHANGED <<org, role, siteAdmin, shut, place, archived, redirect, request>>
    /\ rowLock'[s] = rowLock[s] \cup Statements(c)[c.step + 1]
    /\ Finds(s)

\* A statement advances its session.
LEMMA StatementAdvances ==
    ASSUME RegistryInv, NEW s \in Sessions, Statement(s)
    PROVE  Advances(s, call[s], call'[s])
<1>1. RegistryTypeOK
  BY DEF RegistryInv
<1>2. /\ UNCHANGED <<org, role, siteAdmin, shut, place, archived, redirect, request>>
      /\ call[s].step < Len(Statements(call[s])) /\ Finds(s)
  BY DEF Statement, Executes, accountVars, orgVars, repoVars
<1>3. QED
  BY <1>1, <1>2, StatementFacts DEF Advances

\* It is the same call afterwards.
LEMMA AdvancesSame ==
    ASSUME NEW s, NEW c, NEW d, Advances(s, c, d),
           call'[s] = [call[s] EXCEPT !.step = call[s].step + 1], c.op # "idle"
    PROVE  /\ c.op = "member" => d.org = c.org /\ d.user = c.user /\ d.becomes = c.becomes
           /\ c.op = "account" => d.user = c.user /\ d.what = c.what /\ d.opens = c.opens
           /\ c.op \in {"move", "file", "create"} => d.repo = c.repo /\ d.to = c.to
           /\ c.op = "file" => d.by = c.by
           /\ c.op \in {"accept", "decide"} => d.id = c.id
           /\ c.op = "decide" => d.status = c.status
           /\ c.op = "dissolve" => d.org = c.org
           /\ c.op \in {"made", "delete"} => d.repo = c.repo
BY AdvancedFacts DEF Advances

\* What each call's statements find.
LEMMA FindsOf ==
    ASSUME NEW s, NEW c, call[s] = c, Finds(s)
    PROVE  /\ c.op = "member" => org[c.org] = "live" /\ KeepsOrgAdmin(c)
           /\ c.op = "account" /\ c.step = 0 => KeepsSiteAdmin(c)
           /\ c.op = "move" /\ c.step = 0 => Resolves(c.repo, c.to)
           /\ c.op = "move" /\ c.step = 1 => ~Taken(c.to) /\ LiveNamespace(c.to[1])
           /\ c.op = "file" /\ c.step = 0 => Resolves(c.repo, c.to)
           /\ c.op = "file" /\ c.step = 2 =>
                LiveNamespace(c.to[1]) /\ Pending(c.repo) \subseteq Expiring(s)
           /\ c.op = "accept" /\ c.step = 0 => Exists(request[c.id].repo)
           /\ c.op = "accept" /\ c.step = 1 => Answerable(c.id)
           /\ c.op = "accept" /\ c.step = 3 =>
                /\ RequesterMayStillTransfer(request[c.id])
                /\ request[c.id].repo \notin archived
           /\ c.op = "accept" /\ c.step = 4 => Resolves(request[c.id].repo, request[c.id].to)
           /\ c.op = "decide" => Answerable(c.id)
           /\ c.op = "dissolve" =>
                org[c.org] = "live" /\ \A r \in Repos : Exists(r) => place[r][1] # c.org
           /\ c.op = "create" => ~Taken(c.to) /\ LiveNamespace(c.to[1])
           /\ c.op = "delete" => Exists(c.repo)
BY DEF Finds

\* The locks a session has, and those its statement takes.
LEMMA LocksTaken ==
    ASSUME NEW s, NEW c, NEW d, Advances(s, c, d), NEW kind, NEW row, NEW m
    PROVE  /\ HoldsLock(s, kind, row, m) => HoldsLock(s, kind, row, m)'
           /\ Lock(kind, row, m) \in Statements(c)[c.step + 1] => HoldsLock(s, kind, row, m)'
BY DEF Advances, HoldsLock

\* The lock of a new place.
LEMMA PlaceTaken ==
    ASSUME NEW s, NEW c, NEW d, Advances(s, c, d), NEW p
    PROVE  /\ HoldsPlace(s, p) => HoldsPlace(s, p)'
           /\ Statements(c)[c.step + 1] = NewPlace(p) => HoldsPlace(s, p)'
BY LocksTaken DEF HoldsPlace, NewPlace, ForeignKey

\* A place found free, and locked.
LEMMA FreeTaken ==
    ASSUME NEW s, NEW c, NEW d, Advances(s, c, d), NEW p
    PROVE  /\ Free(s, p) => Free(s, p)'
           /\ Statements(c)[c.step + 1] = NewPlace(p) /\ ~Taken(p) /\ LiveNamespace(p[1]) =>
                Free(s, p)'
<1>1. (Taken(p)' <=> Taken(p)) /\ (LiveNamespace(p[1])' <=> LiveNamespace(p[1]))
  BY SameTables DEF Advances
<1>2. QED
  BY <1>1, PlaceTaken DEF Free

\* A repository found, and its row locked.
LEMMA RepoTaken ==
    ASSUME NEW s, NEW c, NEW d, Advances(s, c, d), NEW r
    PROVE  /\ HoldsRepo(s, r) => HoldsRepo(s, r)'
           /\ Statements(c)[c.step + 1] = {Lock("repo", r, "update")} /\ Exists(r) =>
                HoldsRepo(s, r)'
<1>1. Exists(r)' <=> Exists(r)
  BY SameTables DEF Advances
<1>2. QED
  BY <1>1, LocksTaken DEF HoldsRepo

\* Requests that are locked.
LEMMA RequestsTaken ==
    ASSUME NEW s, NEW c, NEW d, Advances(s, c, d), NEW ids, NEW m \in {"update", "nokey"}
    PROVE  /\ HoldsRequests(s, ids) => HoldsRequests(s, ids)'
           /\ Statements(c)[c.step + 1] = RequestLocks(ids, m) => HoldsRequests(s, ids)'
BY LocksTaken DEF HoldsRequests, RequestLocks

\* The statement of a change of members.
LEMMA MemberAdvances ==
    ASSUME NEW s, NEW c, NEW d, Advances(s, c, d), c.op = "member",
           d.org = c.org, d.user = c.user, d.becomes = c.becomes
    PROVE  MemberGuard(s)'
<1>1. c.step = 0
  <2>1. Len(Statements(c)) = 1
    BY StatementCount
  <2>2. QED
    BY <2>1 DEF Advances
<1>2. HoldsLock(s, "namespace", c.org, "update")'
  <2>1. Statements(c)[c.step + 1] = OrgLock(c.org)
    BY <1>1, MemberStatements
  <2>2. QED
    BY <2>1, LocksTaken DEF OrgLock
<1>3. org[c.org] = "live" /\ KeepsOrgAdmin(c)
  BY FindsOf DEF Advances
<1>4. KeepsOrgAdmin(d)
  BY <1>3 DEF KeepsOrgAdmin
<1>5. org'[c.org] = "live" /\ KeepsOrgAdmin(d)'
  BY <1>3, <1>4, SameTables DEF Advances
<1>6. QED
  BY <1>2, <1>5 DEF MemberGuard, Advances

\* Those of a change of an account.
LEMMA AccountAdvances ==
    ASSUME NEW s, NEW c, NEW d, Advances(s, c, d), c.op = "account", AccountGuard(s),
           d.user = c.user, d.what = c.what, d.opens = c.opens
    PROVE  AccountGuard(s)'
<1>1. KeepsSiteAdmin(c)
  <2>1. CASE c.step = 0
    BY <2>1, FindsOf DEF Advances
  <2>2. CASE c.step > 0
    BY <2>2 DEF AccountGuard, Advances
  <2>3. QED
    BY <2>1, <2>2 DEF Advances
<1>2. KeepsSiteAdmin(d)'
  <2>1. KeepsSiteAdmin(d)
    BY <1>1 DEF KeepsSiteAdmin
  <2>2. QED
    BY <2>1, SameTables DEF Advances
<1>3. HoldsLock(s, "advisory", "site-admins", "update")'
  <2>1. CASE c.step = 0
    <3>1. Statements(c)[c.step + 1] = AdminsLock
      BY <2>1, AccountStatements
    <3>2. QED
      BY <3>1, LocksTaken DEF AdminsLock
  <2>2. CASE c.step > 0
    BY <2>2, LocksTaken DEF AccountGuard, Advances
  <2>3. QED
    BY <2>1, <2>2 DEF Advances
<1>4. ASSUME d.step > 1 PROVE HoldsLock(s, "user", c.user, "nokey")'
  <2>1. c.step = 1
    <3>1. Len(Statements(c)) = 2
      BY StatementCount
    <3>2. QED
      BY <1>4, <3>1 DEF Advances
  <2>2. Statements(c)[c.step + 1] = {Lock("user", c.user, "nokey")}
    BY <2>1, AccountStatements
  <2>3. QED
    BY <2>2, LocksTaken
<1>5. QED
  BY <1>2, <1>3, <1>4 DEF AccountGuard, Advances

\* Those of a move.
LEMMA MoveAdvances ==
    ASSUME NEW s, NEW c, NEW d, Advances(s, c, d), c.op = "move", MoveGuard(s),
           d.repo = c.repo, d.to = c.to
    PROVE  MoveGuard(s)'
<1>1. c.step \in Nat /\ d.step = c.step + 1 /\ call[s] = c
  BY DEF Advances
<1>2. HoldsRepo(s, c.repo)' /\ place'[c.repo] # c.to
  <2>1. CASE c.step = 0
    <3>1. Statements(c)[c.step + 1] = {Lock("repo", c.repo, "update")}
      BY <2>1, MoveStatements
    <3>2. Resolves(c.repo, c.to)
      BY <2>1, FindsOf DEF Advances
    <3>3. QED
      BY <3>1, <3>2, RepoTaken DEF Resolves, Advances
  <2>2. CASE c.step > 0
    BY <1>1, <2>2, RepoTaken DEF MoveGuard, Advances
  <2>3. QED
    BY <1>1, <2>1, <2>2
<1>3. ASSUME d.step > 1 PROVE Free(s, c.to)'
  <2>1. CASE c.step = 1
    <3>1. Statements(c)[c.step + 1] = NewPlace(c.to)
      BY <2>1, MoveStatements
    <3>2. ~Taken(c.to) /\ LiveNamespace(c.to[1])
      BY <2>1, FindsOf DEF Advances
    <3>3. QED
      BY <3>1, <3>2, FreeTaken
  <2>2. CASE c.step > 1
    BY <1>1, <2>2, FreeTaken DEF MoveGuard
  <2>3. QED
    BY <1>1, <1>3, <2>1, <2>2
<1>4. ASSUME d.step > 2 PROVE HoldsRequests(s, Pending(c.repo))'
  <2>1. ASSUME NEW ids, ids = Pending(c.repo) PROVE HoldsRequests(s, ids)'
    <3>1. CASE c.step = 2
      <4>1. Statements(c)[c.step + 1] = RequestLocks(ids, "nokey")
        BY <2>1, <3>1, MoveStatements
      <4>2. QED
        BY <4>1, RequestsTaken
    <3>2. CASE c.step > 2
      BY <1>1, <2>1, <3>2, RequestsTaken DEF MoveGuard
    <3>3. QED
      BY <1>1, <1>4, <3>1, <3>2
  <2>2. Pending(c.repo)' = Pending(c.repo)
    BY SameTables DEF Advances
  <2>3. QED
    BY <2>1, <2>2 DEF HoldsRequests
<1>5. QED
  BY <1>2, <1>3, <1>4 DEF MoveGuard, Advances

\* Those of the filing of a request.
LEMMA FileAdvances ==
    ASSUME NEW s, NEW c, NEW d, Advances(s, c, d), c.op = "file", FileGuard(s),
           c.step = 0 => rowLock[s] = {}, d.repo = c.repo, d.to = c.to
    PROVE  FileGuard(s)'
<1>1. c.step \in Nat /\ c.step < 3 /\ d.step = c.step + 1 /\ call[s] = c
  <2>1. Len(Statements(c)) = 3
    BY StatementCount
  <2>2. QED
    BY <2>1 DEF Advances
<1>2. rowLock'[s] = rowLock[s] \cup Statements(c)[c.step + 1] /\ request' = request
  BY DEF Advances
<1>3. HoldsRepo(s, c.repo)'
  <2>1. CASE c.step = 0
    <3>1. Statements(c)[c.step + 1] = {Lock("repo", c.repo, "update")}
      BY <2>1, FileStatements
    <3>2. Resolves(c.repo, c.to)
      BY <2>1, FindsOf DEF Advances
    <3>3. QED
      BY <3>1, <3>2, RepoTaken DEF Resolves
  <2>2. CASE c.step > 0
    BY <1>1, <2>2, RepoTaken DEF FileGuard
  <2>3. QED
    BY <1>1, <2>1, <2>2
<1>4. ASSUME NEW h \in rowLock[s], h.mode = "nokey"
      PROVE  \E i \in DOMAIN request :
                    h = Lock("request", i, "nokey") /\ request[i].status = "pending"
  BY <1>1, <1>4 DEF FileGuard
<1>5. ASSUME NEW h \in Statements(c)[c.step + 1], h.mode = "nokey"
      PROVE  \E i \in DOMAIN request :
                    h = Lock("request", i, "nokey") /\ request[i].status = "pending"
  <2>1. CASE c.step = 0
    <3>1. h = Lock("repo", c.repo, "update")
      BY <1>5, <2>1, FileStatements
    <3>2. QED
      BY <1>5, <3>1, LockFacts
  <2>2. CASE c.step = 1
    <3>1. h \in RequestLocks(Overdue(c.repo), "nokey")
      BY <1>5, <2>2, FileStatements
    <3>2. QED
      BY <3>1 DEF RequestLocks, Overdue, Pending
  <2>3. CASE c.step = 2
    <3>1. h \in HomeKey(c.repo) \cup ForeignKey(c.to[1])
      BY <1>5, <2>3, FileStatements
    <3>2. \E n : h = Lock("namespace", n, "keyshare")
      BY <3>1 DEF HomeKey, ForeignKey
    <3>3. QED
      BY <1>5, <3>2, LockFacts
  <2>4. QED
    BY <1>1, <2>1, <2>2, <2>3
<1>6. ASSUME d.step > 2
      PROVE  /\ Pending(c.repo)' \subseteq Expiring(s)' /\ LiveNamespace(c.to[1])'
             /\ HoldsLock(s, "namespace", place[c.repo][1], "keyshare")'
             /\ HoldsLock(s, "namespace", c.to[1], "keyshare")'
  <2>1. c.step = 2
    BY <1>1, <1>6
  <2>2. LiveNamespace(c.to[1]) /\ Pending(c.repo) \subseteq Expiring(s)
    BY <2>1, FindsOf DEF Advances
  <2>3. Expiring(s) \subseteq Expiring(s)'
    BY <1>2 DEF Expiring
  <2>4. Pending(c.repo)' \subseteq Expiring(s)' /\ LiveNamespace(c.to[1])'
    BY <2>2, <2>3, SameTables DEF Advances
  <2>5. Statements(c)[c.step + 1] = HomeKey(c.repo) \cup ForeignKey(c.to[1])
    BY <2>1, FileStatements
  <2>6. Exists(c.repo)
    BY <1>1, <2>1 DEF FileGuard, HoldsRepo
  <2>7. /\ Lock("namespace", place[c.repo][1], "keyshare") \in rowLock'[s]
        /\ Lock("namespace", c.to[1], "keyshare") \in rowLock'[s]
    BY <1>2, <2>5, <2>6 DEF HomeKey, ForeignKey
  <2>8. place' = place
    BY DEF Advances
  <2>9. QED
    BY <2>4, <2>7, <2>8 DEF HoldsLock
<1>7. \A h \in rowLock'[s] : h.mode = "nokey" =>
        \E i \in DOMAIN request' :
            h = Lock("request", i, "nokey") /\ request'[i].status = "pending"
  BY <1>2, <1>4, <1>5
<1>8. QED
  BY <1>3, <1>6, <1>7 DEF FileGuard, Advances

\* Those of an accept.
LEMMA AcceptAdvances ==
    ASSUME NEW s, NEW c, NEW d, Advances(s, c, d), c.op = "accept", AcceptGuard(s), d.id = c.id,
           NEW q, q = request[c.id]
    PROVE  AcceptGuard(s)'
<1>1. c.step \in Nat /\ d.step = c.step + 1 /\ call[s] = c /\ request' = request
  BY DEF Advances
<1>2. /\ c.id \in DOMAIN request
      /\ c.step > 0 => HoldsRepo(s, q.repo)
      /\ c.step > 1 => HoldsLock(s, "request", c.id, "update") /\ q.status = "pending"
      /\ c.step > 2 => HoldsLock(s, "namespace", q.from[1], "share")
      /\ c.step > 3 =>
            /\ HoldsLock(s, "user", q.by, "share")
            /\ RequesterMayStillTransfer(q) /\ q.repo \notin archived
      /\ c.step > 4 => Free(s, q.to) /\ place[q.repo] # q.to
  BY <1>1 DEF AcceptGuard
<1>3. /\ Statements(c)[1] = {Lock("repo", q.repo, "update")}
      /\ Statements(c)[2] = RequestLocks({c.id}, "update")
      /\ Statements(c)[3] = SourceLock(q.from[1])
      /\ Statements(c)[4] = {Lock("user", q.by, "share")}
      /\ Statements(c)[5] = NewPlace(q.to)
  BY AcceptStatements
<1>4. /\ c.step = 0 => Exists(q.repo)
      /\ c.step = 1 => Answerable(c.id)
      /\ c.step = 3 => RequesterMayStillTransfer(q) /\ q.repo \notin archived
      /\ c.step = 4 => Resolves(q.repo, q.to)
  BY FindsOf DEF Advances
<1>5. ASSUME d.step > 0 PROVE HoldsRepo(s, q.repo)'
  <2>1. CASE c.step = 0
    BY <1>3, <1>4, <2>1, RepoTaken
  <2>2. CASE c.step > 0
    BY <1>2, <2>2, RepoTaken
  <2>3. QED
    BY <1>1, <2>1, <2>2
<1>6. ASSUME d.step > 1 PROVE HoldsLock(s, "request", c.id, "update")' /\ q.status = "pending"
  <2>1. CASE c.step = 1
    <3>1. Lock("request", c.id, "update") \in Statements(c)[c.step + 1]
      BY <1>3, <2>1 DEF RequestLocks
    <3>2. q.status = "pending"
      BY <1>4, <2>1 DEF Answerable
    <3>3. QED
      BY <3>1, <3>2, LocksTaken
  <2>2. CASE c.step > 1
    BY <1>2, <2>2, LocksTaken
  <2>3. QED
    BY <1>1, <1>6, <2>1, <2>2
<1>7. ASSUME d.step > 2 PROVE HoldsLock(s, "namespace", q.from[1], "share")'
  <2>1. CASE c.step = 2
    <3>1. Lock("namespace", q.from[1], "share") \in Statements(c)[c.step + 1]
      BY <1>3, <2>1 DEF SourceLock
    <3>2. QED
      BY <3>1, LocksTaken
  <2>2. CASE c.step > 2
    BY <1>2, <2>2, LocksTaken
  <2>3. QED
    BY <1>1, <1>7, <2>1, <2>2
<1>8. ASSUME d.step > 3
      PROVE  /\ HoldsLock(s, "user", q.by, "share")'
             /\ RequesterMayStillTransfer(q)' /\ q.repo \notin archived'
  <2>1. HoldsLock(s, "user", q.by, "share")'
    <3>1. CASE c.step = 3
      <4>1. Lock("user", q.by, "share") \in Statements(c)[c.step + 1]
        BY <1>3, <3>1
      <4>2. QED
        BY <4>1, LocksTaken
    <3>2. CASE c.step > 3
      BY <1>2, <3>2, LocksTaken
    <3>3. QED
      BY <1>1, <1>8, <3>1, <3>2
  <2>2. RequesterMayStillTransfer(q) /\ q.repo \notin archived
    BY <1>1, <1>2, <1>4, <1>8
  <2>3. QED
    BY <2>1, <2>2, SameTables DEF Advances
<1>9. ASSUME d.step > 4 PROVE Free(s, q.to)' /\ place'[q.repo] # q.to
  <2>1. CASE c.step = 4
    <3>1. ~Taken(q.to) /\ LiveNamespace(q.to[1]) /\ place[q.repo] # q.to
      BY <1>4, <2>1 DEF Resolves
    <3>2. QED
      BY <1>3, <2>1, <3>1, FreeTaken DEF Advances
  <2>2. CASE c.step > 4
    BY <1>2, <2>2, FreeTaken DEF Advances
  <2>3. QED
    BY <1>1, <1>9, <2>1, <2>2
<1>10. AcceptGuard(s)' <=>
        /\ c.id \in DOMAIN request
        /\ d.step > 0 => HoldsRepo(s, q.repo)'
        /\ d.step > 1 => HoldsLock(s, "request", c.id, "update")' /\ q.status = "pending"
        /\ d.step > 2 => HoldsLock(s, "namespace", q.from[1], "share")'
        /\ d.step > 3 =>
            /\ HoldsLock(s, "user", q.by, "share")'
            /\ RequesterMayStillTransfer(q)' /\ q.repo \notin archived'
        /\ d.step > 4 => Free(s, q.to)' /\ place'[q.repo] # q.to
  BY DEF AcceptGuard, Advances
<1>11. QED
  BY <1>2, <1>5, <1>6, <1>7, <1>8, <1>9, <1>10

\* That of a decision.
LEMMA DecideAdvances ==
    ASSUME NEW s, NEW c, NEW d, Advances(s, c, d), c.op = "decide", DecideGuard(s), d.id = c.id
    PROVE  DecideGuard(s)'
<1>1. c.step = 0
  <2>1. Len(Statements(c)) = 1
    BY StatementCount
  <2>2. QED
    BY <2>1 DEF Advances
<1>2. Lock("request", c.id, "update") \in Statements(c)[c.step + 1]
  BY <1>1, DecideStatements DEF RequestLocks
<1>3. HoldsLock(s, "request", c.id, "update")'
  BY <1>2, LocksTaken
<1>4. request[c.id].status = "pending" /\ c.id \in DOMAIN request
  BY FindsOf DEF Advances, Answerable, DecideGuard
<1>5. QED
  BY <1>3, <1>4 DEF DecideGuard, Advances

\* Those of the deletion of an organisation.
LEMMA DissolveAdvances ==
    ASSUME NEW s, NEW c, NEW d, Advances(s, c, d), c.op = "dissolve", DissolveGuard(s), d.org = c.org
    PROVE  DissolveGuard(s)'
<1>1. c.step \in Nat /\ c.step < 2 /\ d.step = c.step + 1 /\ call[s] = c
  <2>1. Len(Statements(c)) = 2
    BY StatementCount
  <2>2. QED
    BY <2>1 DEF Advances
<1>2. HoldsLock(s, "namespace", c.org, "update")'
  <2>1. CASE c.step = 0
    <3>1. Lock("namespace", c.org, "update") \in Statements(c)[c.step + 1]
      BY <2>1, DissolveStatements DEF OrgLock
    <3>2. QED
      BY <3>1, LocksTaken
  <2>2. CASE c.step > 0
    BY <1>1, <2>2, LocksTaken DEF DissolveGuard
  <2>3. QED
    BY <1>1, <2>1, <2>2
<1>3. org'[c.org] = "live" /\ \A r \in Repos : Exists(r)' => place'[r][1] # c.org
  BY FindsOf, SameTables DEF Advances
<1>4. ASSUME d.step > 1 PROVE HoldsRequests(s, Touching(c.org))'
  <2>1. ASSUME NEW ids, ids = Touching(c.org) PROVE HoldsRequests(s, ids)'
    <3>1. Statements(c)[c.step + 1] = RequestLocks(ids, "update")
      BY <1>1, <1>4, <2>1, DissolveStatements
    <3>2. QED
      BY <3>1, RequestsTaken
  <2>2. Touching(c.org)' = Touching(c.org)
    BY SameTables DEF Advances
  <2>3. QED
    BY <2>1, <2>2 DEF HoldsRequests
<1>5. QED
  BY <1>2, <1>3, <1>4 DEF DissolveGuard, Advances

\* That of the creation of a repository.
LEMMA CreateAdvances ==
    ASSUME NEW s, NEW c, NEW d, Advances(s, c, d), c.op = "create", CreateGuard(s),
           d.repo = c.repo, d.to = c.to
    PROVE  CreateGuard(s)'
<1>1. c.step = 0
  <2>1. Len(Statements(c)) = 1
    BY StatementCount
  <2>2. QED
    BY <2>1 DEF Advances
<1>2. Statements(c)[c.step + 1] = NewPlace(c.to)
  BY <1>1, CreateStatements
<1>3. ~Taken(c.to) /\ LiveNamespace(c.to[1])
  BY FindsOf DEF Advances
<1>4. Free(s, c.to)'
  BY <1>2, <1>3, FreeTaken
<1>5. place'[c.repo] = Unborn
  BY DEF CreateGuard, Advances
<1>6. QED
  BY <1>4, <1>5 DEF CreateGuard, Advances

\* Those of its deletion.
LEMMA DeleteAdvances ==
    ASSUME NEW s, NEW c, NEW d, Advances(s, c, d), c.op = "delete", DeleteGuard(s), d.repo = c.repo
    PROVE  DeleteGuard(s)'
<1>1. c.step \in Nat /\ c.step < 2 /\ d.step = c.step + 1 /\ call[s] = c
  <2>1. Len(Statements(c)) = 2
    BY StatementCount
  <2>2. QED
    BY <2>1 DEF Advances
<1>2. HoldsRepo(s, c.repo)'
  <2>1. CASE c.step = 0
    <3>1. Statements(c)[c.step + 1] = {Lock("repo", c.repo, "update")}
      BY <2>1, DeleteStatements
    <3>2. Exists(c.repo)
      BY FindsOf DEF Advances
    <3>3. QED
      BY <3>1, <3>2, RepoTaken
  <2>2. CASE c.step > 0
    BY <1>1, <2>2, RepoTaken DEF DeleteGuard
  <2>3. QED
    BY <1>1, <2>1, <2>2
<1>3. ASSUME d.step > 1 PROVE HoldsRequests(s, RequestsOf(c.repo))'
  <2>1. ASSUME NEW ids, ids = RequestsOf(c.repo) PROVE HoldsRequests(s, ids)'
    <3>1. Statements(c)[c.step + 1] = RequestLocks(ids, "update")
      BY <1>1, <1>3, <2>1, DeleteStatements
    <3>2. QED
      BY <3>1, RequestsTaken
  <2>2. RequestsOf(c.repo)' = RequestsOf(c.repo)
    BY SameTables DEF Advances
  <2>3. QED
    BY <2>1, <2>2 DEF HoldsRequests
<1>4. QED
  BY <1>2, <1>3 DEF DeleteGuard, Advances

\* A statement leaves its transaction what it may rely on from then on.
LEMMA StatementGuards ==
    ASSUME RegistryInv, NEW s \in Sessions, Statement(s)
    PROVE  Guarded(s)'
<1>1. ASSUME NEW c, c = call[s], NEW d, d = call'[s] PROVE Guarded(s)'
  <2>1. Advances(s, c, d) /\ c \in Calls /\ d.op = c.op
    BY <1>1, StatementAdvances DEF Advances
  <2>2. /\ c.op \notin {"idle", "made"} /\ Guarded(s)
        /\ call'[s] = [call[s] EXCEPT !.step = call[s].step + 1]
        /\ c.step = 0 => rowLock[s] = {}
    BY <1>1, StatementFacts DEF RegistryInv, HoldsNothing
  <2>3. /\ c.op = "member" => d.org = c.org /\ d.user = c.user /\ d.becomes = c.becomes
        /\ c.op = "account" => d.user = c.user /\ d.what = c.what /\ d.opens = c.opens
        /\ c.op \in {"move", "file", "create"} => d.repo = c.repo /\ d.to = c.to
        /\ c.op \in {"accept", "decide"} => d.id = c.id
        /\ c.op = "dissolve" => d.org = c.org
        /\ c.op = "delete" => d.repo = c.repo
    BY <2>1, <2>2, AdvancesSame
  <2>4. /\ c.op = "member" => MemberGuard(s)'
        /\ c.op = "account" => AccountGuard(s)'
        /\ c.op = "move" => MoveGuard(s)'
        /\ c.op = "file" => FileGuard(s)'
        /\ c.op = "accept" => AcceptGuard(s)'
        /\ c.op = "decide" => DecideGuard(s)'
        /\ c.op = "dissolve" => DissolveGuard(s)'
        /\ c.op = "create" => CreateGuard(s)'
        /\ c.op = "delete" => DeleteGuard(s)'
    BY <2>1, <2>2, <2>3, MemberAdvances, AccountAdvances, MoveAdvances, FileAdvances, AcceptAdvances,
       DecideAdvances, DissolveAdvances, CreateAdvances, DeleteAdvances DEF Guarded
  <2>5. /\ c.op # "member" => MemberGuard(s)'
        /\ c.op # "account" => AccountGuard(s)'
        /\ c.op # "move" => MoveGuard(s)'
        /\ c.op # "file" => FileGuard(s)'
        /\ c.op # "accept" => AcceptGuard(s)'
        /\ c.op # "decide" => DecideGuard(s)'
        /\ c.op # "dissolve" => DissolveGuard(s)'
        /\ c.op # "create" => CreateGuard(s)'
        /\ c.op # "delete" => DeleteGuard(s)'
    BY <1>1, <2>1 DEF MemberGuard, AccountGuard, MoveGuard, FileGuard, AcceptGuard, DecideGuard,
       DissolveGuard, CreateGuard, DeleteGuard
  <2>6. QED
    BY <2>4, <2>5 DEF Guarded
<1>2. QED
  BY <1>1
-----------------------------------------------------------------------------
(* Calls that begin, and the sessions' part of the invariant.              *)

\* What a handler hands the store: a request that is there, a repository nobody
\* else is making.
LEMMA FreshCalls ==
    ASSUME RegistryInv, NEW s \in Sessions, Asking(s) \/ Executing(s), ~Statement(s)
    PROVE  /\ call'[s].op \in {"accept", "decide"} =>
                call'[s].id \in DOMAIN request /\ request' = request
           /\ call'[s].op = "create" =>
                /\ call'[s].repo \in Repos /\ place[call'[s].repo] = Unborn /\ place' = place
                /\ \A t \in Sessions : call[t].op = "create" => call[t].repo # call'[s].repo
<1>1. DOMAIN call = Sessions
  BY DEF RegistryInv, RegistryTypeOK
<1>2. CASE Executing(s)
  <2>1. call'[s].op \in {"idle", "made", "delete"}
    <3>1. CASE CreateRepo(s)
      BY <1>1, <3>1 DEF CreateRepo
    <3>2. CASE RollbackCreateRepo(s)
      BY <1>1, <3>2 DEF RollbackCreateRepo
    <3>3. CASE Ends(s)
      BY <1>1, <3>3, IdleFacts DEF Ends
    <3>4. QED
      BY <1>2, <3>1, <3>2, <3>3
         DEF Executing, TurnedDown, RolledBack, SetOrgMember, SetAccount, TransferRepo,
             AcceptRepoTransfer, CreateRepoTransfer, DecideRepoTransfer, DeleteOrg, RepoMade, DropRepo
  <2>2. QED
    BY <2>1
<1>3. CASE Asking(s)
  <2>1. place' = place /\ request' = request
    BY <1>3 DEF Asking, AskMember, AskAccount, AskTransfer, AskDecision, AskDeleteOrg, AskCreateRepo,
       AskDeleteRepo, Asks, repoVars
  <2>2. ASSUME NEW c, Asks(s, c) PROVE call'[s] = c
    BY <1>1, <2>2 DEF Asks
  <2>3. ASSUME NEW by \in Users, NEW i \in DOMAIN request,
               NEW status \in {"accepted", "rejected", "cancelled"}, AskDecision(s, by, i, status)
        PROVE  call'[s].op \in {"accept", "decide"} /\ call'[s].id = i
    <3>1. CASE status = "accepted"
      BY <1>1, <2>3, <3>1 DEF AskDecision, Asks
    <3>2. CASE status # "accepted"
      BY <1>1, <2>3, <3>2 DEF AskDecision, Asks
    <3>3. QED
      BY <3>1, <3>2
  <2>4. ASSUME NEW r \in Repos, NEW to \in Places, AskCreateRepo(s, r, to)
        PROVE  /\ call'[s].op = "create" /\ call'[s].repo = r /\ place[r] = Unborn
               /\ \A t \in Sessions : call[t].op = "create" => call[t].repo # r
    BY <1>1, <2>4 DEF AskCreateRepo, Asks
  <2>5. ASSUME NEW by \in Users, NEW r \in Repos, NEW to \in Places, AskTransfer(s, by, r, to)
        PROVE  call'[s].op \in {"move", "file"}
    <3>1. CASE MayWrite(by, to[1])
      BY <1>1, <2>5, <3>1 DEF AskTransfer, Asks
    <3>2. CASE ~MayWrite(by, to[1])
      BY <1>1, <2>5, <3>2 DEF AskTransfer, Asks
    <3>3. QED
      BY <3>1, <3>2
  <2>6. ASSUME \/ \E o \in Orgs, u \in Users, to \in Roles : AskMember(s, o, u, to)
               \/ \E u \in Users, what \in Gates \cup {"is_admin"}, opens \in BOOLEAN :
                        AskAccount(s, u, what, opens)
               \/ \E o \in Orgs : AskDeleteOrg(s, o)
               \/ \E r \in Repos : AskDeleteRepo(s, r)
        PROVE  call'[s].op \in {"member", "account", "dissolve", "delete"}
    <3>1. \A o, u, to : AskMember(s, o, u, to) => call'[s].op = "member"
      BY <1>1 DEF AskMember, Asks
    <3>2. \A u, what, opens : AskAccount(s, u, what, opens) => call'[s].op = "account"
      BY <1>1 DEF AskAccount, Asks
    <3>3. \A o : AskDeleteOrg(s, o) => call'[s].op = "dissolve"
      BY <1>1 DEF AskDeleteOrg, Asks
    <3>4. \A r : AskDeleteRepo(s, r) => call'[s].op = "delete"
      BY <1>1 DEF AskDeleteRepo, Asks
    <3>5. QED
      BY <2>6, <3>1, <3>2, <3>3, <3>4
  <2>7. QED
    BY <1>3, <2>1, <2>3, <2>4, <2>5, <2>6 DEF Asking
<1>4. QED
  BY <1>2, <1>3

\* A call that ends or begins has nothing to rely on yet.
LEMMA FreshGuards ==
    ASSUME RegistryInv, NEW s \in Sessions, Asking(s) \/ Executing(s), ~Statement(s), Released(s)
    PROVE  Guarded(s)'
<1>1. ASSUME NEW d, d = call'[s] PROVE Guarded(s)'
  <2>1. d.op = "idle" \/ d.step = 0
    BY <1>1 DEF Released
  <2>2. /\ d.op \in {"accept", "decide"} => d.id \in DOMAIN request /\ request' = request
        /\ d.op = "create" => d.repo \in Repos /\ place[d.repo] = Unborn /\ place' = place
    BY <1>1, FreshCalls
  <2>3. MemberGuard(s)' /\ AccountGuard(s)' /\ MoveGuard(s)' /\ FileGuard(s)'
    BY <1>1, <2>1 DEF MemberGuard, AccountGuard, MoveGuard, FileGuard
  <2>4. AcceptGuard(s)' /\ DecideGuard(s)'
    BY <1>1, <2>1, <2>2 DEF AcceptGuard, DecideGuard
  <2>5. DissolveGuard(s)' /\ CreateGuard(s)' /\ DeleteGuard(s)'
    BY <1>1, <2>1, <2>2 DEF DissolveGuard, CreateGuard, DeleteGuard
  <2>6. QED
    BY <2>3, <2>4, <2>5 DEF Guarded
<1>2. QED
  BY <1>1

\* A step that changes nothing leaves what session t relies on.
LEMMA StutterKeeps ==
    ASSUME RegistryInv, UNCHANGED registryVars, NEW t \in Sessions
    PROVE  Kept(t)
<1>1. request \in Seq(Requests)
  BY DEF RegistryInv, RegistryTypeOK
<1>2. UNCHANGED <<org, role, siteAdmin, shut, place, archived, request>>
  BY DEF registryVars
<1>3. KeepsRepos(t) /\ KeepsBirth(t) /\ KeepsPlaces(t) /\ KeepsLive(t)
  BY <1>2 DEF KeepsRepos, KeepsBirth, KeepsPlaces, KeepsLive, Taken
<1>4. KeepsOrg(t) /\ KeepsAdmins(t) /\ KeepsAccounts(t)
  BY <1>2 DEF KeepsOrg, KeepsAdmins, KeepsAccounts, Exists
<1>5. KeepsRequests(t)
  BY <1>1, <1>2 DEF KeepsRequests, SameRequest
<1>6. QED
  BY <1>3, <1>4, <1>5 DEF Kept

\* Every step leaves every transaction what it relies on.
LEMMA GuardedStep ==
    ASSUME RegistryInv, [RegistryNext]_registryVars, NEW t \in Sessions
    PROVE  Guarded(t)'
<1>1. RegistryTypeOK /\ HoldsNothing
  BY DEF RegistryInv
<1>2. CASE UNCHANGED registryVars
  <2>1. Rests(t)
    BY <1>2 DEF registryVars, Rests
  <2>2. QED
    BY <1>2, <2>1, StutterKeeps, GuardedKept
<1>3. ASSUME NEW s \in Sessions, Asking(s) \/ Executing(s) PROVE Guarded(t)'
  <2>1. OthersRest(s)
    BY <1>1, <1>3, StatementFacts, OtherStepsRelease DEF Released
  <2>2. CASE t # s
    <3>1. Rests(t) /\ Kept(t)
      BY <1>3, <2>1, <2>2, SessionKeeps DEF OthersRest, Rests
    <3>2. QED
      BY <3>1, GuardedKept
  <2>3. CASE t = s /\ Statement(s)
    BY <2>3, StatementGuards
  <2>4. CASE t = s /\ ~Statement(s)
    BY <1>1, <1>3, <2>4, OtherStepsRelease, FreshGuards
  <2>5. QED
    BY <2>2, <2>3, <2>4
<1>4. CASE RegistryNext /\ ~\E s \in Sessions : Asking(s) \/ Executing(s)
  <2>1. Rests(t)
    BY <1>4, OutsideRests DEF Rests
  <2>2. QED
    BY <1>4, <2>1, OutsideKeeps, GuardedKept
<1>5. QED
  BY <1>2, <1>3, <1>4

\* Every step keeps a repository made by one request.
LEMMA CreatesApartStep ==
    ASSUME RegistryInv, [RegistryNext]_registryVars
    PROVE  CreatesApart'
<1>1. RegistryTypeOK /\ HoldsNothing /\ CreatesApart
  BY DEF RegistryInv
<1>2. CASE call' = call
  BY <1>1, <1>2 DEF CreatesApart
<1>3. ASSUME NEW s \in Sessions, Statement(s) PROVE CreatesApart'
  <2>1. OthersRest(s) /\ call'[s].op = call[s].op
    BY <1>1, <1>3, StatementFacts
  <2>2. call[s].op = "create" => call'[s].repo = call[s].repo
    <3>1. ASSUME NEW c, c = call[s], NEW d, d = call'[s], c.op = "create" PROVE d.repo = c.repo
      <4>1. Advances(s, c, d) /\ call'[s] = [call[s] EXCEPT !.step = call[s].step + 1]
        BY <1>1, <1>3, <3>1, StatementAdvances, StatementFacts
      <4>2. QED
        BY <3>1, <4>1, AdvancesSame
    <3>2. QED
      BY <3>1
  <2>3. QED
    BY <1>1, <2>1, <2>2 DEF CreatesApart, OthersRest
<1>4. ASSUME NEW s \in Sessions, Asking(s) \/ Executing(s), ~Statement(s) PROVE CreatesApart'
  <2>1. OthersRest(s)
    BY <1>1, <1>4, OtherStepsRelease DEF Released
  <2>2. call'[s].op = "create" =>
            \A t \in Sessions : call[t].op = "create" => call[t].repo # call'[s].repo
    BY <1>4, FreshCalls
  <2>3. QED
    BY <1>1, <2>1, <2>2 DEF CreatesApart, OthersRest
<1>5. QED
  BY <1>1, <1>2, <1>3, <1>4, SessionsStep
-----------------------------------------------------------------------------
(* Type correctness.                                                       *)

\* The types of the tables but the requests.
TablesOK ==
    /\ org \in [Orgs -> {"unborn", "live", "deleted"}]
    /\ role \in [Orgs -> [Users -> Roles]]
    /\ siteAdmin \subseteq Users /\ shut \in [Users -> SUBSET Gates]
    /\ place \in [Repos -> Places \cup {Unborn, Gone}]
    /\ archived \subseteq Repos
    /\ redirect \in [Places -> SUBSET Repos]

\* A move keeps the tables of names typed.
LEMMA RelocatedTypes ==
    ASSUME RegistryTypeOK, NEW r \in Repos, NEW to \in Places, Exists(r), Relocated(r, to)
    PROVE  /\ place' \in [Repos -> Places \cup {Unborn, Gone}]
           /\ archived' \subseteq Repos
           /\ redirect' \in [Places -> SUBSET Repos]
BY DEF RegistryTypeOK, Relocated, Exists

\* What a session writes into the tables is of their types.
LEMMA TablesTyped ==
    ASSUME RegistryInv, NEW s \in Sessions, Asking(s) \/ Executing(s)
    PROVE  TablesOK'
<1>1. RegistryTypeOK
  BY DEF RegistryInv
<1>2. TablesOK
  BY <1>1 DEF RegistryTypeOK, TablesOK
<1>3. CASE SetOrgMember(s)
  <2>1. call[s].org \in Orgs /\ call[s].user \in Users /\ call[s].becomes \in Roles
    BY <1>3, SetOrgMemberRelies
  <2>2. role' = [role EXCEPT ![call[s].org][call[s].user] = call[s].becomes]
    BY <1>3 DEF SetOrgMember
  <2>3. role' \in [Orgs -> [Users -> Roles]]
    BY <1>2, <2>1, <2>2 DEF TablesOK
  <2>4. QED
    BY <1>2, <1>3, <2>3 DEF TablesOK, SetOrgMember, accountVars, repoVars
<1>4. CASE SetAccount(s)
  <2>1. call[s].user \in Users /\ call[s].what \in Gates \cup {"is_admin"}
    BY <1>4, SetAccountRelies
  <2>2. siteAdmin' \subseteq Users
    BY <1>2, <1>4, <2>1 DEF TablesOK, SetAccount
  <2>3. shut' \in [Users -> SUBSET Gates]
    <3>1. CASE call[s].what = "is_admin"
      BY <1>2, <1>4, <3>1 DEF TablesOK, SetAccount
    <3>2. CASE call[s].what # "is_admin"
      <4> DEFINE u == call[s].user  g == call[s].what
      <4>1. g \in Gates /\ shut[u] \subseteq Gates
        BY <1>2, <2>1, <3>2 DEF TablesOK
      <4>2. shut' = [shut EXCEPT ![u] = IF call[s].opens THEN shut[u] \ {g} ELSE shut[u] \cup {g}]
        BY <1>4, <3>2 DEF SetAccount
      <4>3. (IF call[s].opens THEN shut[u] \ {g} ELSE shut[u] \cup {g}) \in SUBSET Gates
        BY <4>1
      <4>4. QED
        BY <1>2, <4>2, <4>3 DEF TablesOK
    <3>3. QED
      BY <3>1, <3>2
  <2>4. QED
    BY <1>2, <1>4, <2>2, <2>3 DEF TablesOK, SetAccount, orgVars, repoVars
<1>5. CASE TransferRepo(s)
  <2>1. call[s].repo \in Repos /\ call[s].to \in Places /\ Exists(call[s].repo)
    BY <1>5, TransferRepoRelies DEF HoldsRepo
  <2>2. QED
    BY <1>1, <1>2, <1>5, <2>1, RelocatedTypes DEF TablesOK, TransferRepo, accountVars, orgVars
<1>6. CASE AcceptRepoTransfer(s)
  <2> DEFINE q == request[call[s].id]
  <2>1. q \in Requests /\ HoldsRepo(s, q.repo)
    BY <1>6, AcceptRelies
  <2>2. q.repo \in Repos /\ q.to \in Places /\ Exists(q.repo)
    BY <2>1 DEF Requests, HoldsRepo
  <2>3. Relocated(q.repo, q.to)
    BY <1>6 DEF AcceptRepoTransfer
  <2>4. QED
    BY <1>1, <1>2, <1>6, <2>2, <2>3, RelocatedTypes
       DEF TablesOK, AcceptRepoTransfer, accountVars, orgVars
<1>7. CASE CreateRepoTransfer(s) \/ DecideRepoTransfer(s) \/ TurnedDown(s) \/ ~Writes(s)
  <2>1. UNCHANGED <<org, role, siteAdmin, shut, place, archived, redirect>>
    BY <1>7, OthersReadOnly
       DEF CreateRepoTransfer, DecideRepoTransfer, TurnedDown, accountVars, orgVars, repoVars
  <2>2. QED
    BY <1>2, <2>1 DEF TablesOK
<1>8. CASE DeleteOrg(s)
  <2>1. call[s].org \in Orgs
    BY <1>8, DeleteOrgRelies
  <2>2. org' \in [Orgs -> {"unborn", "live", "deleted"}]
    BY <1>2, <1>8, <2>1 DEF TablesOK, DeleteOrg
  <2>3. role' \in [Orgs -> [Users -> Roles]]
    BY <1>2, <1>8, <2>1 DEF TablesOK, DeleteOrg, Roles
  <2>4. redirect' \in [Places -> SUBSET Repos]
    BY <1>2, <1>8, <2>1 DEF TablesOK, DeleteOrg
  <2>5. QED
    BY <1>2, <1>8, <2>2, <2>3, <2>4 DEF TablesOK, DeleteOrg, accountVars
<1>9. CASE CreateRepo(s)
  <2>1. call[s].repo \in Repos /\ call[s].to \in Places
    BY <1>9, CreateRepoRelies
  <2>2. QED
    BY <1>2, <1>9, <2>1 DEF TablesOK, CreateRepo, accountVars, orgVars
<1>10. CASE DropRepo(s)
  <2>1. call[s].repo \in Repos
    BY <1>10, DropRepoRelies
  <2>2. place' \in [Repos -> Places \cup {Unborn, Gone}] /\ archived' \subseteq Repos
    BY <1>2, <1>10, <2>1 DEF TablesOK, DropRepo
  <2>3. redirect' \in [Places -> SUBSET Repos]
    BY <1>2, <1>10, <2>1 DEF TablesOK, DropRepo
  <2>4. QED
    BY <1>2, <1>10, <2>2, <2>3 DEF TablesOK, DropRepo, accountVars, orgVars
<1>11. QED
  BY <1>3, <1>4, <1>5, <1>6, <1>7, <1>8, <1>9, <1>10 DEF Writes

\* So is what a step writes that is no session's.
LEMMA OutsideTyped ==
    ASSUME RegistryInv, RegistryNext, ~\E s \in Sessions : Asking(s) \/ Executing(s)
    PROVE  TablesOK' /\ request' \in Seq(Requests) /\ asked' \in 0..MaxCalls
<1>1. TablesOK /\ request \in Seq(Requests) /\ asked \in 0..MaxCalls /\ MaxCalls \in Nat
  BY RegistryAssumption DEF RegistryInv, RegistryTypeOK, TablesOK
<1>2. AtOnce => asked' \in 0..MaxCalls /\ request' = request
  BY <1>1 DEF AtOnce
<1>3. ASSUME NEW o \in Orgs, NEW u \in Users, CreateOrg(o, u) PROVE TablesOK' /\ AtOnce
  BY <1>1, <1>3 DEF TablesOK, CreateOrg, AtOnce, accountVars, repoVars, Roles
<1>4. ASSUME NEW o \in Orgs, NEW u \in Users, NEW to \in {"write", "admin"}, AddOrgMember(o, u, to)
      PROVE  TablesOK' /\ AtOnce
  BY <1>1, <1>4 DEF TablesOK, AddOrgMember, AtOnce, accountVars, repoVars, Roles
<1>5. ASSUME NEW r \in Repos, SetRepoArchived(r) PROVE TablesOK' /\ AtOnce
  BY <1>1, <1>5 DEF TablesOK, SetRepoArchived, AtOnce, accountVars, orgVars
<1>6. ASSUME NEW i \in DOMAIN request, RequestLapses(i)
      PROVE  TablesOK' /\ request' \in Seq(Requests) /\ asked' = asked
  <2>1. UNCHANGED <<org, role, siteAdmin, shut, place, archived, redirect>>
    BY <1>6 DEF RequestLapses, accountVars, orgVars, repoVars
  <2>2. request[i] \in Requests
    BY <1>1
  <2>3. [request[i] EXCEPT !.lapsed = TRUE] \in Requests
    BY <2>2 DEF Requests
  <2>4. request' = [request EXCEPT ![i] = [request[i] EXCEPT !.lapsed = TRUE]]
    BY <1>6 DEF RequestLapses
  <2>5. request' \in Seq(Requests)
    BY <1>1, <2>3, <2>4
  <2>6. QED
    BY <1>1, <1>6, <2>1, <2>5 DEF TablesOK, RequestLapses
<1>7. QED
  BY <1>1, <1>2, <1>3, <1>4, <1>5, <1>6 DEF RegistryNext

\* Requests that reach the store are counted up to the bound.
LEMMA AskedBounded ==
    ASSUME RegistryTypeOK, NEW s \in Sessions, Asking(s) \/ Executing(s)
    PROVE  asked' \in 0..MaxCalls
<1>1. asked \in 0..MaxCalls /\ MaxCalls \in Nat
  BY RegistryAssumption DEF RegistryTypeOK
<1>2. CASE Asking(s)
  <2>1. asked' = asked + 1 /\ asked < MaxCalls
    BY <1>2 DEF Asking, AskMember, AskAccount, AskTransfer, AskDecision, AskDeleteOrg, AskCreateRepo,
       AskDeleteRepo, Asks
  <2>2. QED
    BY <1>1, <2>1
<1>3. CASE Executing(s)
  BY <1>1, <1>3 DEF Executing, Statement, TurnedDown, RolledBack, SetOrgMember, SetAccount,
     TransferRepo, AcceptRepoTransfer, CreateRepoTransfer, DecideRepoTransfer, DeleteOrg, CreateRepo,
     RepoMade, RollbackCreateRepo, DropRepo, CommitsAs
<1>4. QED
  BY <1>2, <1>3

\* Every step is type-correct.
LEMMA TypeStep ==
    ASSUME RegistryInv, [RegistryNext]_registryVars
    PROVE  RegistryTypeOK'
<1>1. RegistryTypeOK /\ HoldsNothing
  BY DEF RegistryInv
<1>2. CASE UNCHANGED registryVars
  BY <1>1, <1>2 DEF RegistryTypeOK, registryVars
<1>3. ASSUME NEW s \in Sessions, Asking(s) \/ Executing(s) PROVE RegistryTypeOK'
  <2>1. TablesOK' /\ request' \in Seq(Requests) /\ asked' \in 0..MaxCalls
    BY <1>1, <1>3, TablesTyped, RequestsWritten, AskedBounded DEF RequestStep
  <2>2. DOMAIN rowLock' = Sessions
    BY <1>1, <1>3, OtherStepsRelease, StatementFacts DEF Released
  <2>3. call' \in [Sessions -> Calls]
    <3>1. call' = [call EXCEPT ![s] = call'[s]] /\ call'[s] \in Calls
      <4>1. CASE Statement(s)
        BY <1>1, <4>1, StatementFacts DEF Statement, RegistryTypeOK
      <4>2. CASE ~Statement(s)
        BY <1>1, <1>3, <4>2, OtherStepsRelease DEF Released
      <4>3. QED
        BY <4>1, <4>2
    <3>2. QED
      BY <1>1, <3>1 DEF RegistryTypeOK
  <2>4. QED
    BY <2>1, <2>2, <2>3 DEF RegistryTypeOK, TablesOK
<1>4. CASE RegistryNext /\ ~\E s \in Sessions : Asking(s) \/ Executing(s)
  <2>1. TablesOK' /\ request' \in Seq(Requests) /\ asked' \in 0..MaxCalls
    BY <1>4, OutsideTyped
  <2>2. call' = call /\ rowLock' = rowLock
    BY <1>4, OutsideRests
  <2>3. QED
    BY <1>1, <2>1, <2>2 DEF RegistryTypeOK, TablesOK
<1>5. QED
  BY <1>2, <1>3, <1>4
-----------------------------------------------------------------------------
(* Somebody administers every organisation, and the instance.              *)

\* Without one of its members a set of more than one has another.
LEMMA MoreThanOne ==
    ASSUME NEW S, IsFiniteSet(S), Cardinality(S) > 1, NEW x
    PROVE  S \ {x} # {}
<1>1. Cardinality(S) \in Nat
  BY FS_CardinalityType
<1>2. CASE x \in S
  <2>1. Cardinality(S \ {x}) = Cardinality(S) - 1 /\ IsFiniteSet(S \ {x})
    BY <1>2, FS_RemoveElement
  <2>2. Cardinality(S \ {x}) # 0
    BY <1>1, <2>1
  <2>3. QED
    BY <2>1, <2>2, FS_EmptySet
<1>3. CASE x \notin S
  <2>1. S # {}
    BY <1>1, FS_EmptySet
  <2>2. QED
    BY <1>3, <2>1
<1>4. QED
  BY <1>2, <1>3

\* The administrators are users, of whom there are finitely many.
LEMMA AdminsFinite ==
    ASSUME RegistryTypeOK
    PROVE  IsFiniteSet(UsableAdmins) /\ \A o : IsFiniteSet(OrgAdmins(o))
<1>1. UsableAdmins \in SUBSET Users /\ \A o : OrgAdmins(o) \in SUBSET Users
  BY DEF RegistryTypeOK, UsableAdmins, OrgAdmins
<1>2. QED
  BY <1>1, FS_Subset, RegistryAssumption

\* The organisations' part of AdminsRemain.
OrgsAdministered == \A o \in Orgs : org[o] = "live" => OrgAdmins(o) # {}

\* guardLastOrgAdmin, under FOR UPDATE of the organisation's row.
LEMMA MembersLeaveAnAdmin ==
    ASSUME RegistryInv, NEW s \in Sessions, SetOrgMember(s)
    PROVE  OrgsAdministered'
<1> DEFINE c == call[s]
<1>1. /\ c.org \in Orgs /\ c.user \in Users /\ c.becomes \in Roles
      /\ KeepsOrgAdmin(c)
  BY SetOrgMemberRelies
<1>2. RegistryTypeOK /\ OrgsAdministered /\ role \in [Orgs -> [Users -> Roles]]
  BY DEF RegistryInv, AdminsRemain, OrgsAdministered, RegistryTypeOK
<1>3. org' = org /\ role' = [role EXCEPT ![c.org][c.user] = c.becomes]
  BY DEF SetOrgMember
<1> HIDE DEF c
<1>4. /\ \A o \in Orgs : o # c.org => role'[o] = role[o]
      /\ \A u \in Users : u # c.user => role'[c.org][u] = role[c.org][u]
      /\ role'[c.org][c.user] = c.becomes
  BY <1>1, <1>2, <1>3
<1>5. ASSUME NEW o \in Orgs, org[o] = "live" PROVE \E u \in Users : role'[o][u] = "admin"
  <2>1. PICK a \in Users : role[o][a] = "admin"
    BY <1>2, <1>5 DEF OrgsAdministered, OrgAdmins
  <2>2. CASE o # c.org \/ a # c.user \/ c.becomes = "admin"
    <3>1. role'[o][a] = "admin"
      BY <1>4, <2>1, <2>2
    <3>2. QED
      BY <3>1
  <2>3. CASE o = c.org /\ a = c.user /\ c.becomes # "admin"
    <3>1. Cardinality(OrgAdmins(o)) > 1 /\ IsFiniteSet(OrgAdmins(o))
      BY <1>1, <1>2, <2>1, <2>3, AdminsFinite DEF KeepsOrgAdmin
    <3>2. PICK b \in OrgAdmins(o) : b # a
      BY <3>1, MoreThanOne
    <3>3. QED
      BY <1>4, <2>3, <3>2 DEF OrgAdmins
  <2>4. QED
    BY <2>2, <2>3
<1>6. QED
  BY <1>3, <1>5 DEF OrgsAdministered, OrgAdmins

\* guardLastSiteAdmin, under the advisory lock.
LEMMA AccountsLeaveAnAdmin ==
    ASSUME RegistryInv, NEW s \in Sessions, SetAccount(s)
    PROVE  (UsableAdmins # {})'
<1> DEFINE c == call[s]
<1>1. /\ c.user \in Users /\ c.what \in Gates \cup {"is_admin"} /\ c.opens \in BOOLEAN
      /\ KeepsSiteAdmin(c)
  BY SetAccountRelies
<1>2. /\ RegistryTypeOK /\ UsableAdmins # {}
      /\ siteAdmin \subseteq Users /\ shut \in [Users -> SUBSET Gates]
  BY DEF RegistryInv, AdminsRemain, RegistryTypeOK
<1>3. \A u \in Users : u # c.user => (u \in siteAdmin' <=> u \in siteAdmin) /\ shut'[u] = shut[u]
  BY <1>1, <1>2 DEF SetAccount
<1>4. c.opens => siteAdmin \subseteq siteAdmin' /\ \A u \in Users : shut'[u] \subseteq shut[u]
  BY <1>1, <1>2 DEF SetAccount
<1> HIDE DEF c
<1>5. PICK a \in Users : a \in siteAdmin /\ shut[a] = {}
  BY <1>2 DEF UsableAdmins, Usable
<1>6. CASE a # c.user \/ c.opens
  <2>1. a \in siteAdmin' /\ shut'[a] = {}
    BY <1>3, <1>4, <1>5, <1>6
  <2>2. QED
    BY <2>1 DEF UsableAdmins, Usable
<1>7. CASE a = c.user /\ ~c.opens
  <2>1. Cardinality(UsableAdmins) > 1 /\ IsFiniteSet(UsableAdmins)
    BY <1>1, <1>2, <1>5, <1>7, AdminsFinite DEF KeepsSiteAdmin
  <2>2. PICK b \in UsableAdmins : b # a
    BY <2>1, MoreThanOne
  <2>3. b \in Users /\ b \in siteAdmin' /\ shut'[b] = {}
    BY <1>2, <1>3, <1>7, <2>2 DEF UsableAdmins, Usable
  <2>4. QED
    BY <2>3 DEF UsableAdmins, Usable
<1>8. QED
  BY <1>6, <1>7

\* Every step leaves every organisation and the instance an administrator.
LEMMA AdminsStep ==
    ASSUME RegistryInv, [RegistryNext]_registryVars
    PROVE  AdminsRemain'
<1>1. /\ OrgsAdministered /\ UsableAdmins # {}
      /\ org \in [Orgs -> {"unborn", "live", "deleted"}] /\ role \in [Orgs -> [Users -> Roles]]
  BY DEF RegistryInv, AdminsRemain, OrgsAdministered, RegistryTypeOK
<1>2. ASSUME org' = org, role' = role PROVE OrgsAdministered'
  BY <1>1, <1>2 DEF OrgsAdministered, OrgAdmins
<1>3. ASSUME siteAdmin' = siteAdmin, shut' = shut PROVE (UsableAdmins # {})'
  BY <1>1, <1>3 DEF UsableAdmins, Usable
<1>4. CASE UNCHANGED registryVars
  BY <1>2, <1>3, <1>4 DEF registryVars, OrgsAdministered, AdminsRemain
<1>5. ASSUME NEW s \in Sessions, Asking(s) \/ Executing(s) PROVE AdminsRemain'
  <2>1. CASE SetOrgMember(s)
    <3>1. siteAdmin' = siteAdmin /\ shut' = shut
      BY <2>1 DEF SetOrgMember, accountVars
    <3>2. QED
      BY <1>3, <2>1, <3>1, MembersLeaveAnAdmin DEF OrgsAdministered, AdminsRemain
  <2>2. CASE SetAccount(s)
    <3>1. org' = org /\ role' = role
      BY <2>2 DEF SetAccount, orgVars
    <3>2. QED
      BY <1>2, <2>2, <3>1, AccountsLeaveAnAdmin DEF OrgsAdministered, AdminsRemain
  <2>3. CASE DeleteOrg(s)
    <3>1. /\ siteAdmin' = siteAdmin /\ shut' = shut
          /\ \A o \in Orgs : org'[o] = "live" => org[o] = "live" /\ role'[o] = role[o]
      BY <1>1, <2>3 DEF DeleteOrg, accountVars
    <3>2. OrgsAdministered'
      BY <1>1, <3>1 DEF OrgsAdministered, OrgAdmins
    <3>3. QED
      BY <1>3, <3>1, <3>2 DEF OrgsAdministered, AdminsRemain
  <2>4. CASE ~(SetOrgMember(s) \/ SetAccount(s) \/ DeleteOrg(s))
    <3>1. UNCHANGED <<org, role, siteAdmin, shut>>
      BY <1>5, <2>4, OthersReadOnly
         DEF Writes, TransferRepo, AcceptRepoTransfer, CreateRepoTransfer, DecideRepoTransfer,
             CreateRepo, DropRepo, TurnedDown, accountVars, orgVars
    <3>2. QED
      BY <1>2, <1>3, <3>1 DEF OrgsAdministered, AdminsRemain
  <2>5. QED
    BY <2>1, <2>2, <2>3, <2>4
<1>6. ASSUME NEW o \in Orgs, NEW u \in Users, CreateOrg(o, u) PROVE AdminsRemain'
  <2>1. /\ siteAdmin' = siteAdmin /\ shut' = shut
        /\ role'[o][u] = "admin"
        /\ \A p \in Orgs : p # o => org'[p] = org[p] /\ role'[p] = role[p]
    BY <1>1, <1>6 DEF CreateOrg, AtOnce, accountVars
  <2>2. OrgsAdministered'
    BY <1>1, <2>1 DEF OrgsAdministered, OrgAdmins
  <2>3. QED
    BY <1>3, <2>1, <2>2 DEF OrgsAdministered, AdminsRemain
<1>7. ASSUME NEW o \in Orgs, NEW u \in Users, NEW to \in {"write", "admin"}, AddOrgMember(o, u, to)
      PROVE  AdminsRemain'
  <2>1. /\ siteAdmin' = siteAdmin /\ shut' = shut /\ org' = org
        /\ role[o][u] = "none"
        /\ \A p \in Orgs : p # o => role'[p] = role[p]
        /\ \A v \in Users : v # u => role'[o][v] = role[o][v]
    BY <1>1, <1>7 DEF AddOrgMember, AtOnce, accountVars
  <2>2. \A p \in Orgs, a \in Users : role[p][a] = "admin" => role'[p][a] = "admin"
    BY <2>1
  <2>3. OrgsAdministered'
    BY <1>1, <2>1, <2>2 DEF OrgsAdministered, OrgAdmins
  <2>4. QED
    BY <1>3, <2>1, <2>3 DEF OrgsAdministered, AdminsRemain
<1>8. ASSUME \/ \E r \in Repos : SetRepoArchived(r)
             \/ \E i \in DOMAIN request : RequestLapses(i)
      PROVE  AdminsRemain'
  <2>1. UNCHANGED <<org, role, siteAdmin, shut>>
    BY <1>8 DEF SetRepoArchived, RequestLapses, AtOnce, accountVars, orgVars
  <2>2. QED
    BY <1>2, <1>3, <2>1 DEF OrgsAdministered, AdminsRemain
<1>9. QED
  BY <1>4, <1>5, <1>6, <1>7, <1>8 DEF RegistryNext
-----------------------------------------------------------------------------
(* Names lead where they should.                                           *)

\* RedirectsLead, in a form that counts no set.
RedirectsRight ==
    \A p \in Places : redirect[p] # {} =>
        /\ LiveNamespace(p[1]) /\ ~Taken(p)
        /\ \E r \in Repos : redirect[p] = {r} /\ Exists(r)

\* The two forms say the same.
LEMMA RedirectsCounted ==
    ASSUME RegistryTypeOK
    PROVE  RedirectsRight <=> RedirectsLead /\ RedirectsSingle
<1>1. \A r : Cardinality({r}) = 1
  BY FS_Singleton
<1>2. \A p \in Places : redirect[p] \subseteq Repos
  BY DEF RegistryTypeOK
<1>3. RedirectsRight => RedirectsLead /\ RedirectsSingle
  BY <1>1 DEF RedirectsRight, RedirectsLead, RedirectsSingle
<1>4. RedirectsLead /\ RedirectsSingle => RedirectsRight
  BY <1>2 DEF RedirectsRight, RedirectsLead, RedirectsSingle
<1>5. QED
  BY <1>3, <1>4

\* A repository that goes to a free place stands apart from the others there.
LEMMA MoveApart ==
    ASSUME RegistryTypeOK, PlacesApart, NEW r \in Repos, NEW to \in Places,
           ~Taken(to), LiveNamespace(to[1]), org' = org, place' = [place EXCEPT ![r] = to]
    PROVE  PlacesApart'
<1>1. place'[r] = to /\ \A x \in Repos : x # r => place'[x] = place[x]
  BY DEF RegistryTypeOK
<1>2. \A n : LiveNamespace(n)' <=> LiveNamespace(n)
  BY DEF LiveNamespace
<1>3. ASSUME NEW x \in Repos, place'[x] \in Places
      PROVE  LiveNamespace(place'[x][1]) /\ \A y \in Repos \ {x} : place'[y] # place'[x]
  <2>1. CASE x = r
    BY <1>1, <2>1 DEF Taken
  <2>2. CASE x # r
    BY <1>1, <1>3, <2>2 DEF Taken, PlacesApart, Exists
  <2>3. QED
    BY <2>1, <2>2
<1>4. QED
  BY <1>2, <1>3 DEF PlacesApart, Exists, LiveNamespace

\* A move leads the old name to the new one.
LEMMA RelocatedLeads ==
    ASSUME RegistryTypeOK, PlacesApart, RedirectsRight, NEW r \in Repos, NEW to \in Places,
           Exists(r), place[r] # to, ~Taken(to), LiveNamespace(to[1]), org' = org, Relocated(r, to)
    PROVE  PlacesApart' /\ RedirectsRight'
<1>1. PlacesApart'
  BY MoveApart DEF Relocated
<1>2. /\ place[r] \in Places
      /\ place'[r] = to /\ \A x \in Repos : x # r => place'[x] = place[x]
      /\ redirect'[to] = {} /\ redirect'[place[r]] = {r}
      /\ \A p \in Places : p # to /\ p # place[r] => redirect'[p] = redirect[p]
  BY DEF RegistryTypeOK, Relocated, Exists
<1>3. ASSUME NEW p \in Places, redirect'[p] # {}
      PROVE  /\ LiveNamespace(p[1]) /\ \A x \in Repos : place'[x] # p
             /\ \E x \in Repos : redirect'[p] = {x} /\ place'[x] \in Places
  <2>1. p # to
    BY <1>2, <1>3
  <2>2. CASE p = place[r]
    <3>1. LiveNamespace(p[1]) /\ \A x \in Repos \ {r} : place[x] # p
      BY <2>2 DEF PlacesApart
    <3>2. QED
      BY <1>2, <2>1, <2>2, <3>1
  <2>3. CASE p # place[r]
    BY <1>2, <1>3, <2>1, <2>3 DEF RedirectsRight, Taken, Exists
  <2>4. QED
    BY <2>2, <2>3
<1>4. RedirectsRight'
  BY <1>3 DEF RedirectsRight, LiveNamespace, Taken, Exists
<1>5. QED
  BY <1>1, <1>4

\* Pending requests keep standing where neither they nor their repositories move.
LEMMA RequestsStandKept ==
    ASSUME RequestsStand, DOMAIN request' = DOMAIN request,
           \A i \in DOMAIN request :
              /\ SameRequest(i)
              /\ request'[i].status = "pending" =>
                    /\ request[i].status = "pending"
                    /\ place'[request[i].repo] = place[request[i].repo]
                    /\ \A n \in {request[i].from[1], request[i].to[1]} :
                            LiveNamespace(n) => LiveNamespace(n)'
    PROVE  RequestsStand'
<1>1. ASSUME NEW i \in DOMAIN request, request'[i].status = "pending"
      PROVE  /\ place'[request'[i].repo] = request'[i].from
             /\ \A n \in {request[i].from[1], request[i].to[1]} : LiveNamespace(n)'
             /\ {j \in DOMAIN request' : request'[j].repo = request'[i].repo
                                           /\ request'[j].status = "pending"} = {i}
  <2>1. /\ request[i].status = "pending" /\ SameRequest(i) /\ StillThere(request[i])
        /\ Pending(request[i].repo) = {i}
    BY <1>1 DEF RequestsStand
  <2>2. place'[request'[i].repo] = request'[i].from
    BY <1>1, <2>1 DEF StillThere, SameRequest
  <2>3. \A n \in {request[i].from[1], request[i].to[1]} : LiveNamespace(n)'
    <3>1. \A n \in {request[i].from[1], request[i].to[1]} : LiveNamespace(n)
      BY <2>1 DEF RequestsStand
    <3>2. QED
      BY <1>1, <3>1
  <2>4. \A j \in DOMAIN request :
            request'[j].repo = request'[i].repo /\ request'[j].status = "pending" => j = i
    BY <2>1 DEF SameRequest, Pending
  <2>5. QED
    BY <1>1, <2>2, <2>3, <2>4
<1>2. ASSUME NEW i \in DOMAIN request, request'[i].status = "pending"
      PROVE  \A n \in {request'[i].from[1], request'[i].to[1]} : LiveNamespace(n)'
  BY <1>1, <1>2 DEF SameRequest, LiveNamespace
<1>3. QED
  BY <1>1, <1>2 DEF RequestsStand, StillThere, Pending, LiveNamespace
\* The requests that are not settled keep standing.
LEMMA SettledStands ==
    ASSUME RegistryTypeOK, RequestsStand, NEW S, NEW x \in Statuses \ {"pending"},
           request' = Settled(S, x),
           \A i \in DOMAIN request \ S : request[i].status = "pending" =>
                /\ place'[request[i].repo] = place[request[i].repo]
                /\ \A n \in {request[i].from[1], request[i].to[1]} :
                        LiveNamespace(n) => LiveNamespace(n)'
    PROVE  RequestsStand'
<1>1. request \in Seq(Requests)
  BY DEF RegistryTypeOK
<1>2. /\ DOMAIN request' = DOMAIN request
      /\ \A i \in DOMAIN request :
            /\ SameRequest(i)
            /\ request'[i].status = IF i \in S THEN x ELSE request[i].status
  BY <1>1, SettledFacts DEF SameRequest
<1>3. QED
  BY <1>2, RequestsStandKept

\* A pending request is about a repository that exists.
LEMMA PendingFacts ==
    ASSUME RegistryTypeOK, RequestsStand, NEW i \in DOMAIN request, request[i].status = "pending"
    PROVE  /\ request[i] \in Requests /\ request[i].repo \in Repos /\ Exists(request[i].repo)
           /\ Pending(request[i].repo) = {i} /\ place[request[i].repo] = request[i].from
<1>1. request[i] \in Requests
  BY DEF RegistryTypeOK
<1>2. StillThere(request[i]) /\ Pending(request[i].repo) = {i}
  BY DEF RequestsStand
<1>3. request[i].repo \in Repos /\ request[i].from \in Places
  BY <1>1 DEF Requests
<1>4. QED
  BY <1>1, <1>2, <1>3 DEF StillThere, Exists

\* The namespaces stay while no organisation comes or goes.
LEMMA SameOrgsLive ==
    ASSUME org' = org PROVE \A n : LiveNamespace(n)' <=> LiveNamespace(n)
BY DEF LiveNamespace

\* A repository that moves takes no pending request along.
LEMMA MovedStands ==
    ASSUME RegistryTypeOK, RequestsStand, NEW r \in Repos, NEW p, place' = [place EXCEPT ![r] = p],
           org' = org, NEW S, Pending(r) \subseteq S, NEW x \in Statuses \ {"pending"},
           request' = Settled(S, x)
    PROVE  RequestsStand'
<1>1. \A y \in Repos : y # r => place'[y] = place[y]
  BY DEF RegistryTypeOK
<1>2. ASSUME NEW i \in DOMAIN request \ S, request[i].status = "pending"
      PROVE  place'[request[i].repo] = place[request[i].repo]
  <2>1. request[i].repo # r
    BY <1>2 DEF Pending
  <2>2. QED
    BY <1>1, <1>2, <2>1, PendingFacts
<1>3. QED
  BY <1>2, SameOrgsLive, SettledStands

\* A move at once.
LEMMA TransferNames ==
    ASSUME RegistryInv, NEW s \in Sessions, TransferRepo(s)
    PROVE  PlacesApart' /\ RedirectsRight' /\ RequestsStand'
<1> DEFINE r == call[s].repo  to == call[s].to
<1>1. /\ r \in Repos /\ to \in Places /\ Exists(r) /\ place[r] # to /\ ~Taken(to)
      /\ LiveNamespace(to[1])
  BY TransferRepoRelies DEF HoldsRepo, Free
<1>2. RegistryTypeOK /\ PlacesApart /\ RedirectsRight /\ RequestsStand
  BY RedirectsCounted DEF RegistryInv, NamesLead
<1>3. Relocated(r, to) /\ org' = org /\ request' = Settled(Pending(r), "cancelled")
  BY DEF TransferRepo, orgVars, Cancelled, Settled
<1>4. "cancelled" \in Statuses \ {"pending"}
  BY DEF Statuses
<1>5. RequestsStand'
  BY <1>1, <1>2, <1>3, <1>4, MovedStands DEF Relocated
<1>6. QED
  BY <1>1, <1>2, <1>3, <1>5, RelocatedLeads

\* An accepted request is the only one of its repository, so it alone is settled.
LEMMA AcceptSettles ==
    ASSUME RegistryInv, NEW s \in Sessions, AcceptRepoTransfer(s)
    PROVE  request' = Settled({call[s].id}, "accepted")
<1> DEFINE i == call[s].id
<1>1. i \in DOMAIN request /\ Pending(request[i].repo) = {i}
  BY AcceptRelies
<1>2. request \in Seq(Requests)
  BY DEF RegistryInv, RegistryTypeOK
<1>3. Cancelled(request[i].repo, {i}) = request
  BY <1>1, <1>2 DEF Cancelled
<1>4. request' = [request EXCEPT ![i].status = "accepted"]
  BY <1>3 DEF AcceptRepoTransfer
<1>5. "accepted" \in Statuses
  BY DEF Statuses
<1>6. QED
  BY <1>1, <1>2, <1>4, <1>5, OneSettled

\* A move by request.
LEMMA AcceptNames ==
    ASSUME RegistryInv, NEW s \in Sessions, AcceptRepoTransfer(s)
    PROVE  PlacesApart' /\ RedirectsRight' /\ RequestsStand'
<1> DEFINE i == call[s].id  q == request[i]
<1>1. /\ q \in Requests /\ HoldsRepo(s, q.repo) /\ place[q.repo] # q.to /\ Free(s, q.to)
      /\ Pending(q.repo) = {i}
  BY AcceptRelies
<1>2. /\ q.repo \in Repos /\ q.to \in Places /\ Exists(q.repo) /\ ~Taken(q.to)
      /\ LiveNamespace(q.to[1])
  BY <1>1 DEF Requests, HoldsRepo, Free
<1>3. RegistryTypeOK /\ PlacesApart /\ RedirectsRight /\ RequestsStand
  BY RedirectsCounted DEF RegistryInv, NamesLead
<1>4. Relocated(q.repo, q.to) /\ org' = org /\ request' = Settled({i}, "accepted")
  BY AcceptSettles DEF AcceptRepoTransfer, orgVars
<1>5. "accepted" \in Statuses \ {"pending"}
  BY DEF Statuses
<1>6. RequestsStand'
  BY <1>1, <1>2, <1>3, <1>4, <1>5, MovedStands DEF Relocated
<1>7. QED
  BY <1>1, <1>2, <1>3, <1>4, <1>6, RelocatedLeads

\* A deleted repository takes its redirects and requests along.
LEMMA DropNames ==
    ASSUME RegistryInv, NEW s \in Sessions, DropRepo(s)
    PROVE  PlacesApart' /\ RedirectsRight' /\ RequestsStand'
<1> DEFINE r == call[s].repo
<1>1. r \in Repos
  BY DropRepoRelies
<1>2. RegistryTypeOK /\ PlacesApart /\ RedirectsRight /\ RequestsStand
  BY RedirectsCounted DEF RegistryInv, NamesLead
<1>3. /\ org' = org /\ place' = [place EXCEPT ![r] = Gone]
      /\ redirect' = [p \in Places |-> redirect[p] \ {r}]
      /\ request' = Settled(RequestsOf(r), "gone")
  BY DEF DropRepo, orgVars, Without, Settled, RequestsOf
<1>4. Pending(r) \subseteq RequestsOf(r) /\ "gone" \in Statuses \ {"pending"}
  BY DEF Pending, RequestsOf, Statuses
<1>5. RequestsStand'
  BY <1>1, <1>2, <1>3, <1>4, MovedStands
<1>6. place'[r] = Gone /\ \A x \in Repos : x # r => place'[x] = place[x]
  BY <1>1, <1>2, <1>3 DEF RegistryTypeOK
<1>7. ASSUME NEW x \in Repos, place'[x] \in Places
      PROVE  LiveNamespace(place'[x][1]) /\ \A y \in Repos \ {x} : place'[y] # place'[x]
  <2>1. x # r /\ place'[x] = place[x] /\ LiveNamespace(place[x][1])
    BY <1>2, <1>6, <1>7, PlaceFacts DEF PlacesApart, Exists
  <2>2. \A y \in Repos \ {x} : place'[y] # place'[x]
    BY <1>2, <1>6, <1>7, <2>1, PlaceFacts DEF PlacesApart, Exists
  <2>3. QED
    BY <2>1, <2>2
<1>8. PlacesApart'
  BY <1>3, <1>7, SameOrgsLive DEF PlacesApart, Exists, LiveNamespace
<1>9. ASSUME NEW p \in Places, redirect'[p] # {}
      PROVE  /\ LiveNamespace(p[1]) /\ \A x \in Repos : place'[x] # p
             /\ \E x \in Repos : redirect'[p] = {x} /\ place'[x] \in Places
  <2>1. redirect'[p] = redirect[p] \ {r}
    BY <1>3
  <2>2. PICK x \in Repos : redirect[p] = {x} /\ Exists(x) /\ LiveNamespace(p[1]) /\ ~Taken(p)
    BY <1>2, <1>9, <2>1 DEF RedirectsRight
  <2>3. x # r /\ redirect'[p] = {x} /\ place'[x] \in Places
    BY <1>6, <1>9, <2>1, <2>2 DEF Exists
  <2>4. \A y \in Repos : place'[y] # p
    BY <1>6, <2>2, PlaceFacts DEF Taken
  <2>5. QED
    BY <2>2, <2>3, <2>4
<1>10. RedirectsRight'
  BY <1>3, <1>9 DEF RedirectsRight, LiveNamespace, Taken, Exists
<1>11. QED
  BY <1>5, <1>8, <1>10

\* A new repository takes a free name, from which no redirect leads away.
LEMMA CreateNames ==
    ASSUME RegistryInv, NEW s \in Sessions, CreateRepo(s)
    PROVE  PlacesApart' /\ RedirectsRight' /\ RequestsStand'
<1> DEFINE r == call[s].repo  to == call[s].to
<1>1. /\ r \in Repos /\ to \in Places /\ place[r] = Unborn /\ ~Taken(to)
      /\ LiveNamespace(to[1])
  BY CreateRepoRelies DEF Free
<1>2. RegistryTypeOK /\ PlacesApart /\ RedirectsRight /\ RequestsStand
  BY RedirectsCounted DEF RegistryInv, NamesLead
<1>3. /\ org' = org /\ request' = request /\ place' = [place EXCEPT ![r] = to]
      /\ redirect' = [redirect EXCEPT ![to] = {}]
  BY DEF CreateRepo, orgVars
<1>4. PlacesApart'
  BY <1>1, <1>2, <1>3, MoveApart
<1>5. place'[r] = to /\ \A x \in Repos : x # r => place'[x] = place[x]
  BY <1>1, <1>2, <1>3 DEF RegistryTypeOK
<1>6. ~Exists(r)
  BY <1>1, PlaceFacts DEF Exists
<1>7. RequestsStand'
  <2>1. ASSUME NEW i \in DOMAIN request, request'[i].status = "pending"
        PROVE  place'[request[i].repo] = place[request[i].repo]
    BY <1>2, <1>3, <1>5, <1>6, <2>1, PendingFacts
  <2>2. QED
    BY <1>2, <1>3, <2>1, SameOrgsLive, RequestsStandKept DEF SameRequest
<1>8. redirect'[to] = {} /\ \A p \in Places : p # to => redirect'[p] = redirect[p]
  BY <1>1, <1>2, <1>3 DEF RegistryTypeOK
<1>9. ASSUME NEW p \in Places, redirect'[p] # {}
      PROVE  /\ LiveNamespace(p[1]) /\ \A x \in Repos : place'[x] # p
             /\ \E x \in Repos : redirect'[p] = {x} /\ place'[x] \in Places
  <2>1. p # to /\ redirect'[p] = redirect[p]
    BY <1>8, <1>9
  <2>2. PICK x \in Repos : redirect[p] = {x} /\ Exists(x) /\ LiveNamespace(p[1]) /\ ~Taken(p)
    BY <1>2, <1>9, <2>1 DEF RedirectsRight
  <2>3. place'[x] \in Places
    BY <1>1, <1>5, <2>2 DEF Exists
  <2>4. \A y \in Repos : place'[y] # p
    BY <1>5, <2>1, <2>2 DEF Taken
  <2>5. QED
    BY <2>1, <2>2, <2>3, <2>4
<1>10. RedirectsRight'
  BY <1>3, <1>9 DEF RedirectsRight, LiveNamespace, Taken, Exists
<1>11. QED
  BY <1>4, <1>7, <1>10
\* A request that is filed is the repository's only one, from where it lives.
LEMMA FileNames ==
    ASSUME RegistryInv, NEW s \in Sessions, CreateRepoTransfer(s)
    PROVE  RequestsStand'
<1> DEFINE c == call[s]
           f == Settled(Expiring(s), "expired")
           new == [repo |-> c.repo, from |-> place[c.repo], to |-> c.to, by |-> c.by,
                   status |-> "pending", lapsed |-> FALSE]
           n == Len(request) + 1
<1>1. /\ c.repo \in Repos /\ c.to \in Places /\ c.by \in Users /\ Exists(c.repo)
      /\ Pending(c.repo) \subseteq Expiring(s) /\ LiveNamespace(c.to[1])
  BY CreateRepoTransferRelies DEF HoldsRepo
<1>2. RegistryTypeOK /\ PlacesApart /\ RequestsStand /\ request \in Seq(Requests)
  BY DEF RegistryInv, NamesLead, RegistryTypeOK
<1>3. org' = org /\ place' = place /\ request' = Append(f, new)
  BY DEF CreateRepoTransfer, orgVars, repoVars, Settled
<1>4. "expired" \in Statuses
  BY DEF Statuses
<1>5. /\ f \in Seq(Requests) /\ Len(f) = Len(request) /\ DOMAIN f = DOMAIN request
      /\ \A i \in DOMAIN request :
            /\ f[i].status = IF i \in Expiring(s) THEN "expired" ELSE request[i].status
            /\ f[i].repo = request[i].repo /\ f[i].from = request[i].from /\ f[i].to = request[i].to
  BY <1>2, <1>4, SettledFacts
<1>6. /\ new.repo = c.repo /\ new.from = place[c.repo] /\ new.to = c.to /\ new.status = "pending"
  OBVIOUS
<1>7. LiveNamespace(place[c.repo][1])
  BY <1>1, <1>2 DEF PlacesApart
<1> HIDE DEF f, new, c
<1>8. /\ DOMAIN request' = DOMAIN request \cup {n} /\ n \notin DOMAIN request
      /\ \A i \in DOMAIN request : request'[i] = f[i]
      /\ request'[n] = new
  BY <1>2, <1>3, <1>5
<1>9. ASSUME NEW i \in DOMAIN request, request'[i].status = "pending"
      PROVE  /\ request[i].status = "pending" /\ request[i].repo # c.repo
             /\ request'[i].repo = request[i].repo /\ request'[i].from = request[i].from
             /\ request'[i].to = request[i].to
  <2>1. i \notin Expiring(s) /\ request[i].status = "pending"
    BY <1>5, <1>8, <1>9
  <2>2. request[i].repo # c.repo
    BY <1>1, <1>9, <2>1 DEF Pending
  <2>3. QED
    BY <1>5, <1>8, <2>1, <2>2
<1>10. ASSUME NEW i \in DOMAIN request', request'[i].status = "pending"
       PROVE  /\ place[request'[i].repo] = request'[i].from
              /\ LiveNamespace(request'[i].from[1]) /\ LiveNamespace(request'[i].to[1])
              /\ {j \in DOMAIN request' : request'[j].repo = request'[i].repo
                                            /\ request'[j].status = "pending"} = {i}
  <2>1. CASE i = n
    <3>1. \A j \in DOMAIN request' :
              request'[j].repo = c.repo /\ request'[j].status = "pending" => j = n
      BY <1>8, <1>9
    <3>2. QED
      BY <1>1, <1>6, <1>7, <1>8, <1>10, <2>1, <3>1
  <2>2. CASE i \in DOMAIN request
    <3>1. /\ request[i].status = "pending" /\ request[i].repo # c.repo
          /\ request'[i].repo = request[i].repo /\ request'[i].from = request[i].from
          /\ request'[i].to = request[i].to
      BY <1>9, <1>10, <2>2
    <3>2. /\ Pending(request[i].repo) = {i} /\ StillThere(request[i])
          /\ LiveNamespace(request[i].from[1]) /\ LiveNamespace(request[i].to[1])
      BY <1>2, <2>2, <3>1 DEF RequestsStand
    <3>3. \A j \in DOMAIN request' :
              request'[j].repo = request'[i].repo /\ request'[j].status = "pending" => j = i
      BY <1>6, <1>8, <1>9, <3>1, <3>2 DEF Pending
    <3>4. QED
      BY <1>10, <3>1, <3>2, <3>3 DEF StillThere
  <2>3. QED
    BY <1>8, <1>10, <2>1, <2>2
<1>11. QED
  BY <1>3, <1>10 DEF RequestsStand, StillThere, Pending, LiveNamespace

\* An organisation goes with the redirects in it and the requests that touch it.
LEMMA DissolveNames ==
    ASSUME RegistryInv, NEW s \in Sessions, DeleteOrg(s)
    PROVE  PlacesApart' /\ RedirectsRight' /\ RequestsStand'
<1> DEFINE o == call[s].org
           S == {i \in DOMAIN request : o \in {request[i].from[1], request[i].to[1]}}
<1>1. o \in Orgs /\ \A r \in Repos : Exists(r) => place[r][1] # o
  BY DeleteOrgRelies
<1>2. RegistryTypeOK /\ PlacesApart /\ RedirectsRight /\ RequestsStand
  BY RedirectsCounted DEF RegistryInv, NamesLead
<1>3. /\ place' = place /\ org' = [org EXCEPT ![o] = "deleted"]
      /\ redirect' = [p \in Places |-> IF p[1] = o THEN {} ELSE redirect[p]]
      /\ request' = Settled(S, "gone")
  BY DEF DeleteOrg, Without, Settled
<1>4. \A n : n # o /\ LiveNamespace(n) => LiveNamespace(n)'
  BY <1>2, <1>3 DEF LiveNamespace, RegistryTypeOK
<1>5. PlacesApart'
  <2>1. \A r \in Repos : Exists(r) => LiveNamespace(place[r][1])'
    BY <1>1, <1>2, <1>3, <1>4 DEF PlacesApart
  <2>2. QED
    BY <1>2, <1>3, <2>1 DEF PlacesApart, Exists, LiveNamespace
<1>6. RedirectsRight'
  <2>1. \A p \in Places : redirect'[p] # {} => p[1] # o /\ redirect'[p] = redirect[p]
    BY <1>3
  <2>2. ASSUME NEW p \in Places, redirect'[p] # {}
        PROVE  /\ LiveNamespace(p[1])' /\ ~Taken(p)
               /\ \E r \in Repos : redirect'[p] = {r} /\ Exists(r)
    BY <1>2, <1>4, <2>1, <2>2 DEF RedirectsRight
  <2>3. QED
    BY <1>3, <2>2 DEF RedirectsRight, Taken, Exists, LiveNamespace
<1>7. RequestsStand'
  <2>1. "gone" \in Statuses \ {"pending"}
    BY DEF Statuses
  <2>2. ASSUME NEW i \in DOMAIN request \ S
        PROVE  \A n \in {request[i].from[1], request[i].to[1]} : LiveNamespace(n) => LiveNamespace(n)'
    BY <1>4, <2>2
  <2>3. QED
    BY <1>2, <1>3, <2>1, <2>2, SettledStands
<1>8. QED
  BY <1>5, <1>6, <1>7

\* The names stay right while only organisations appear, and requests are settled.
LEMMA QuietNames ==
    ASSUME RegistryInv, place' = place, redirect' = redirect,
           \A n : LiveNamespace(n) => LiveNamespace(n)'
    PROVE  PlacesApart' /\ RedirectsRight'
<1>1. PlacesApart /\ RedirectsRight
  BY RedirectsCounted DEF RegistryInv, NamesLead
<1>2. PlacesApart'
  <2>1. \A r \in Repos : Exists(r) => LiveNamespace(place[r][1])'
    BY <1>1 DEF PlacesApart
  <2>2. QED
    BY <1>1, <2>1 DEF PlacesApart, Exists, LiveNamespace
<1>3. RedirectsRight'
  <2>1. \A p \in Places : redirect[p] # {} => LiveNamespace(p[1])'
    BY <1>1 DEF RedirectsRight
  <2>2. QED
    BY <1>1, <2>1 DEF RedirectsRight, Taken, Exists, LiveNamespace
<1>4. QED
  BY <1>2, <1>3

\* So do the requests.
LEMMA QuietRequests ==
    ASSUME RegistryInv, place' = place, request' = request,
           \A n : LiveNamespace(n) => LiveNamespace(n)'
    PROVE  RequestsStand'
<1>1. RequestsStand
  BY DEF RegistryInv, NamesLead
<1>2. QED
  BY <1>1, RequestsStandKept DEF SameRequest

\* A decision, taken or refused, settles its request.
LEMMA DecisionNames ==
    ASSUME RegistryInv, NEW s \in Sessions, DecideRepoTransfer(s) \/ TurnedDown(s)
    PROVE  RequestsStand'
<1> DEFINE i == call[s].id
<1>1. RegistryTypeOK /\ RequestsStand /\ request \in Seq(Requests)
  BY DEF RegistryInv, NamesLead, RegistryTypeOK
<1>2. place' = place /\ org' = org
  BY DEF DecideRepoTransfer, TurnedDown, orgVars, repoVars
<1>3. \A n : LiveNamespace(n) => LiveNamespace(n)'
  BY <1>2, SameOrgsLive
<1>4. ASSUME NEW x \in Statuses \ {"pending"}, i \in DOMAIN request,
             request' = [request EXCEPT ![i].status = x]
      PROVE  RequestsStand'
  <2>1. request' = Settled({i}, x)
    BY <1>1, <1>4, OneSettled
  <2>2. QED
    BY <1>1, <1>2, <1>3, <2>1, SettledStands
<1>5. CASE DecideRepoTransfer(s)
  <2>1. i \in DOMAIN request /\ call[s].status \in Statuses \ {"pending"}
    BY <1>5, DecideRelies DEF Statuses
  <2>2. QED
    BY <1>4, <1>5, <2>1 DEF DecideRepoTransfer
<1>6. CASE TurnedDown(s) /\ call[s].op \in {"accept", "decide"}
  <2>1. i \in DOMAIN request
    BY <1>6, RefusalAlone
  <2>2. request[i] \in Requests
    BY <1>1, <2>1
  <2>3. ASSUME NEW x, x = StatusAfterRefusal(call[s]) PROVE RequestsStand'
    <3>1. request' = [request EXCEPT ![i].status = x]
      BY <1>6, <2>3 DEF TurnedDown
    <3>2. CASE x = request[i].status
      <4>1. request' = request
        BY <1>1, <2>1, <2>2, <3>1, <3>2 DEF Requests
      <4>2. QED
        BY <1>2, <1>3, <4>1, QuietRequests
    <3>3. CASE x # request[i].status
      <4>1. x \in Statuses \ {"pending"}
        BY <1>6, <2>3, <3>3, RefusalFacts DEF Statuses
      <4>2. QED
        BY <1>4, <2>1, <3>1, <4>1
    <3>4. QED
      BY <3>2, <3>3
  <2>4. QED
    BY <2>3
<1>7. CASE TurnedDown(s) /\ call[s].op \notin {"accept", "decide"}
  BY <1>2, <1>3, <1>7, QuietRequests DEF TurnedDown
<1>8. QED
  BY <1>5, <1>6, <1>7
\* RedirectsCounted, after a step.
LEMMA RedirectsCountedNext ==
    ASSUME RegistryTypeOK', RedirectsRight' PROVE RedirectsLead' /\ RedirectsSingle'
<1>1. \A r : Cardinality({r}) = 1
  BY FS_Singleton
<1>2. QED
  BY <1>1 DEF RedirectsRight, RedirectsLead, RedirectsSingle

\* Time leaves of a request everything but whether it is overdue.
LEMMA LapseFacts ==
    ASSUME RegistryTypeOK, NEW i \in DOMAIN request, RequestLapses(i)
    PROVE  /\ DOMAIN request' = DOMAIN request
           /\ \A j \in DOMAIN request : SameRequest(j) /\ request'[j].status = request[j].status
<1>1. request \in Seq(Requests) /\ request[i] \in Requests
  BY DEF RegistryTypeOK
<1>2. \A q \in Requests :
        /\ [q EXCEPT !.lapsed = TRUE].repo = q.repo /\ [q EXCEPT !.lapsed = TRUE].by = q.by
        /\ [q EXCEPT !.lapsed = TRUE].from = q.from /\ [q EXCEPT !.lapsed = TRUE].to = q.to
        /\ [q EXCEPT !.lapsed = TRUE].status = q.status
  BY DEF Requests
<1>3. /\ DOMAIN request' = DOMAIN request
      /\ request'[i] = [request[i] EXCEPT !.lapsed = TRUE]
      /\ \A j \in DOMAIN request : j # i => request'[j] = request[j]
  BY <1>1 DEF RequestLapses
<1>4. SameRequest(i) /\ request'[i].status = request[i].status
  BY <1>1, <1>2, <1>3 DEF SameRequest
<1>5. QED
  BY <1>3, <1>4 DEF SameRequest

\* Every step leaves redirects, requests and repositories where they belong.
LEMMA NamesStep ==
    ASSUME RegistryInv, [RegistryNext]_registryVars
    PROVE  NamesLead' /\ RedirectsSingle'
<1>1. RegistryTypeOK /\ RequestsStand
  BY DEF RegistryInv, NamesLead
<1>2. ASSUME PlacesApart', RedirectsRight', RequestsStand' PROVE NamesLead' /\ RedirectsSingle'
  BY <1>2, TypeStep, RedirectsCountedNext DEF NamesLead
<1>3. ASSUME place' = place, redirect' = redirect, request' = request, org' = org
      PROVE  NamesLead' /\ RedirectsSingle'
  BY <1>2, <1>3, SameOrgsLive, QuietNames, QuietRequests
<1>4. ASSUME NEW s \in Sessions, Asking(s) \/ Executing(s) PROVE NamesLead' /\ RedirectsSingle'
  <2>1. CASE TransferRepo(s) \/ AcceptRepoTransfer(s) \/ DropRepo(s) \/ CreateRepo(s) \/ DeleteOrg(s)
    BY <1>2, <2>1, TransferNames, AcceptNames, DropNames, CreateNames, DissolveNames
  <2>2. CASE CreateRepoTransfer(s) \/ DecideRepoTransfer(s) \/ TurnedDown(s)
    <3>1. place' = place /\ redirect' = redirect /\ org' = org
      BY <2>2 DEF CreateRepoTransfer, DecideRepoTransfer, TurnedDown, orgVars, repoVars
    <3>2. PlacesApart' /\ RedirectsRight'
      BY <3>1, SameOrgsLive, QuietNames
    <3>3. RequestsStand'
      BY <2>2, FileNames, DecisionNames
    <3>4. QED
      BY <1>2, <3>2, <3>3
  <2>3. CASE SetOrgMember(s) \/ SetAccount(s) \/ ~Writes(s)
    <3>1. place' = place /\ redirect' = redirect /\ request' = request /\ org' = org
      BY <1>4, <2>3, OthersReadOnly DEF SetOrgMember, SetAccount, orgVars, repoVars
    <3>2. QED
      BY <1>3, <3>1
  <2>4. QED
    BY <2>1, <2>2, <2>3 DEF Writes
<1>5. ASSUME NEW o \in Orgs, NEW u \in Users, CreateOrg(o, u) PROVE NamesLead' /\ RedirectsSingle'
  <2>1. place' = place /\ redirect' = redirect /\ request' = request
    BY <1>5 DEF CreateOrg, AtOnce, repoVars
  <2>2. \A n : LiveNamespace(n) => LiveNamespace(n)'
    BY <1>1, <1>5 DEF CreateOrg, LiveNamespace, RegistryTypeOK
  <2>3. QED
    BY <1>2, <2>1, <2>2, QuietNames, QuietRequests
<1>6. ASSUME NEW o \in Orgs, NEW u \in Users, NEW to \in {"write", "admin"}, AddOrgMember(o, u, to)
      PROVE  NamesLead' /\ RedirectsSingle'
  BY <1>3, <1>6 DEF AddOrgMember, AtOnce, repoVars
<1>7. ASSUME NEW r \in Repos, SetRepoArchived(r) PROVE NamesLead' /\ RedirectsSingle'
  BY <1>3, <1>7 DEF SetRepoArchived, AtOnce, orgVars
<1>8. ASSUME NEW i \in DOMAIN request, RequestLapses(i) PROVE NamesLead' /\ RedirectsSingle'
  <2>1. place' = place /\ redirect' = redirect /\ org' = org
    BY <1>8 DEF RequestLapses, orgVars, repoVars
  <2>2. /\ DOMAIN request' = DOMAIN request
        /\ \A j \in DOMAIN request : SameRequest(j) /\ request'[j].status = request[j].status
    BY <1>1, <1>8, LapseFacts
  <2>3. RequestsStand'
    BY <1>1, <2>1, <2>2, SameOrgsLive, RequestsStandKept
  <2>4. QED
    BY <1>2, <2>1, <2>3, SameOrgsLive, QuietNames
<1>9. CASE UNCHANGED registryVars
  BY <1>3, <1>9 DEF registryVars
<1>10. QED
  BY <1>4, <1>5, <1>6, <1>7, <1>8, <1>9 DEF RegistryNext

-----------------------------------------------------------------------------
(* The inductive invariant and what follows from it.                       *)

\* What is pending when the calls begin.
LEMMA FilingFacts ==
    ASSUME RegistryInit, NEW q \in Filings
    PROVE  /\ q \in Requests /\ place[q.repo] = q.from
           /\ LiveNamespace(q.from[1]) /\ LiveNamespace(q.to[1])
<1>1. PICK r \in Repos :
        /\ Exists(r)
        /\ q \in [repo : {r}, from : {place[r]}, to : {p \in Places \ {place[r]} : LiveNamespace(p[1])},
                  by : {u \in Users : MayAdmin(u, place[r][1])}, status : {"pending"}, lapsed : {FALSE}]
  BY DEF Filings
<1>2. /\ q.repo = r /\ q.from = place[r] /\ q.to \in Places /\ LiveNamespace(q.to[1]) /\ q.by \in Users
      /\ q.status = "pending" /\ q.lapsed = FALSE
      /\ q = [repo |-> q.repo, from |-> q.from, to |-> q.to, by |-> q.by, status |-> q.status,
              lapsed |-> q.lapsed]
  BY <1>1
<1>3. q \in Requests
  BY <1>1, <1>2 DEF Requests, Exists
<1>4. LiveNamespace(q.from[1])
  BY <1>1, <1>2 DEF RegistryInit
<1>5. QED
  BY <1>2, <1>3, <1>4

\* The requests when the calls begin.
LEMMA InitRequests ==
    ASSUME RegistryInit
    PROVE  /\ request \in Seq(Requests)
           /\ \A i \in DOMAIN request : request[i] \in Filings
<1>1. PICK n \in 0..Cardinality(Repos) : request \in [1..n -> Filings]
  BY DEF RegistryInit
<1>2. n \in Nat
  BY <1>1
<1>3. \A i \in DOMAIN request : request[i] \in Filings /\ request[i] \in Requests
  BY <1>1, FilingFacts
<1>4. request \in [1..n -> Requests]
  BY <1>1, <1>3
<1>5. QED
  BY <1>2, <1>3, <1>4

\* The invariant holds of any tables earlier calls may have left.
LEMMA InitInv ==
    ASSUME RegistryInit PROVE RegistryInv
<1>1. /\ \A s \in Sessions : call[s] = Idle /\ rowLock[s] = {}
      /\ call = [s \in Sessions |-> Idle] /\ DOMAIN rowLock = Sessions /\ asked = 0
  BY DEF RegistryInit, NoCalls
<1>2. RegistryTypeOK
  <2>1. call \in [Sessions -> Calls] /\ asked \in 0..MaxCalls
    BY <1>1, IdleFacts, RegistryAssumption
  <2>2. TablesOK
    <3>1. org \in [Orgs -> {"unborn", "live", "deleted"}] /\ role \in [Orgs -> [Users -> Roles]]
      BY DEF RegistryInit, Roles
    <3>2. /\ siteAdmin \subseteq Users /\ shut \in [Users -> SUBSET Gates] /\ archived \subseteq Repos
          /\ redirect \in [Places -> SUBSET Repos]
      BY DEF RegistryInit
    <3>3. place \in [Repos -> Places \cup {Unborn, Gone}]
      BY DEF RegistryInit
    <3>4. QED
      BY <3>1, <3>2, <3>3 DEF TablesOK
  <2>3. QED
    BY <1>1, <2>1, <2>2, InitRequests DEF RegistryTypeOK, TablesOK
<1>3. LocksExclude /\ HoldsNothing /\ CreatesApart
  BY <1>1, IdleFacts DEF LocksExclude, HoldsNothing, CreatesApart
<1>4. ASSUME NEW s \in Sessions PROVE Guarded(s)
  <2>1. call[s].op = "idle"
    BY <1>1, IdleFacts
  <2>2. QED
    BY <2>1 DEF Guarded, MemberGuard, AccountGuard, MoveGuard, FileGuard, AcceptGuard, DecideGuard,
       DissolveGuard, CreateGuard, DeleteGuard
<1>5. AdminsRemain
  <2>1. UsableAdmins # {}
    <3>1. PICK a \in Users : a \in siteAdmin /\ shut[a] = {}
      BY DEF RegistryInit
    <3>2. QED
      BY <3>1 DEF UsableAdmins, Usable
  <2>2. QED
    BY <2>1 DEF RegistryInit, AdminsRemain
<1>6. RedirectsLead /\ RedirectsSingle
  BY DEF RegistryInit, RedirectsLead, RedirectsSingle
<1>7. PlacesApart
  BY DEF RegistryInit, PlacesApart
<1>8. RequestsStand
  <2>1. \A i, j \in DOMAIN request : request[i].repo = request[j].repo => i = j
    BY DEF RegistryInit
  <2>2. \A i \in DOMAIN request :
            /\ place[request[i].repo] = request[i].from
            /\ LiveNamespace(request[i].from[1]) /\ LiveNamespace(request[i].to[1])
    BY InitRequests, FilingFacts
  <2>3. QED
    BY <2>1, <2>2 DEF RequestsStand, StillThere, Pending
<1>9. QED
  BY <1>2, <1>3, <1>4, <1>5, <1>6, <1>7, <1>8 DEF RegistryInv, NamesLead

\* The invariant is inductive.
LEMMA RegistryInvStep ==
    ASSUME RegistryInv, [RegistryNext]_registryVars
    PROVE  RegistryInv'
<1>1. RegistryTypeOK /\ LocksExclude /\ HoldsNothing
  BY DEF RegistryInv
<1>2. LocksExclude' /\ HoldsNothing'
  BY <1>1, LocksExcludeStep, HoldsNothingStep
<1>3. QED
  BY <1>2, TypeStep, CreatesApartStep, GuardedStep, AdminsStep, NamesStep DEF RegistryInv

\* The guards, the locks and the tables agree throughout.
THEOREM Inductive == RegistrySpec => []RegistryInv
<1>1. RegistryInit => RegistryInv
  BY InitInv
<1>2. RegistryInv /\ [RegistryNext]_registryVars => RegistryInv'
  BY RegistryInvStep
<1>3. QED
  BY <1>1, <1>2, PTL DEF RegistrySpec

\* Type correctness of accounts, names and transfers.
THEOREM TypeCorrect == RegistrySpec => []RegistryTypeOK
<1>1. RegistryInv => RegistryTypeOK
  BY DEF RegistryInv
<1>2. QED
  BY <1>1, Inductive, PTL

\* No interleaving of changes to members and accounts leaves an organisation, or
\* the instance, without an administrator (orgs.go:503-528, users.go:296-316).
THEOREM AlwaysAdministered == RegistrySpec => []AdminsRemain
<1>1. RegistryInv => AdminsRemain
  BY DEF RegistryInv
<1>2. QED
  BY <1>1, Inductive, PTL

\* No interleaving of moves, requests, creations and deletions leaves a redirect
\* that leads nowhere, a request that does not mean what it said, or two
\* repositories at one name (transfers.go:204-216, repos.go:167).
THEOREM NamesAlwaysLead == RegistrySpec => []NamesLead
<1>1. RegistryInv => NamesLead
  BY DEF RegistryInv
<1>2. QED
  BY <1>1, Inductive, PTL

\* A step settles a request for good, and only an accept completes a transfer.
LEMMA DecisionStep ==
    ASSUME RegistryInv, [RegistryNext]_registryVars, NEW i \in DOMAIN request
    PROVE  Decision(i)
<1>1. RegistryTypeOK /\ request \in Seq(Requests)
  BY DEF RegistryInv, RegistryTypeOK
<1>2. ASSUME NEW s \in Sessions, Asking(s) \/ Executing(s)
      PROVE  request[i].status # "pending" => request'[i].status \in {request[i].status, "gone"}
  BY <1>2, RequestsWritten DEF RequestStep
<1>3. ASSUME NEW S, NEW x \in Statuses \ {"accepted"}, request' = Settled(S, x),
             request'[i].status = "accepted"
      PROVE  request[i].status = "accepted"
  BY <1>1, <1>3, SettledFacts
<1>4. {"cancelled", "expired", "rejected", "gone"} \subseteq Statuses \ {"accepted"}
  BY DEF Statuses
<1>5. ASSUME NEW s \in Sessions, Asking(s) \/ Executing(s), request[i].status = "pending",
             request'[i].status = "accepted"
      PROVE  AcceptRepoTransfer(s)
  <2>1. CASE TransferRepo(s)
    <3>1. request' = Settled(Pending(call[s].repo), "cancelled")
      BY <2>1 DEF TransferRepo, Cancelled, Settled
    <3>2. QED
      BY <1>3, <1>4, <1>5, <3>1
  <2>2. CASE DeleteOrg(s) \/ DropRepo(s)
    <3>1. \E S : request' = Settled(S, "gone")
      BY <2>2 DEF DeleteOrg, DropRepo, Without, Settled
    <3>2. QED
      BY <1>3, <1>4, <1>5, <3>1
  <2>3. CASE CreateRepoTransfer(s)
    <3>1. ASSUME NEW new, request' = Append(Settled(Expiring(s), "expired"), new) PROVE FALSE
      <4>1. /\ Settled(Expiring(s), "expired") \in Seq(Requests)
            /\ DOMAIN Settled(Expiring(s), "expired") = DOMAIN request
            /\ Settled(Expiring(s), "expired")[i].status # "accepted"
        BY <1>1, <1>4, <1>5, SettledFacts
      <4>2. request'[i] = Settled(Expiring(s), "expired")[i]
        BY <3>1, <4>1
      <4>3. QED
        BY <1>5, <4>1, <4>2
    <3>2. QED
      BY <2>3, <3>1 DEF CreateRepoTransfer, Settled
  <2>4. CASE DecideRepoTransfer(s)
    <3>1. call[s].id \in DOMAIN request /\ call[s].status \in {"rejected", "cancelled"}
      BY <2>4, DecideRelies
    <3>2. request' = Settled({call[s].id}, call[s].status)
      BY <1>1, <1>4, <2>4, <3>1, OneSettled DEF DecideRepoTransfer
    <3>3. QED
      BY <1>3, <1>4, <1>5, <3>1, <3>2
  <2>5. CASE TurnedDown(s)
    <3>1. CASE call[s].op \in {"accept", "decide"}
      <4>1. ASSUME NEW x, x = StatusAfterRefusal(call[s]) PROVE FALSE
        <5>1. request' = [request EXCEPT ![call[s].id].status = x]
          BY <2>5, <3>1, <4>1 DEF TurnedDown
        <5>2. request[call[s].id].status = "pending" => x # "accepted"
          BY <3>1, <4>1, RefusalFacts
        <5>3. request[i] \in Requests
          BY <1>1
        <5>4. QED
          BY <1>1, <1>5, <5>1, <5>2, <5>3 DEF Requests
      <4>2. QED
        BY <4>1
    <3>2. CASE call[s].op \notin {"accept", "decide"}
      BY <1>5, <2>5, <3>2 DEF TurnedDown
    <3>3. QED
      BY <3>1, <3>2
  <2>6. CASE SetOrgMember(s) \/ SetAccount(s) \/ CreateRepo(s) \/ ~Writes(s)
    BY <1>5, <2>6, OthersReadOnly DEF SetOrgMember, SetAccount, CreateRepo
  <2>7. QED
    BY <2>1, <2>2, <2>3, <2>4, <2>5, <2>6 DEF Writes
<1>6. ASSUME NEW s \in Sessions, AcceptRepoTransfer(s), request[i].status = "pending",
             request'[i].status = "accepted"
      PROVE  /\ StillThere(request[i]) /\ RequesterMayStillTransfer(request[i])
             /\ request[i].repo \notin archived
  <2>1. request' = Settled({call[s].id}, "accepted") /\ "accepted" \in Statuses
    BY <1>6, AcceptSettles DEF Statuses
  <2>2. i = call[s].id
    BY <1>1, <1>6, <2>1, SettledFacts
  <2>3. QED
    BY <1>6, <2>2, AcceptRelies
<1>7. CASE ~\E s \in Sessions : Asking(s) \/ Executing(s)
  <2>1. request'[i].status = request[i].status
    <3>1. CASE \E j \in DOMAIN request : RequestLapses(j)
      BY <1>1, <3>1, LapseFacts
    <3>2. CASE request' = request
      BY <3>2
    <3>3. QED
      BY <1>7, <3>1, <3>2
         DEF RegistryNext, CreateOrg, AddOrgMember, SetRepoArchived, AtOnce, registryVars
  <2>2. QED
    BY <2>1 DEF Decision
<1>8. QED
  BY <1>2, <1>5, <1>6, <1>7 DEF Decision

\* No transfer completes on authority its requester has lost, and a decision stands
\* (transfers.go:583-587, 546-561).
THEOREM AcceptsWithAuthority == RegistrySpec => AcceptedWithAuthority
<1>1. RegistryInv /\ [RegistryNext]_registryVars => [\A i \in DOMAIN request : Decision(i)]_registryVars
  BY DecisionStep
<1>2. QED
  BY <1>1, Inductive, PTL DEF RegistrySpec, AcceptedWithAuthority

-----------------------------------------------------------------------------
(* No transactions wait for each other in a circle.                        *)

\* Locks that let each other through.
LEMMA SharedFacts ==
    ASSUME NEW m \in {"keyshare", "share"}, NEW n \in {"keyshare", "share"}
    PROVE  {m, n} \notin Clashing
BY DEF Clashing

\* The locks of one row of another.
LEMMA NewPlaceFacts ==
    ASSUME NEW p, NEW k \in NewPlace(p)
    PROVE  \/ k.row = <<"place", p>> /\ k.mode = "update"
           \/ k.row = <<"namespace", p[1]>> /\ k.mode = "keyshare"
BY LockFacts DEF NewPlace, ForeignKey

\* The locks of a repository's namespace.
LEMMA HomeKeyFacts ==
    ASSUME NEW r, NEW k \in HomeKey(r)
    PROVE  k.row = <<"namespace", place[r][1]>> /\ k.mode = "keyshare"
BY LockFacts DEF HomeKey, ForeignKey

\* The locks of requests.
LEMMA RequestLocksFacts ==
    ASSUME NEW ids, NEW m, NEW k \in RequestLocks(ids, m)
    PROVE  /\ k.row[1] = "request" /\ k.row[2] \in ids
           /\ k.row = <<"request", k.row[2]>> /\ k.mode = m
<1>1. PICK i \in ids : k = Lock("request", i, m)
  BY DEF RequestLocks
<1>2. QED
  BY <1>1, LockFacts

\* What the next statement of a call locks.
LEMMA WantsFacts ==
    ASSUME NEW c, NEW k \in Wants(c), c.op # "idle" => c.step \in Nat
    PROVE  /\ c.op \notin {"idle", "made"} /\ c.step \in Nat /\ c.step < Len(Statements(c))
           /\ k \in Statements(c)[c.step + 1]
<1>1. c.op # "idle" /\ c.step < Len(Statements(c)) /\ k \in Statements(c)[c.step + 1]
  BY DEF Wants
<1>2. c.op # "made"
  <2>1. ASSUME c.op = "made" PROVE FALSE
    <3>1. Statements(c) = <<>>
      BY <2>1, NoStatements
    <3>2. QED
      BY <1>1, <3>1
  <2>2. QED
    BY <2>1
<1>3. QED
  BY <1>1, <1>2

\* The rows a call has still to lock, by what it is and how far it has come.
LEMMA WantedRows ==
    ASSUME NEW c \in Calls, NEW k \in Wants(c)
    PROVE  /\ c.op \in {"member", "decide", "create"} => c.step = 0
           /\ c.op \in {"account", "dissolve", "delete"} => c.step \in {0, 1}
           /\ c.op = "file" => c.step \in {0, 1, 2}
           /\ c.op = "move" => c.step \in {0, 1, 2, 3}
           /\ c.op = "accept" => c.step \in {0, 1, 2, 3, 4}
           /\ c.op \in {"member", "account", "move", "file", "accept", "decide", "dissolve",
                        "create", "delete"}
<1>1. c.op # "idle" => c.step \in Nat
  BY CallFacts
<1>. DEFINE n == Len(Statements(c))
<1>2. /\ c.op \notin {"idle", "made"} /\ c.step \in Nat /\ c.step < Len(Statements(c))
  BY <1>1, WantsFacts
<1>3. /\ c.op = "member" \/ c.op = "decide" \/ c.op = "create" => c.step = 0
      /\ c.op = "account" \/ c.op = "dissolve" \/ c.op = "delete" => c.step = 0 \/ c.step = 1
      /\ c.op = "file" => c.step = 0 \/ c.step = 1 \/ c.step = 2
      /\ c.op = "move" => c.step = 0 \/ c.step = 1 \/ c.step = 2 \/ c.step = 3
      /\ c.op = "accept" =>
            c.step = 0 \/ c.step = 1 \/ c.step = 2 \/ c.step = 3 \/ c.step = 4
  <2>1. ASSUME NEW x \in Nat, NEW m, x < m
        PROVE  /\ m = 1 => x = 0
               /\ m = 2 => x = 0 \/ x = 1
               /\ m = 3 => x = 0 \/ x = 1 \/ x = 2
               /\ m = 4 => x = 0 \/ x = 1 \/ x = 2 \/ x = 3
               /\ m = 5 => x = 0 \/ x = 1 \/ x = 2 \/ x = 3 \/ x = 4
    BY <2>1
  <2>2. c.step \in Nat /\ c.step < n
    BY <1>2
  <2>3. /\ n = 1 => c.step = 0
        /\ n = 2 => c.step = 0 \/ c.step = 1
        /\ n = 3 => c.step = 0 \/ c.step = 1 \/ c.step = 2
        /\ n = 4 => c.step = 0 \/ c.step = 1 \/ c.step = 2 \/ c.step = 3
        /\ n = 5 => c.step = 0 \/ c.step = 1 \/ c.step = 2 \/ c.step = 3 \/ c.step = 4
    BY <2>1, <2>2
  <2>4. /\ c.op = "member" \/ c.op = "decide" \/ c.op = "create" => n = 1
        /\ c.op = "account" \/ c.op = "dissolve" \/ c.op = "delete" => n = 2
        /\ c.op = "file" => n = 3
        /\ c.op = "move" => n = 4
        /\ c.op = "accept" => n = 5
    BY StatementCount, Zenon
  <2>. HIDE DEF n
  <2>5. QED
    BY <2>3, <2>4, Zenon
<1>4. c.op \in {"member", "account", "move", "file", "accept", "decide", "dissolve",
               "create", "delete"}
  BY <1>2, CallFacts
<1>5. QED
  BY <1>3, <1>4

\* A move wants the place, then the requests of its repository, then its namespace.
LEMMA MoveWants ==
    ASSUME NEW c \in Calls, NEW k \in Wants(c), c.op = "move", c.step > 0
    PROVE  \/ /\ c.step = 1 /\ k \in NewPlace(c.to)
           \/ /\ c.step = 2 /\ k \in RequestLocks(Pending(c.repo), "nokey")
           \/ /\ c.step = 3 /\ k \in HomeKey(c.repo)
<1>1. c.step \in Nat /\ c.step \in {0, 1, 2, 3} /\ k \in Statements(c)[c.step + 1]
  BY WantedRows, WantsFacts, CallFacts
<1>2. QED
  BY <1>1, MoveStatements

\* A filing wants the requests of its repository, then namespaces.
LEMMA FileWants ==
    ASSUME NEW c \in Calls, NEW k \in Wants(c), c.op = "file", c.step > 0
    PROVE  \/ /\ c.step = 1 /\ k \in RequestLocks(Overdue(c.repo), "nokey")
           \/ /\ c.step = 2 /\ k \in HomeKey(c.repo) \cup ForeignKey(c.to[1])
<1>1. c.step \in Nat /\ c.step \in {0, 1, 2} /\ k \in Statements(c)[c.step + 1]
  BY WantedRows, WantsFacts, CallFacts
<1>2. QED
  BY <1>1, FileStatements

\* An accept wants its request, the source, the requester, then the place.
LEMMA AcceptWants ==
    ASSUME NEW c \in Calls, NEW k \in Wants(c), c.op = "accept", c.step > 0
    PROVE  \/ /\ c.step = 1 /\ k \in RequestLocks({c.id}, "update")
           \/ /\ c.step = 2 /\ k \in SourceLock(request[c.id].from[1])
           \/ /\ c.step = 3 /\ k = Lock("user", request[c.id].by, "share")
           \/ /\ c.step = 4 /\ k \in NewPlace(request[c.id].to)
<1>1. c.step \in Nat /\ c.step \in {0, 1, 2, 3, 4} /\ k \in Statements(c)[c.step + 1]
  BY WantedRows, WantsFacts, CallFacts
<1>2. QED
  BY <1>1, AcceptStatements

\* A deletion wants the requests of its repository.
LEMMA DeleteWants ==
    ASSUME NEW c \in Calls, NEW k \in Wants(c), c.op = "delete", c.step > 0
    PROVE  k \in RequestLocks(RequestsOf(c.repo), "update")
<1>1. c.step \in Nat /\ c.step \in {0, 1} /\ k \in Statements(c)[c.step + 1]
  BY WantedRows, WantsFacts, CallFacts
<1>2. QED
  BY <1>1, DeleteStatements

\* A change of an account wants the user's row.
LEMMA AccountWants ==
    ASSUME NEW c \in Calls, NEW k \in Wants(c), c.op = "account", c.step > 0
    PROVE  k = Lock("user", c.user, "nokey")
<1>1. c.step \in Nat /\ c.step \in {0, 1} /\ k \in Statements(c)[c.step + 1]
  BY WantedRows, WantsFacts, CallFacts
<1>2. QED
  BY <1>1, AccountStatements

\* A change of a member wants its organisation, and no more.
LEMMA MemberWants ==
    ASSUME NEW c \in Calls, NEW k \in Wants(c), c.op = "member"
    PROVE  k.row = <<"namespace", c.org>> /\ k.mode = "update"
<1>1. c.step = 0 /\ k \in Statements(c)[c.step + 1]
  BY WantedRows, WantsFacts, CallFacts
<1>2. k = Lock("namespace", c.org, "update")
  BY <1>1, MemberStatements DEF OrgLock
<1>3. QED
  BY <1>2, LockFacts

\* A decision wants its request, and no more.
LEMMA DecideWants ==
    ASSUME NEW c \in Calls, NEW k \in Wants(c), c.op = "decide"
    PROVE  k.row = <<"request", c.id>> /\ k.mode = "update"
<1>1. c.step = 0 /\ k \in Statements(c)[c.step + 1]
  BY WantedRows, WantsFacts, CallFacts
<1>2. k \in RequestLocks({c.id}, "update")
  BY <1>1, DecideStatements
<1>3. QED
  BY <1>2, RequestLocksFacts

\* A creation wants its place, and no more.
LEMMA CreateWants ==
    ASSUME NEW c \in Calls, NEW k \in Wants(c), c.op = "create"
    PROVE  k \in NewPlace(c.to)
<1>1. c.step = 0 /\ k \in Statements(c)[c.step + 1]
  BY WantedRows, WantsFacts, CallFacts
<1>2. QED
  BY <1>1, CreateStatements

\* The calls about a repository lock it first.
LEMMA RepoWants ==
    ASSUME NEW c \in Calls, NEW k \in Wants(c), c.step = 0,
           c.op = "move" \/ c.op = "file" \/ c.op = "accept" \/ c.op = "delete"
    PROVE  k.row[1] = "repo"
<1>1. k \in Statements(c)[1]
  BY WantsFacts, CallFacts
<1>2. ASSUME NEW r, k \in {Lock("repo", r, "update")} PROVE k.row[1] = "repo"
  BY <1>2, LockFacts
<1>3. CASE c.op = "move"
  BY <1>1, <1>2, <1>3, MoveStatements
<1>4. CASE c.op = "file"
  BY <1>1, <1>2, <1>4, FileStatements
<1>5. CASE c.op = "accept"
  <2>1. Statements(c)[1] = {Lock("repo", request[c.id].repo, "update")}
    BY <1>5, AcceptStatements
  <2>2. QED
    BY <1>1, <1>2, <2>1
<1>6. CASE c.op = "delete"
  BY <1>1, <1>2, <1>6, DeleteStatements
<1>7. QED
  BY <1>3, <1>4, <1>5, <1>6

\* What a lock fits, it fits when the call has come a statement further.
LEMMA FitsFurther ==
    ASSUME NEW c \in Calls, c.op # "idle", NEW d, d = [c EXCEPT !.step = c.step + 1],
           NEW requests, NEW h, Fits(requests, c, h)
    PROVE  Fits(requests, d, h)
<1>1. /\ d.op = c.op /\ d.step = c.step + 1 /\ c.step \in Nat
      /\ c.op \in {"move", "file", "delete"} => d.repo = c.repo
      /\ c.op = "accept" => d.id = c.id
  BY AdvancedFacts, CallFacts
<1>2. QED
  BY <1>1 DEF Fits

\* What a statement locks fits the call that has done it.
LEMMA FitsAdvances ==
    ASSUME request \in Seq(Requests), NEW c \in Calls, NEW d, d = [c EXCEPT !.step = c.step + 1],
           NEW k \in Wants(c), c.op = "accept" => c.id \in DOMAIN request
    PROVE  Fits(request, d, k)
<1>1. /\ c.op # "idle" /\ c.op \notin {"idle", "made"} /\ c.step \in Nat
      /\ d.op = c.op /\ d.step = c.step + 1
      /\ c.op \in {"move", "file", "delete"} => d.repo = c.repo
      /\ c.op = "accept" => d.id = c.id
      /\ k \in Statements(c)[c.step + 1]
  BY AdvancedFacts, CallFacts, WantsFacts
<1>2. CASE c.op = "member" \/ c.op = "dissolve"
  <2>1. CASE c.op = "member"
    <3>1. k.row[1] = "namespace"
      BY <2>1, MemberWants
    <3>2. QED
      BY <1>1, <2>1, <3>1 DEF Fits
  <2>2. CASE c.op = "dissolve"
    <3>1. k \in OrgLock(c.org) \/ k \in RequestLocks(Touching(c.org), "update")
      BY <1>1, <2>2, WantedRows, DissolveStatements
    <3>2. k.row[1] = "namespace" \/ k.row[1] = "request"
      BY <3>1, LockFacts, RequestLocksFacts DEF OrgLock
    <3>3. QED
      BY <1>1, <2>2, <3>2 DEF Fits
  <2>3. QED
    BY <1>2, <2>1, <2>2
<1>3. CASE c.op = "account"
  <2>1. CASE c.step = 0
    <3>1. k \in AdminsLock
      BY <1>1, <1>3, <2>1, AccountStatements
    <3>2. k.row[1] = "advisory"
      BY <3>1, LockFacts DEF AdminsLock
    <3>3. QED
      BY <3>2 DEF Fits
  <2>2. CASE c.step > 0
    <3>1. k.row[1] = "user"
      BY <1>3, <2>2, AccountWants, LockFacts
    <3>2. QED
      BY <1>1, <1>3, <2>2, <3>1 DEF Fits
  <2>3. QED
    BY <1>1, <2>1, <2>2
<1>4. ASSUME c.op \in {"move", "file", "accept", "delete"}, c.step = 0
      PROVE  Fits(request, d, k)
  <2>1. k.row[1] = "repo"
    BY <1>4, RepoWants
  <2>2. QED
    BY <2>1 DEF Fits
<1>5. CASE c.op = "move" /\ c.step > 0
  <2>1. CASE k \in NewPlace(c.to) \/ k \in HomeKey(c.repo)
    BY <1>1, <1>5, <2>1, NewPlaceFacts, HomeKeyFacts DEF Fits
  <2>2. CASE k \in RequestLocks(Pending(c.repo), "nokey")
    BY <1>1, <1>5, <2>2, RequestLocksFacts DEF Fits, Pending
  <2>3. QED
    BY <1>5, <2>1, <2>2, MoveWants
<1>6. CASE c.op = "file" /\ c.step > 0
  <2>1. CASE k \in HomeKey(c.repo) \cup ForeignKey(c.to[1])
    <3>1. k.row[1] = "namespace" /\ k.mode = "keyshare"
      BY <2>1, HomeKeyFacts, LockFacts DEF ForeignKey
    <3>2. QED
      BY <3>1 DEF Fits
  <2>2. CASE k \in RequestLocks(Overdue(c.repo), "nokey")
    BY <1>1, <1>6, <2>2, RequestLocksFacts DEF Fits, Overdue, Pending
  <2>3. QED
    BY <1>6, <2>1, <2>2, FileWants
<1>7. CASE c.op = "accept" /\ c.step > 0
  <2>1. CASE c.step = 1 /\ k \in RequestLocks({c.id}, "update")
    BY <1>1, <1>7, <2>1, RequestLocksFacts DEF Fits
  <2>2. CASE c.step = 2 /\ k \in SourceLock(request[c.id].from[1])
    <3>1. k.row[1] = "namespace" /\ k.mode = "share"
      BY <2>2, LockFacts DEF SourceLock
    <3>2. QED
      BY <3>1 DEF Fits
  <2>3. CASE c.step = 3 /\ k = Lock("user", request[c.id].by, "share")
    <3>1. k.row[1] = "user" /\ k.mode = "share"
      BY <2>3, LockFacts
    <3>2. QED
      BY <1>1, <1>7, <3>1 DEF Fits
  <2>4. CASE c.step = 4 /\ k \in NewPlace(request[c.id].to)
    BY <1>1, <1>7, <2>4, NewPlaceFacts DEF Fits
  <2>5. QED
    BY <1>7, <2>1, <2>2, <2>3, <2>4, AcceptWants
<1>8. CASE c.op = "delete" /\ c.step > 0
  <2>1. k \in RequestLocks(RequestsOf(c.repo), "update")
    BY <1>8, DeleteWants
  <2>2. QED
    BY <1>1, <1>8, <2>1, RequestLocksFacts DEF Fits, RequestsOf
<1>9. CASE c.op = "decide"
  <2>1. k.row[1] = "request"
    BY <1>9, DecideWants
  <2>2. QED
    BY <1>1, <1>9, <2>1 DEF Fits
<1>10. CASE c.op = "create"
  <2>1. k.row[1] = "place" \/ (k.row[1] = "namespace" /\ k.mode = "keyshare")
    BY <1>10, CreateWants, NewPlaceFacts
  <2>2. QED
    BY <1>1, <1>10, <2>1 DEF Fits
<1>11. c.op \in {"member", "account", "move", "file", "accept", "decide", "dissolve",
                "create", "delete"}
  BY WantedRows
<1>12. QED
  BY <1>1, <1>2, <1>3, <1>4, <1>5, <1>6, <1>7, <1>8, <1>9, <1>10, <1>11

\* No step says that a request is about another repository.
LEMMA RequestsNamed ==
    ASSUME RegistryInv, [RegistryNext]_registryVars, NEW s \in Sessions, NEW i \in DOMAIN request
    PROVE  i \in DOMAIN request' /\ request'[i].repo = request[i].repo
<1>1. CASE UNCHANGED registryVars
  BY <1>1 DEF registryVars
<1>2. ASSUME NEW t \in Sessions, Asking(t) \/ Executing(t)
      PROVE  i \in DOMAIN request' /\ request'[i].repo = request[i].repo
  <2>1. RequestStep(t)
    BY <1>2, RequestsWritten
  <2>2. QED
    BY <2>1 DEF RequestStep, SameRequest
<1>3. CASE RegistryNext /\ ~\E t \in Sessions : Asking(t) \/ Executing(t)
  <2>1. Kept(s)
    BY <1>3, OutsideKeeps
  <2>2. QED
    BY <2>1 DEF Kept, KeepsRequests, SameRequest
<1>4. QED
  BY <1>1, <1>2, <1>3

\* A lock of a call that rests keeps fitting.
LEMMA FitsKept ==
    ASSUME RegistryInv, [RegistryNext]_registryVars, NEW s \in Sessions, NEW c, NEW h,
           Fits(request, c, h)
    PROVE  Fits(request', c, h)
<1>1. \A i \in DOMAIN request : i \in DOMAIN request' /\ request'[i].repo = request[i].repo
  BY RequestsNamed
<1>2. QED
  BY <1>1 DEF Fits

\* Every step keeps the locks in what they are for.
LEMMA LocksFitStep ==
    ASSUME RegistryInv, LocksFit, [RegistryNext]_registryVars
    PROVE  LocksFit'
<1>1. RegistryTypeOK /\ HoldsNothing /\ request \in Seq(Requests)
  BY DEF RegistryInv, RegistryTypeOK
<1>2. ASSUME NEW s \in Sessions, call'[s] = call[s], rowLock'[s] = rowLock[s], NEW h \in rowLock'[s]
      PROVE  Fits(request', call'[s], h)
  BY <1>2, FitsKept DEF LocksFit
<1>3. CASE call' = call /\ rowLock' = rowLock
  BY <1>2, <1>3 DEF LocksFit
<1>4. ASSUME NEW s \in Sessions, Released(s) PROVE LocksFit'
  <2>1. ASSUME NEW t \in Sessions, NEW h \in rowLock'[t] PROVE Fits(request', call'[t], h)
    BY <1>2, <1>4, <2>1 DEF Released, OthersRest
  <2>2. QED
    BY <2>1 DEF LocksFit
<1>5. ASSUME NEW s \in Sessions, Statement(s) PROVE LocksFit'
  <2>1. /\ OthersRest(s) /\ call[s] \in Calls /\ call[s].op # "idle"
        /\ call'[s] = [call[s] EXCEPT !.step = call[s].step + 1]
        /\ rowLock'[s] = rowLock[s] \cup Wants(call[s])
        /\ request' = request
    BY <1>1, <1>5, StatementFacts DEF Statement, RegistryTypeOK
  <2>2. call[s].op = "accept" => call[s].id \in DOMAIN request
    BY DEF RegistryInv, Guarded, AcceptGuard
  <2>3. ASSUME NEW h \in rowLock[s] PROVE Fits(request, call'[s], h)
    BY <2>1, <2>3, FitsFurther DEF LocksFit
  <2>4. ASSUME NEW k \in Wants(call[s]) PROVE Fits(request, call'[s], k)
    BY <1>1, <2>1, <2>2, <2>4, FitsAdvances
  <2>5. ASSUME NEW t \in Sessions, NEW h \in rowLock'[t] PROVE Fits(request', call'[t], h)
    <3>1. CASE t = s
      BY <2>1, <2>3, <2>4, <2>5, <3>1
    <3>2. CASE t # s
      BY <1>2, <2>1, <2>5, <3>2 DEF OthersRest
    <3>3. QED
      BY <3>1, <3>2
  <2>6. QED
    BY <2>5 DEF LocksFit
<1>6. QED
  BY <1>1, <1>3, <1>4, <1>5, SessionsStep

\* What waits in a circle: calls that each wait for one of them, none the deletion
\* of an organisation.
Circle(D) ==
    /\ D \subseteq Sessions /\ \A s \in D : call[s].op # "dissolve"
    /\ \A s \in D : \E t \in D : Blocked(s, t)

\* Who waits in a circle has a statement left.
LEMMA CircleWaits ==
    ASSUME RegistryInv, NEW D, Circle(D), NEW s \in D
    PROVE  \E k \in Wants(call[s]) : TRUE
BY DEF Circle, Blocked

\* Who is waited for in a circle has begun, and waits.
LEMMA CircleSteps ==
    ASSUME RegistryInv, NEW D, Circle(D), NEW s \in D
    PROVE  /\ s \in Sessions /\ call[s] \in Calls /\ Guarded(s)
           /\ call[s].step \in Nat
           /\ call[s].op \in {"member", "decide", "create"} => call[s].step = 0
           /\ call[s].op = "account" => call[s].step \in {0, 1}
           /\ call[s].op = "move" => call[s].step \in {0, 1, 2, 3}
           /\ call[s].op = "accept" => call[s].step \in {0, 1, 2, 3, 4}
           /\ call[s].op \in {"member", "account", "move", "file", "accept", "decide",
                              "create", "delete"}
           /\ call[s].step = 0 => rowLock[s] = {}
<1>1. s \in Sessions /\ call[s] \in Calls /\ call[s].op # "dissolve" /\ HoldsNothing /\ Guarded(s)
  BY DEF Circle, RegistryInv, RegistryTypeOK
<1>2. PICK k \in Wants(call[s]) : TRUE
  BY CircleWaits
<1>3. call[s].step \in Nat
  BY <1>1, <1>2, WantsFacts, CallFacts
<1>4. /\ call[s].op \in {"member", "decide", "create"} => call[s].step = 0
      /\ call[s].op = "account" => call[s].step \in {0, 1}
      /\ call[s].op = "move" => call[s].step \in {0, 1, 2, 3}
      /\ call[s].op = "accept" => call[s].step \in {0, 1, 2, 3, 4}
      /\ call[s].op \in {"member", "account", "move", "file", "accept", "decide",
                         "create", "delete"}
  BY <1>1, <1>2, WantedRows
<1>5. call[s].step = 0 => rowLock[s] = {}
  BY <1>1 DEF HoldsNothing
<1>6. QED
  BY <1>1, <1>3, <1>4, <1>5

\* In a circle nobody who has locked a repository waits for one of its requests:
\* whoever holds one of them has locked the repository too, or is done.
LEMMA NobodyWaitsForRequest ==
    ASSUME RegistryInv, LocksFit, NEW D, Circle(D), NEW s \in D, NEW t \in D, s # t,
           NEW i \in DOMAIN request, HoldsRepo(s, request[i].repo),
           NEW h \in rowLock[t], h.row = <<"request", i>>
    PROVE  FALSE
<1>. DEFINE c == call[t]  r == request[i].repo
<1>1. /\ s \in Sessions /\ t \in Sessions /\ Guarded(t) /\ LocksExclude
      /\ rowLock[t] # {} /\ c.step \in Nat /\ c.step > 0
      /\ c.op \notin {"decide", "dissolve"}
  <2>1. LocksExclude /\ rowLock[t] # {} /\ s \in Sessions
    BY CircleSteps DEF RegistryInv
  <2>2. QED
    BY <2>1, CircleSteps
<1>2. HoldsRepo(t, r)
  <2>1. Fits(request, c, h) /\ h.row[1] = "request" /\ h.row[2] = i
    BY <1>1 DEF LocksFit
  <2>2. \/ c.op = "accept" /\ i = c.id
        \/ c.op \in {"move", "file", "delete"} /\ r = c.repo
    BY <1>1, <2>1 DEF Fits
  <2>3. QED
    BY <1>1, <2>2 DEF Guarded, AcceptGuard, MoveGuard, FileGuard, DeleteGuard
<1>3. {"update", "update"} \in Clashing
  BY ClashFacts
<1>4. QED
  BY <1>1, <1>2, <1>3, Excluded DEF HoldsRepo

\* In a circle nobody waits for a namespace they would only refer to, or read: who
\* locks it to write it is done.
LEMMA NobodyWaitsForNamespace ==
    ASSUME RegistryInv, LocksFit, NEW D, Circle(D), NEW s \in D, NEW t \in D,
           NEW k, k.mode \in {"keyshare", "share"}, k.row[1] = "namespace",
           NEW h \in rowLock[t], k.row = h.row
    PROVE  {k.mode, h.mode} \notin Clashing
<1>1. t \in Sessions /\ call[t].op \notin {"member", "dissolve"}
  BY CircleSteps
<1>2. Fits(request, call[t], h) /\ h.row[1] = "namespace"
  BY <1>1 DEF LocksFit
<1>3. h.mode \in {"keyshare", "share"}
  BY <1>1, <1>2 DEF Fits
<1>4. QED
  BY <1>3, SharedFacts

\* Somebody in a circle waits for a lock that another of it holds.
LEMMA CircleBlocks ==
    ASSUME RegistryInv, NEW D, Circle(D), NEW s \in D
    PROVE  \E t \in D, k \in Wants(call[s]) : \E h \in rowLock[t] :
                s # t /\ k.row = h.row /\ {k.mode, h.mode} \in Clashing
BY DEF Circle, Blocked

\* In a circle a move waits for its repository or its new place.
LEMMA MoveInCircle ==
    ASSUME RegistryInv, LocksFit, NEW D, Circle(D), NEW s \in D, call[s].op = "move"
    PROVE  call[s].step \in {0, 1}
<1>. DEFINE c == call[s]
<1>. SUFFICES ASSUME c.step # 0, c.step # 1 PROVE FALSE
  OBVIOUS
<1>1. PICK t \in D, k \in Wants(c) : \E h \in rowLock[t] :
            s # t /\ k.row = h.row /\ {k.mode, h.mode} \in Clashing
  BY CircleBlocks
<1>2. PICK h \in rowLock[t] : s # t /\ k.row = h.row /\ {k.mode, h.mode} \in Clashing
  BY <1>1
<1>3. c \in Calls /\ c.step \in Nat /\ c.step > 0 /\ MoveGuard(s)
  BY CircleSteps DEF Guarded
<1>4. k \in RequestLocks(Pending(c.repo), "nokey") \/ k \in HomeKey(c.repo)
  BY <1>3, MoveWants
<1>5. CASE k \in RequestLocks(Pending(c.repo), "nokey")
  <2>1. k.row = <<"request", k.row[2]>> /\ k.row[2] \in Pending(c.repo)
    BY <1>5, RequestLocksFacts
  <2>2. k.row[2] \in DOMAIN request /\ request[k.row[2]].repo = c.repo
    BY <2>1 DEF Pending
  <2>3. HoldsRepo(s, c.repo)
    BY <1>3 DEF MoveGuard
  <2>4. QED
    BY <1>2, <2>1, <2>2, <2>3, NobodyWaitsForRequest
<1>6. CASE k \in HomeKey(c.repo)
  <2>1. k.row[1] = "namespace" /\ k.mode = "keyshare"
    BY <1>6, HomeKeyFacts
  <2>2. QED
    BY <1>2, <2>1, NobodyWaitsForNamespace
<1>7. QED
  BY <1>4, <1>5, <1>6

\* In a circle a filing waits for its repository.
LEMMA FileInCircle ==
    ASSUME RegistryInv, LocksFit, NEW D, Circle(D), NEW s \in D, call[s].op = "file"
    PROVE  call[s].step = 0
<1>. DEFINE c == call[s]
<1>. SUFFICES ASSUME c.step # 0 PROVE FALSE
  OBVIOUS
<1>1. PICK t \in D, k \in Wants(c) : \E h \in rowLock[t] :
            s # t /\ k.row = h.row /\ {k.mode, h.mode} \in Clashing
  BY CircleBlocks
<1>2. PICK h \in rowLock[t] : s # t /\ k.row = h.row /\ {k.mode, h.mode} \in Clashing
  BY <1>1
<1>3. c \in Calls /\ c.step \in Nat /\ c.step > 0 /\ FileGuard(s)
  BY CircleSteps DEF Guarded
<1>4. k \in RequestLocks(Overdue(c.repo), "nokey") \/ k \in HomeKey(c.repo) \cup ForeignKey(c.to[1])
  BY <1>3, FileWants
<1>5. CASE k \in RequestLocks(Overdue(c.repo), "nokey")
  <2>1. k.row = <<"request", k.row[2]>> /\ k.row[2] \in Overdue(c.repo)
    BY <1>5, RequestLocksFacts
  <2>2. k.row[2] \in DOMAIN request /\ request[k.row[2]].repo = c.repo
    BY <2>1 DEF Overdue, Pending
  <2>3. HoldsRepo(s, c.repo)
    BY <1>3 DEF FileGuard
  <2>4. QED
    BY <1>2, <2>1, <2>2, <2>3, NobodyWaitsForRequest
<1>6. CASE k \in HomeKey(c.repo) \cup ForeignKey(c.to[1])
  <2>1. k.row[1] = "namespace" /\ k.mode = "keyshare"
    BY <1>6, HomeKeyFacts, LockFacts DEF ForeignKey
  <2>2. QED
    BY <1>2, <2>1, NobodyWaitsForNamespace
<1>7. QED
  BY <1>4, <1>5, <1>6

\* In a circle a deletion of a repository waits for the repository.
LEMMA DeleteInCircle ==
    ASSUME RegistryInv, LocksFit, NEW D, Circle(D), NEW s \in D, call[s].op = "delete"
    PROVE  call[s].step = 0
<1>. DEFINE c == call[s]
<1>. SUFFICES ASSUME c.step # 0 PROVE FALSE
  OBVIOUS
<1>1. PICK t \in D, k \in Wants(c) : \E h \in rowLock[t] :
            s # t /\ k.row = h.row /\ {k.mode, h.mode} \in Clashing
  BY CircleBlocks
<1>2. PICK h \in rowLock[t] : s # t /\ k.row = h.row /\ {k.mode, h.mode} \in Clashing
  BY <1>1
<1>3. c \in Calls /\ c.step \in Nat /\ c.step > 0 /\ DeleteGuard(s)
  BY CircleSteps DEF Guarded
<1>4. k \in RequestLocks(RequestsOf(c.repo), "update")
  BY <1>3, DeleteWants
<1>5. k.row = <<"request", k.row[2]>> /\ k.row[2] \in RequestsOf(c.repo)
  BY <1>4, RequestLocksFacts
<1>6. k.row[2] \in DOMAIN request /\ request[k.row[2]].repo = c.repo
  BY <1>5 DEF RequestsOf
<1>7. HoldsRepo(s, c.repo)
  BY <1>3 DEF DeleteGuard
<1>8. QED
  BY <1>2, <1>5, <1>6, <1>7, NobodyWaitsForRequest

\* In a circle nobody waits for a place: who has locked one waits for nothing a
\* circle could withhold.
LEMMA NobodyWaitsForPlace ==
    ASSUME RegistryInv, LocksFit, NEW D, Circle(D), NEW t \in D, NEW h \in rowLock[t],
           h.row[1] = "place"
    PROVE  FALSE
<1>1. /\ t \in Sessions /\ rowLock[t] # {} /\ call[t].step > 0 /\ call[t].step \in Nat
      /\ call[t].op # "create"
  BY CircleSteps
<1>2. Fits(request, call[t], h)
  BY <1>1 DEF LocksFit
<1>3. CASE call[t].op = "move" /\ call[t].step > 1
  BY <1>3, MoveInCircle
<1>4. CASE call[t].op = "accept" /\ call[t].step > 4
  BY <1>4, CircleSteps
<1>5. QED
  BY <1>1, <1>2, <1>3, <1>4 DEF Fits

\* In a circle an accept waits for its repository.
LEMMA AcceptInCircle ==
    ASSUME RegistryInv, LocksFit, NEW D, Circle(D), NEW s \in D, call[s].op = "accept"
    PROVE  call[s].step = 0
<1>. DEFINE c == call[s]
<1>. SUFFICES ASSUME c.step # 0 PROVE FALSE
  OBVIOUS
<1>1. PICK t \in D, k \in Wants(c) : \E h \in rowLock[t] :
            s # t /\ k.row = h.row /\ {k.mode, h.mode} \in Clashing
  BY CircleBlocks
<1>2. PICK h \in rowLock[t] : s # t /\ k.row = h.row /\ {k.mode, h.mode} \in Clashing
  BY <1>1
<1>3. c \in Calls /\ c.step \in Nat /\ c.step > 0 /\ AcceptGuard(s) /\ c.id \in DOMAIN request
  BY CircleSteps DEF Guarded, AcceptGuard
<1>4. CASE k \in RequestLocks({c.id}, "update")
  <2>1. k.row = <<"request", c.id>>
    BY <1>4, RequestLocksFacts
  <2>2. HoldsRepo(s, request[c.id].repo)
    BY <1>3 DEF AcceptGuard
  <2>3. QED
    BY <1>2, <1>3, <2>1, <2>2, NobodyWaitsForRequest
<1>5. CASE k \in SourceLock(request[c.id].from[1])
  <2>1. k.row[1] = "namespace" /\ k.mode = "share"
    BY <1>5, LockFacts DEF SourceLock
  <2>2. QED
    BY <1>2, <2>1, NobodyWaitsForNamespace
<1>6. CASE k = Lock("user", request[c.id].by, "share")
  <2>1. k.row[1] = "user" /\ k.mode = "share" /\ h.row[1] = "user"
    BY <1>2, <1>6, LockFacts
  <2>2. t \in Sessions /\ ~(call[t].op = "account" /\ call[t].step > 1)
    BY CircleSteps
  <2>3. h.mode = "share"
    BY <2>1, <2>2 DEF LocksFit, Fits
  <2>4. QED
    BY <1>2, <2>1, <2>3, SharedFacts
<1>7. CASE k \in NewPlace(request[c.id].to)
  <2>1. k.row[1] = "place" \/ (k.row[1] = "namespace" /\ k.mode = "keyshare")
    BY <1>7, NewPlaceFacts
  <2>2. QED
    BY <1>2, <2>1, NobodyWaitsForPlace, NobodyWaitsForNamespace
<1>8. QED
  BY <1>3, <1>4, <1>5, <1>6, <1>7, AcceptWants

\* In a circle nobody has locked anything.
LEMMA NobodyHolds ==
    ASSUME RegistryInv, LocksFit, NEW D, Circle(D), NEW s \in D
    PROVE  rowLock[s] = {}
<1>. DEFINE c == call[s]
<1>. SUFFICES ASSUME c.step # 0 PROVE FALSE
  BY CircleSteps
<1>1. PICK t \in D, k \in Wants(c) : \E h \in rowLock[t] :
            s # t /\ k.row = h.row /\ {k.mode, h.mode} \in Clashing
  BY CircleBlocks
<1>2. PICK h \in rowLock[t] : s # t /\ k.row = h.row /\ {k.mode, h.mode} \in Clashing
  BY <1>1
<1>3. c \in Calls /\ c.step \in Nat /\ c.step > 0
  BY CircleSteps
<1>4. CASE c.op = "move"
  <2>1. k \in NewPlace(c.to)
    BY <1>3, <1>4, MoveInCircle, MoveWants
  <2>2. k.row[1] = "place" \/ (k.row[1] = "namespace" /\ k.mode = "keyshare")
    BY <2>1, NewPlaceFacts
  <2>3. QED
    BY <1>2, <2>2, NobodyWaitsForPlace, NobodyWaitsForNamespace
<1>5. CASE c.op = "account"
  <2>1. h.row[1] = "user"
    BY <1>2, <1>3, <1>5, AccountWants, LockFacts
  <2>2. t \in Sessions /\ ~(call[t].op = "account" /\ call[t].step > 1)
    BY CircleSteps
  <2>3. call[t].op = "accept"
    BY <2>1, <2>2 DEF LocksFit, Fits
  <2>4. rowLock[t] = {}
    BY <2>3, AcceptInCircle, CircleSteps
  <2>5. QED
    BY <2>4
<1>6. c.op = "move" \/ c.op = "account"
  BY CircleSteps, FileInCircle, AcceptInCircle, DeleteInCircle
<1>7. QED
  BY <1>4, <1>5, <1>6

\* So there is no circle.
LEMMA NoCircle ==
    ASSUME RegistryInv, LocksFit PROVE NoLockCycle
<1>1. ASSUME NEW D \in SUBSET {s \in Sessions : call[s].op # "dissolve"}, D # {},
             \A s \in D : \E t \in D : Blocked(s, t)
      PROVE  FALSE
  <2>1. Circle(D)
    BY <1>1 DEF Circle
  <2>2. PICK s \in D : TRUE
    BY <1>1
  <2>3. PICK t \in D : rowLock[t] # {}
    BY <2>1, <2>2, CircleBlocks
  <2>4. QED
    BY <2>1, <2>3, NobodyHolds
<1>2. QED
  BY <1>1 DEF NoLockCycle

\* Transactions on members, accounts, names and transfers never wait for each other
\* in a circle, however many run: a lock is only ever waited for by who holds none
\* that its holder needs (transfers.go:465-468 and 588-597).  The deletion of an
\* organisation is the exception NoLockCycle makes.
THEOREM LocksOrdered == RegistrySpec => []NoLockCycle
<1>1. RegistryInit => RegistryInv /\ LocksFit
  <2>1. ASSUME RegistryInit PROVE LocksFit
    <3>1. \A s \in Sessions : rowLock[s] = {}
      BY <2>1 DEF RegistryInit, NoCalls
    <3>2. QED
      BY <3>1 DEF LocksFit
  <2>2. QED
    BY <2>1, InitInv
<1>2. RegistryInv /\ LocksFit /\ [RegistryNext]_registryVars => (RegistryInv /\ LocksFit)'
  BY RegistryInvStep, LocksFitStep
<1>3. RegistryInv /\ LocksFit => NoLockCycle
  BY NoCircle
<1>4. QED
  BY <1>1, <1>2, <1>3, PTL DEF RegistrySpec

=============================================================================
