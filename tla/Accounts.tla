----------------------------- MODULE Accounts ------------------------------
(***************************************************************************)
(* Staff accounts, their sessions and the single-use invitations that make *)
(* them.  Every request is one PostgreSQL transaction on a thread of its   *)
(* own: it resolves who asks, reads, and writes; other requests commit in  *)
(* between.  A conditional UPDATE looks at the row again when it writes, a *)
(* plain one does not.                                                     *)
(*                                                                         *)
(* A password is known by its version.  Whoever types one types the        *)
(* password the account had when the request began.                        *)
(***************************************************************************)
EXTENDS Naturals, FiniteSets

CONSTANTS
    Users,
    Founder,        \* the administrator the system starts with
    Invitations,
    Requests,       \* requests that may be under way at once
    MaxPasswords,   \* a bound
    MaxSessions     \* a bound: sessions alive at once

ASSUME AccountsAssumption ==
    /\ Founder \in Users /\ MaxPasswords \in Nat /\ MaxSessions \in Nat \ {0}

VARIABLES
    account,     \* users
    sessions,    \* the sessions that are not revoked or expired
    invitation,  \* the token invitations
    request,     \* each request: what it asks, what it read
    accepted,    \* history: acceptances of each invitation
    raced        \* history: kinds of transactions that overlapped another of their kind

vars == <<account, sessions, invitation, request, accepted, raced>>

Roles == {"admin", "professor"}
NoAccount == [state |-> "none", role |-> "professor", password |-> 0]
Accounts == [state : {"none", "active", "disabled"}, role : Roles, password : 0 .. MaxPasswords]
NoInvitation == [status |-> "none", kind |-> "reset", target |-> Founder]
NoRequest == [at |-> "idle", kind |-> "none", target |-> Founder, typed |-> 0, sid |-> 0, item |-> {}]

IsAdmin(u) == account[u].state = "active" /\ account[u].role = "admin"
ActiveAdmins == {u \in Users : IsAdmin(u)}
SessionsOf(u) == {s \in sessions : s.user = u}
SignedIn(u) == SessionsOf(u) # {} /\ account[u].state = "active"

Init ==
    /\ account \in {a \in [Users -> {NoAccount,
                                     [state |-> "active", role |-> "admin", password |-> 0],
                                     [state |-> "active", role |-> "professor", password |-> 0]}] :
                      a[Founder].role = "admin"}
    /\ sessions = {}
    /\ invitation = [i \in Invitations |-> NoInvitation]
    /\ request = [r \in Requests |-> NoRequest]
    /\ accepted = [i \in Invitations |-> 0]
    /\ raced = {}

---------------------------------------------------------------------------
(* Sessions and requests.                                                  *)

\* No session has an identifier that a request still holds.
FreeSessions(kept) ==
    1 .. MaxSessions \ ({s.n : s \in kept} \cup {request[r].sid : r \in Requests})

\* create_session
Opens(u, password, kept) ==
    /\ FreeSessions(kept) # {}
    /\ sessions' = kept \cup {[user |-> u, password |-> password,
                               n |-> CHOOSE n \in FreeSessions(kept) : TRUE]}

RequestEnds(r) == request' = [request EXCEPT ![r] = NoRequest]

Working(kinds, r) == \E q \in Requests \ {r} : request[q].at = "work" /\ request[q].kind \in kinds

Removals == {"disable", "demote"}
NewPasswords == {"password", "accept"}

\* The transaction has read what it decides on.  Two removals that overlap both
\* count the administrators before either has removed one; a sign-in that
\* overlaps a new password may have verified the old one.
Reads(r, record) ==
    /\ request' = [request EXCEPT ![r] = record]
    /\ raced' = raced
         \cup {k \in {"removal"} : record.kind \in Removals /\ Working(Removals, r)}
         \cup {k \in {"login"} : \/ record.kind = "login" /\ Working(NewPasswords, r)
                                 \/ record.kind \in NewPasswords /\ Working({"login"}, r)}

NothingCommitted == UNCHANGED <<account, sessions, invitation, accepted>>

\* resolve_principal, in a transaction of its own: the account must be active
\* and hold a live session.  require_admin: for an administrator's request.
Resolves(r, u, record) ==
    /\ request[r].at = "idle" /\ SignedIn(u)
    /\ request' = [request EXCEPT ![r] = record]
    /\ NothingCommitted /\ UNCHANGED raced

AsksForPassword(r, u) ==
    \E s \in SessionsOf(u) :
        Resolves(r, u, [NoRequest EXCEPT !.at = "resolved", !.kind = "password", !.target = u,
                                         !.typed = account[u].password, !.sid = s.n])

AsksAsAdmin(r, u, kind, target) ==
    /\ IsAdmin(u)
    /\ kind \in Removals => target # u        \* not your own account
    /\ Resolves(r, u, [NoRequest EXCEPT !.at = "resolved", !.kind = kind, !.target = target])

Refused(r) ==
    /\ request[r].at # "idle"
    /\ RequestEnds(r)
    /\ NothingCommitted /\ UNCHANGED raced

---------------------------------------------------------------------------
(* login, logout, and the password of one's own account.                   *)

\* The credentials are read and the password is verified, which takes time.
LoginReads(r, u) ==
    /\ request[r].at = "idle" /\ account[u].state = "active"
    /\ Reads(r, [NoRequest EXCEPT !.at = "work", !.kind = "login", !.target = u,
                                  !.typed = account[u].password])
    /\ NothingCommitted

\* An old hash is replaced by a new one of the password that was typed.
LoginCommits(r) ==
    /\ request[r].at = "work" /\ request[r].kind = "login"
    /\ account' \in {account, [account EXCEPT ![request[r].target].password = request[r].typed]}
    /\ Opens(request[r].target, request[r].typed, sessions)
    /\ RequestEnds(r)
    /\ UNCHANGED <<invitation, accepted, raced>>

\* logout, or an idle or absolute deadline that has passed.
SessionEnds(s) ==
    /\ sessions' = sessions \ {s}
    /\ UNCHANGED <<account, invitation, request, accepted, raced>>

\* change_password: the current password is read again in the transaction.
ChangeReads(r) ==
    /\ request[r].at = "resolved" /\ request[r].kind = "password"
    /\ account[request[r].target].password = request[r].typed
    /\ Reads(r, [request[r] EXCEPT !.at = "work"])
    /\ NothingCommitted

\* Mutant: the other sessions go on.
EndsOthersNone(u, n) == sessions

\* revoke_sessions_for_user with keep_session_id
EndsOthers(u, n) == {s \in sessions : s.user # u \/ s.n = n}

ChangeCommits(r) ==
    LET u == request[r].target
        new == account[u].password + 1
        kept == EndsOthers(u, request[r].sid)
    IN
    /\ request[r].at = "work" /\ request[r].kind = "password"
    /\ new <= MaxPasswords
    /\ account' = [account EXCEPT ![u].password = new]
    /\ sessions' = {IF s.user = u /\ s.n = request[r].sid THEN [s EXCEPT !.password = new] ELSE s :
                      s \in kept}
    /\ RequestEnds(r)
    /\ UNCHANGED <<invitation, accepted, raced>>

---------------------------------------------------------------------------
(* Invitations.                                                            *)

Mints(i, kind, target) ==
    /\ invitation[i].status = "none"
    /\ invitation' = [invitation EXCEPT ![i] = [status |-> "active", kind |-> kind, target |-> target]]
    /\ UNCHANGED <<account, sessions, accepted>>

\* create_invitation
CreateInvitation(r, i) ==
    /\ request[r].at = "resolved" /\ request[r].kind = "invite"
    /\ \E role \in Roles : Mints(i, role, Founder)
    /\ RequestEnds(r) /\ UNCHANGED raced

\* create_reset_invitation
CreateReset(r, i) ==
    /\ request[r].at = "resolved" /\ request[r].kind = "reset"
    /\ account[request[r].target].state = "active"
    /\ Mints(i, "reset", request[r].target)
    /\ RequestEnds(r) /\ UNCHANGED raced

\* mint_bootstrap_invitation: from the command line, refused while there is an
\* administrator.
Bootstrap(i) ==
    /\ ActiveAdmins = {}
    /\ Mints(i, "admin", Founder)
    /\ UNCHANGED <<request, raced>>

\* revoke, or the deadline passes.
Revoke(i) ==
    /\ invitation[i].status = "active"
    /\ invitation' = [invitation EXCEPT ![i] = [NoInvitation EXCEPT !.status = "revoked"]]
    /\ UNCHANGED <<account, sessions, request, accepted, raced>>

\* accept_invitation: _redeemable_invitation.
AcceptReads(r, i, u) ==
    /\ request[r].at = "idle" /\ invitation[i].status = "active"
    /\ invitation[i].kind = "reset" => u = invitation[i].target
    /\ Reads(r, [NoRequest EXCEPT !.at = "work", !.kind = "accept", !.target = u, !.item = {i}])
    /\ NothingCommitted

\* consume: the conditional UPDATE.
Consume(i) ==
    /\ invitation[i].status = "active"
    /\ invitation' = [invitation EXCEPT ![i] = [NoInvitation EXCEPT !.status = "used"]]
    /\ accepted' = [accepted EXCEPT ![i] = @ + 1]

\* The account (or its new password), its memberships, the consume and the
\* session commit together; otherwise the request is refused and nothing does.
AcceptCommits(r) ==
    LET u == request[r].target
        new == account[u].password + 1
    IN
    /\ request[r].at = "work" /\ request[r].kind = "accept"
    /\ \E i \in request[r].item :
        /\ Consume(i)
        /\ \/ /\ invitation[i].kind = "reset" /\ new <= MaxPasswords
              /\ account' = [account EXCEPT ![u].password = new]
              /\ Opens(u, new, sessions \ SessionsOf(u))
           \/ /\ invitation[i].kind # "reset" /\ account[u].state = "none"
              /\ account' = [account EXCEPT ![u] = [state |-> "active", role |-> invitation[i].kind,
                                                    password |-> 0]]
              /\ Opens(u, 0, sessions)
    /\ RequestEnds(r) /\ UNCHANGED raced

---------------------------------------------------------------------------
(* Administration.                                                         *)

\* Mutant: an administrator is enough.
GuardedNever(target) == TRUE

\* _guard_last_admin
Guarded(target) == IsAdmin(target) => Cardinality(ActiveAdmins) > 1

\* update_user: the target and the number of administrators are read.  A change
\* that changes nothing is not made.
Takes(kind, target) ==
    \/ kind = "disable" /\ account[target].state = "active"
    \/ kind = "demote" /\ account[target].state # "none" /\ account[target].role = "admin"

UpdateReads(r) ==
    /\ request[r].at = "resolved" /\ Takes(request[r].kind, request[r].target)
    /\ Guarded(request[r].target)
    /\ Reads(r, [request[r] EXCEPT !.at = "work"])
    /\ NothingCommitted

UpdateCommits(r) ==
    LET target == request[r].target IN
    /\ request[r].at = "work"
    /\ \/ /\ request[r].kind = "disable"
          /\ account' = [account EXCEPT ![target].state = "disabled"]
          /\ sessions' = sessions \ SessionsOf(target)
       \/ /\ request[r].kind = "demote"
          /\ account' = [account EXCEPT ![target].role = "professor"]
          /\ UNCHANGED sessions
    /\ RequestEnds(r)
    /\ UNCHANGED <<invitation, accepted, raced>>

\* update_user again: enabling and promoting depend on nothing that was read.
Restores(r) ==
    LET target == request[r].target IN
    /\ request[r].at = "resolved" /\ request[r].kind = "restore" /\ account[target].state # "none"
    /\ account' \in {[account EXCEPT ![target].state = "active"],
                     [account EXCEPT ![target].role = "admin"]}
    /\ RequestEnds(r)
    /\ UNCHANGED <<sessions, invitation, accepted, raced>>

Administers(r, u) ==
    \/ AsksAsAdmin(r, u, "invite", Founder)
    \/ \E kind \in Removals \cup {"restore", "reset"}, target \in Users : AsksAsAdmin(r, u, kind, target)

Next ==
    \/ \E r \in Requests :
          \/ \E u \in Users : LoginReads(r, u) \/ AsksForPassword(r, u) \/ Administers(r, u)
          \/ LoginCommits(r) \/ ChangeReads(r) \/ ChangeCommits(r) \/ UpdateReads(r)
          \/ UpdateCommits(r) \/ Restores(r) \/ AcceptCommits(r) \/ Refused(r)
          \/ \E i \in Invitations :
                CreateInvitation(r, i) \/ CreateReset(r, i) \/ \E u \in Users : AcceptReads(r, i, u)
    \/ \E s \in sessions : SessionEnds(s)
    \/ \E i \in Invitations : Revoke(i) \/ Bootstrap(i)

Spec == Init /\ [][Next]_vars

---------------------------------------------------------------------------
(* Properties.                                                             *)

TypeOK ==
    /\ account \in [Users -> Accounts]
    /\ sessions \subseteq [user : Users, password : 0 .. MaxPasswords, n : 1 .. MaxSessions]
    /\ invitation \in [Invitations -> [status : {"none", "active", "used", "revoked"},
                                       kind : {"reset"} \cup Roles, target : Users]]
    /\ \A r \in Requests : request[r].at \in {"idle", "resolved", "work"}

\* Somebody is always an active administrator, also when the one who asks was
\* demoted or disabled after the request began: only two changes that both read
\* before either wrote could take the last one away (admin_routes.py
\* _guard_last_admin).
SomeAdmin == "removal" \in raced \/ ActiveAdmins # {}

\* A session was opened with, or kept through a change to, the password its
\* account has now: a new password ends every other session, unless a sign-in
\* was between its read and its commit (auth_routes.py change_password and
\* accept_invitation).
SessionsFollowPassword ==
    "login" \in raced \/ \A s \in sessions : s.password = account[s.user].password

\* An invitation is accepted at most once, and a revoked one never, however many
\* acceptances read it while it was good (db_invitations.py consume).
InvitationsOnce ==
    \A i \in Invitations :
        accepted[i] <= 1 /\ (accepted[i] = 1 => invitation[i].status = "used")

AccountsSafety == TypeOK /\ SomeAdmin /\ InvitationsOnce

=============================================================================
