---------------------------- MODULE PeopleProofs ----------------------------
(* Proofs about the people of the system: staff accounts with their         *)
(* sessions and invitations, and the participants of a classroom with       *)
(* their comparisons and ratings.  For any users, requests, invitations,    *)
(* tabs, courses and bounds.                                                *)
EXTENDS Accounts, Ratings, SequenceTheorems, FiniteSetTheorems, TLAPS

---------------------------------------------------------------------------
(* Staff: the invariant.                                                   *)

Kinds == {"none", "login", "password", "accept", "invite", "reset", "restore"} \cup Removals
Request == [at : {"idle", "resolved", "work"}, kind : Kinds, target : Users,
            typed : 0..MaxPasswords, sid : 0..MaxSessions, item : SUBSET Invitations]
Invitation == [status : {"none", "active", "used", "revoked"}, kind : {"reset"} \cup Roles, target : Users]
Session == [user : Users, password : 0..MaxPasswords, n : 1..MaxSessions]

Removing == {r \in Requests : request[r].at = "work" /\ request[r].kind \in Removals}
SigningIn == {r \in Requests : request[r].at = "work" /\ request[r].kind = "login"}
Renewing == {r \in Requests : request[r].at = "work" /\ request[r].kind \in NewPasswords}

\* Sign-ins, changes and resets concern accounts that exist; an acceptance holds an
\* invitation that was good when it was read.
Sound(t, accounts, invitations) ==
    /\ t.kind \in {"login", "password"} => accounts[t.target].state # "none"
    /\ \A i \in t.item :
        /\ invitations[i].status # "none"
        /\ invitations[i].status = "active" /\ invitations[i].kind = "reset"
              => t.target = invitations[i].target

RecordsInv ==
    /\ request \in [Requests -> Request]
    /\ \A r \in Requests : Sound(request[r], account, invitation)
    /\ \A s \in sessions : account[s.user].state # "none"
    /\ \A i \in Invitations : invitation[i].status = "active" /\ invitation[i].kind = "reset"
                                => account[invitation[i].target].state # "none"

\* A removal that may still commit leaves another administrator, and is the only one.
AdminInv ==
    \/ "removal" \in raced
    \/ /\ ActiveAdmins # {}
       /\ \A r \in Removing : \E u \in ActiveAdmins : u # request[r].target
       /\ \A q, r \in Removing : q = r

\* A sign-in that may still commit verified the password of now.
PasswordInv ==
    \/ "login" \in raced
    \/ /\ \A s \in sessions : s.password = account[s.user].password
       /\ \A r \in SigningIn : request[r].typed = account[request[r].target].password
       /\ SigningIn = {} \/ Renewing = {}

AcceptedOnce == accepted \in [Invitations -> {0, 1}] /\ InvitationsOnce

AccountsInv == TypeOK /\ RecordsInv /\ AdminInv /\ PasswordInv /\ AcceptedOnce

LEMMA AccountsInit == Init => AccountsInv
<1> SUFFICES ASSUME Init PROVE AccountsInv
  OBVIOUS
<1>1. /\ account \in [Users -> Accounts] /\ IsAdmin(Founder) /\ Founder \in Users
      /\ sessions = {} /\ invitation = [i \in Invitations |-> NoInvitation]
      /\ request = [r \in Requests |-> NoRequest] /\ accepted = [i \in Invitations |-> 0]
  <2>1. account \in [Users -> {NoAccount, [state |-> "active", role |-> "admin", password |-> 0],
                               [state |-> "active", role |-> "professor", password |-> 0]}]
        /\ account[Founder].role = "admin" /\ Founder \in Users
    BY AccountsAssumption DEF Init
  <2>2. account \in [Users -> Accounts]
    BY <2>1, AccountsAssumption DEF NoAccount, Accounts, Roles
  <2>3. IsAdmin(Founder)
    BY <2>1 DEF NoAccount, IsAdmin
  <2> QED  BY <2>1, <2>2, <2>3 DEF Init
<1>2. NoRequest \in Request /\ NoInvitation \in Invitation
  BY <1>1, AccountsAssumption DEF NoRequest, NoInvitation, Request, Kinds, Invitation
<1>3. TypeOK
  BY <1>1, <1>2 DEF TypeOK, NoRequest, Invitation
<1>4. RecordsInv
  BY <1>1, <1>2 DEF RecordsInv, Sound, NoRequest, NoInvitation
<1>5. Removing = {} /\ SigningIn = {} /\ Founder \in ActiveAdmins
  BY <1>1 DEF Removing, SigningIn, ActiveAdmins, NoRequest
<1>6. AdminInv /\ PasswordInv
  BY <1>1, <1>5 DEF AdminInv, PasswordInv
<1>7. AcceptedOnce
  BY <1>1 DEF AcceptedOnce, InvitationsOnce
<1> QED  BY <1>3, <1>4, <1>6, <1>7 DEF AccountsInv

---------------------------------------------------------------------------
(* Staff: what a step keeps.                                               *)

\* A request gets a new record, the others keep theirs.
LEMMA RecordsMove ==
    ASSUME RecordsInv, NEW r \in Requests, NEW t \in Request, request' = [request EXCEPT ![r] = t],
           Sound(t, account', invitation'),
           \A u \in Users : account[u].state # "none" => account'[u].state # "none",
           \A i \in Invitations :
                \/ invitation'[i] = invitation[i]
                \/ invitation'[i].status \notin {"none", "active"}
                \/ /\ invitation[i].status = "none" /\ invitation'[i].status # "none"
                   /\ invitation'[i].target \in Users
                   /\ invitation'[i].kind = "reset" => account'[invitation'[i].target].state # "none",
           TypeOK,
           \A s \in sessions' : s \in sessions \/ account'[s.user].state # "none" \/ \E z \in sessions : z.user = s.user
    PROVE  RecordsInv' /\ request'[r] = t /\ \A q \in Requests : q # r => request'[q] = request[q]
<1>1. /\ request' \in [Requests -> Request] /\ request'[r] = t
      /\ \A q \in Requests : q # r => request'[q] = request[q]
  BY DEF RecordsInv
<1>2. ASSUME NEW q \in Requests, q # r PROVE Sound(request[q], account', invitation')
  <2>1. request[q] \in Request /\ Sound(request[q], account, invitation)
    BY DEF RecordsInv
  <2>2. request[q].target \in Users /\ request[q].item \subseteq Invitations
    BY <2>1 DEF Request
  <2> QED  BY <2>1, <2>2 DEF Sound
<1>3. \A q \in Requests : Sound(request'[q], account', invitation')
  BY <1>1, <1>2
<1>4. \A s \in sessions' : account'[s.user].state # "none"
  <2>1. \A s \in sessions : s.user \in Users /\ account[s.user].state # "none"
    BY DEF RecordsInv, TypeOK
  <2> QED  BY <2>1
<1>5. ASSUME NEW i \in Invitations, invitation'[i].status = "active", invitation'[i].kind = "reset"
      PROVE  account'[invitation'[i].target].state # "none"
  <2>1. CASE invitation'[i] = invitation[i]
    <3>1. invitation[i].target \in Users
      BY DEF TypeOK
    <3> QED  BY <1>5, <2>1, <3>1 DEF RecordsInv
  <2> QED  BY <1>5, <2>1
<1> QED  BY <1>1, <1>3, <1>4, <1>5 DEF RecordsInv

\* No administrator is lost, and no removal begins.
LEMMA AdminsKept ==
    ASSUME AdminInv, raced \subseteq raced', \A u \in Users : IsAdmin(u) => IsAdmin(u)',
           \A q \in Removing' : q \in Removing /\ request'[q] = request[q]
    PROVE  AdminInv'
<1>1. ActiveAdmins \subseteq ActiveAdmins'
  BY DEF ActiveAdmins
<1>2. CASE "removal" \in raced
  BY <1>2 DEF AdminInv
<1>3. CASE ~("removal" \in raced)
  <2>1. /\ ActiveAdmins # {}
        /\ \A r \in Removing : \E u \in ActiveAdmins : u # request[r].target
        /\ \A q, r \in Removing : q = r
    BY <1>3 DEF AdminInv
  <2>2. ActiveAdmins' # {} /\ \A r \in Removing' : \E u \in ActiveAdmins' : u # request'[r].target
    BY <1>1, <2>1
  <2>3. \A q, r \in Removing' : q = r
    BY <2>1
  <2> QED  BY <2>2, <2>3 DEF AdminInv
<1> QED  BY <1>2, <1>3

\* A step of one request that commits nothing.
LEMMA RequestMoves ==
    ASSUME AccountsInv, NEW r \in Requests, NEW t \in Request, request' = [request EXCEPT ![r] = t],
           NothingCommitted, Sound(t, account, invitation), raced \subseteq raced',
           ~("removal" \in raced') /\ t.at = "work" /\ t.kind \in Removals
                => (\E u \in ActiveAdmins : u # t.target) /\ \A q \in Removing : q = r,
           ~("login" \in raced') /\ t.at = "work" /\ t.kind = "login"
                => t.typed = account[t.target].password /\ \A q \in Renewing : q = r,
           ~("login" \in raced') /\ t.at = "work" /\ t.kind \in NewPasswords => \A q \in SigningIn : q = r
    PROVE  AccountsInv'
<1>1. TypeOK /\ RecordsInv /\ AdminInv /\ PasswordInv /\ AcceptedOnce
  BY DEF AccountsInv
<1>2. UNCHANGED <<account, sessions, invitation, accepted>>
  BY DEF NothingCommitted
<1>3. RecordsInv' /\ request'[r] = t /\ \A q \in Requests : q # r => request'[q] = request[q]
  BY <1>1, <1>2, RecordsMove
<1>4. TypeOK'
  <2>1. \A q \in Requests : request'[q].at \in {"idle", "resolved", "work"}
    BY <1>3 DEF RecordsInv, Request
  <2> QED  BY <1>1, <1>2, <2>1 DEF TypeOK
<1>5. AdminInv'
  <2>1. ActiveAdmins' = ActiveAdmins
    BY <1>2 DEF ActiveAdmins, IsAdmin
  <2>2. \A q \in Requests : q # r => (q \in Removing' <=> q \in Removing)
    BY <1>3 DEF Removing
  <2>3. r \in Removing' <=> t.at = "work" /\ t.kind \in Removals
    BY <1>3 DEF Removing
  <2>4. Removing' \subseteq Requests /\ Removing \subseteq Requests
    BY DEF Removing
  <2>5. SUFFICES ASSUME ~("removal" \in raced')
        PROVE  /\ ActiveAdmins # {}
               /\ \A q \in Removing' : \E u \in ActiveAdmins : u # request'[q].target
               /\ \A p, q \in Removing' : p = q
    BY <2>1 DEF AdminInv
  <2>6. /\ ActiveAdmins # {}
        /\ \A q \in Removing : \E u \in ActiveAdmins : u # request[q].target
        /\ \A p, q \in Removing : p = q
    BY <1>1, <2>5 DEF AdminInv
  <2>7. \A q \in Removing' : \E u \in ActiveAdmins : u # request'[q].target
    BY <1>3, <2>2, <2>3, <2>4, <2>5, <2>6
  <2>8. \A p, q \in Removing' : p = q
    BY <2>2, <2>3, <2>4, <2>5, <2>6
  <2> QED  BY <2>6, <2>7, <2>8
<1>6. PasswordInv'
  <2>1. /\ \A q \in Requests : q # r => (q \in SigningIn' <=> q \in SigningIn) /\ (q \in Renewing' <=> q \in Renewing)
        /\ r \in SigningIn' <=> t.at = "work" /\ t.kind = "login"
        /\ r \in Renewing' <=> t.at = "work" /\ t.kind \in NewPasswords
    BY <1>3 DEF SigningIn, Renewing
  <2>2. SigningIn' \subseteq Requests /\ Renewing' \subseteq Requests
    BY DEF SigningIn, Renewing
  <2>3. SUFFICES ASSUME ~("login" \in raced')
        PROVE  /\ \A s \in sessions : s.password = account[s.user].password
               /\ \A q \in SigningIn' : request'[q].typed = account[request'[q].target].password
               /\ SigningIn' = {} \/ Renewing' = {}
    BY <1>2 DEF PasswordInv
  <2>4. /\ \A s \in sessions : s.password = account[s.user].password
        /\ \A q \in SigningIn : request[q].typed = account[request[q].target].password
        /\ SigningIn = {} \/ Renewing = {}
    BY <1>1, <2>3 DEF PasswordInv
  <2>5. \A q \in SigningIn' : request'[q].typed = account[request'[q].target].password
    BY <1>3, <2>1, <2>2, <2>3, <2>4
  <2>6. SigningIn' = {} \/ Renewing' = {}
    <3>1. CASE r \in SigningIn'
      <4>1. "login" \notin NewPasswords
        BY DEF NewPasswords
      <4>2. \A q \in Renewing' : FALSE
        BY <2>1, <2>2, <2>3, <3>1, <4>1
      <4> QED  BY <4>2
    <3>2. CASE r \in Renewing'
      <4>1. "login" \notin NewPasswords
        BY DEF NewPasswords
      <4>2. \A q \in SigningIn' : FALSE
        BY <2>1, <2>2, <2>3, <3>2, <4>1
      <4> QED  BY <4>2
    <3>3. CASE r \notin SigningIn' /\ r \notin Renewing'
      <4>1. SigningIn' \subseteq SigningIn /\ Renewing' \subseteq Renewing
        BY <2>1, <2>2, <3>3
      <4> QED  BY <2>4, <4>1
    <3> QED  BY <3>1, <3>2, <3>3
  <2> QED  BY <2>4, <2>5, <2>6
<1>7. AcceptedOnce'
  BY <1>1, <1>2 DEF AcceptedOnce, InvitationsOnce
<1> QED  BY <1>3, <1>4, <1>5, <1>6, <1>7 DEF AccountsInv

\* A request commits: whoever was an administrator still is, or it was the one
\* removal; whoever has a session has it with the password of now.
LEMMA Commits ==
    ASSUME AccountsInv, NEW r \in Requests, RequestEnds(r), UNCHANGED raced,
           account' \in [Users -> Accounts], sessions' \subseteq Session,
           invitation' \in [Invitations -> Invitation], AcceptedOnce',
           \A u \in Users : account[u].state # "none" => account'[u].state # "none",
           \A i \in Invitations :
                \/ invitation'[i] = invitation[i]
                \/ invitation'[i].status \notin {"none", "active"}
                \/ /\ invitation[i].status = "none" /\ invitation'[i].status # "none"
                   /\ invitation'[i].kind = "reset" => account'[invitation'[i].target].state # "none",
           \A s \in sessions' : account'[s.user].state # "none" \/ \E z \in sessions : z.user = s.user,
           \/ \A u \in Users : IsAdmin(u) => IsAdmin(u)'
           \/ r \in Removing /\ \A u \in Users : u # request[r].target /\ IsAdmin(u) => IsAdmin(u)',
           ~("login" \in raced) => \A s \in sessions' : s.password = account'[s.user].password,
           ~("login" \in raced) => \/ \A u \in Users : account'[u].password = account[u].password
                                  \/ r \in Renewing
    PROVE  AccountsInv'
<1>1. TypeOK /\ RecordsInv /\ AdminInv /\ PasswordInv
  BY DEF AccountsInv
<1>2. request' = [request EXCEPT ![r] = NoRequest]
  BY DEF RequestEnds
<1>3. NoRequest \in Request /\ Sound(NoRequest, account', invitation')
  BY AccountsAssumption DEF NoRequest, Request, Kinds, Sound
<1>4. \A i \in Invitations : invitation'[i].target \in Users
  BY DEF Invitation
<1>5. RecordsInv' /\ request'[r] = NoRequest /\ \A q \in Requests : q # r => request'[q] = request[q]
  BY <1>1, <1>2, <1>3, <1>4, RecordsMove
<1>6. TypeOK'
  <2>1. \A q \in Requests : request'[q].at \in {"idle", "resolved", "work"}
    BY <1>5 DEF RecordsInv, Request
  <2> QED  BY <2>1 DEF TypeOK, Session, Invitation
<1>7. /\ \A q \in Removing' : q \in Removing /\ q # r /\ request'[q] = request[q]
      /\ \A q \in SigningIn' : q \in SigningIn /\ request'[q] = request[q]
      /\ Renewing' \subseteq Renewing
  BY <1>5 DEF Removing, SigningIn, Renewing, NoRequest
<1>8. AdminInv'
  <2>1. CASE \A u \in Users : IsAdmin(u) => IsAdmin(u)'
    BY <1>1, <1>7, <2>1, AdminsKept
  <2>2. CASE r \in Removing /\ \A u \in Users : u # request[r].target /\ IsAdmin(u) => IsAdmin(u)'
    <3>1. CASE "removal" \in raced
      BY <3>1 DEF AdminInv
    <3>2. CASE ~("removal" \in raced)
      <4>1. /\ \E u \in ActiveAdmins : u # request[r].target
            /\ \A q \in Removing : q = r
        BY <1>1, <2>2, <3>2 DEF AdminInv
      <4>2. Removing' = {}
        BY <1>7, <4>1
      <4>3. ActiveAdmins' # {}
        BY <2>2, <4>1 DEF ActiveAdmins
      <4> QED  BY <4>2, <4>3 DEF AdminInv
    <3> QED  BY <3>1, <3>2
  <2> QED  BY <2>1, <2>2
<1>9. PasswordInv'
  <2>1. CASE "login" \in raced
    BY <2>1 DEF PasswordInv
  <2>2. CASE ~("login" \in raced)
    <3>1. /\ \A q \in SigningIn : request[q].typed = account[request[q].target].password
          /\ SigningIn = {} \/ Renewing = {}
      BY <1>1, <2>2 DEF PasswordInv
    <3>2. \A q \in SigningIn : request[q].target \in Users
      BY <1>1 DEF RecordsInv, SigningIn, Request
    <3>3. \A q \in SigningIn' : request'[q].typed = account'[request'[q].target].password
      <4>1. CASE r \in Renewing
        BY <1>7, <3>1, <4>1
      <4>2. CASE \A u \in Users : account'[u].password = account[u].password
        BY <1>7, <3>1, <3>2, <4>2
      <4> QED  BY <2>2, <4>1, <4>2
    <3>4. SigningIn' = {} \/ Renewing' = {}
      BY <1>7, <3>1
    <3> QED  BY <2>2, <3>3, <3>4 DEF PasswordInv
  <2> QED  BY <2>1, <2>2
<1> QED  BY <1>5, <1>6, <1>8, <1>9 DEF AccountsInv

\* A session ends, an invitation is revoked or made from the command line.
LEMMA Otherwise ==
    ASSUME AccountsInv, UNCHANGED <<account, request, accepted, raced>>, sessions' \subseteq sessions,
           invitation' \in [Invitations -> Invitation],
           \A i \in Invitations :
                \/ invitation'[i] = invitation[i]
                \/ invitation[i].status = "active" /\ invitation'[i].status = "revoked"
                \/ /\ invitation[i].status = "none" /\ invitation'[i].status # "none"
                   /\ invitation'[i].kind # "reset"
    PROVE  AccountsInv'
<1>1. TypeOK /\ RecordsInv /\ AdminInv /\ PasswordInv /\ AcceptedOnce
  BY DEF AccountsInv
<1>2. TypeOK'
  BY <1>1 DEF TypeOK, Invitation
<1>3. RecordsInv'
  <2>1. ASSUME NEW q \in Requests PROVE Sound(request[q], account, invitation')
    <3>1. request[q] \in Request /\ Sound(request[q], account, invitation)
      BY <1>1 DEF RecordsInv
    <3>2. request[q].item \subseteq Invitations
      BY <3>1 DEF Request
    <3> QED  BY <3>1, <3>2 DEF Sound
  <2>2. \A i \in Invitations : invitation'[i].status = "active" /\ invitation'[i].kind = "reset"
                                => account[invitation'[i].target].state # "none"
    BY <1>1 DEF RecordsInv
  <2> QED  BY <1>1, <2>1, <2>2 DEF RecordsInv
<1>4. AdminInv'
  <2>1. ActiveAdmins' = ActiveAdmins /\ Removing' = Removing
    BY DEF ActiveAdmins, IsAdmin, Removing
  <2> QED  BY <1>1, <2>1 DEF AdminInv
<1>5. PasswordInv'
  <2>1. SigningIn' = SigningIn /\ Renewing' = Renewing
    BY DEF SigningIn, Renewing
  <2> QED  BY <1>1, <2>1 DEF PasswordInv
<1>6. AcceptedOnce'
  BY <1>1 DEF AcceptedOnce, InvitationsOnce
<1> QED  BY <1>2, <1>3, <1>4, <1>5, <1>6 DEF AccountsInv

\* What the history tells of a transaction that has just read.
LEMMA ReadsAlone ==
    ASSUME NEW r \in Requests, NEW t, Reads(r, t)
    PROVE  /\ request' = [request EXCEPT ![r] = t] /\ raced \subseteq raced'
           /\ ~("removal" \in raced') /\ t.kind \in Removals => \A q \in Removing : q = r
           /\ ~("login" \in raced') /\ t.kind = "login" => \A q \in Renewing : q = r
           /\ ~("login" \in raced') /\ t.kind \in NewPasswords => \A q \in SigningIn : q = r
<1>1. request' = [request EXCEPT ![r] = t] /\ raced \subseteq raced'
  BY DEF Reads
<1>2. ~("removal" \in raced') /\ t.kind \in Removals => ~Working(Removals, r)
  BY DEF Reads
<1>3. ~("login" \in raced') /\ t.kind = "login" => ~Working(NewPasswords, r)
  BY DEF Reads
<1>4. ~("login" \in raced') /\ t.kind \in NewPasswords => ~Working({"login"}, r)
  BY DEF Reads
<1>5. /\ ~Working(Removals, r) => \A q \in Removing : q = r
      /\ ~Working(NewPasswords, r) => \A q \in Renewing : q = r
      /\ ~Working({"login"}, r) => \A q \in SigningIn : q = r
  BY DEF Working, Removing, Renewing, SigningIn
<1> QED  BY <1>1, <1>2, <1>3, <1>4, <1>5

---------------------------------------------------------------------------
(* Staff: the requests that read.                                          *)

LEMMA BlankRequest == NoRequest \in Request /\ 0 \in 0..MaxPasswords /\ 0 \in 0..MaxSessions
<1>1. 0 \in 0..MaxPasswords /\ 0 \in 0..MaxSessions /\ Founder \in Users
  BY AccountsAssumption
<1> QED  BY <1>1 DEF NoRequest, Request, Kinds

LEMMA AskKeeps ==
    ASSUME AccountsInv, NEW r \in Requests, NEW u \in Users,
           AsksForPassword(r, u) \/ Administers(r, u)
    PROVE  AccountsInv'
<1>1. TypeOK /\ RecordsInv /\ account \in [Users -> Accounts]
  BY DEF AccountsInv, TypeOK
<1>2. ASSUME NEW t \in Request, Resolves(r, u, t), t.at = "resolved", Sound(t, account, invitation)
      PROVE  AccountsInv'
  BY <1>2, RequestMoves DEF Resolves
<1>3. CASE AsksForPassword(r, u)
  <2>1. PICK s \in SessionsOf(u) :
          Resolves(r, u, [NoRequest EXCEPT !.at = "resolved", !.kind = "password", !.target = u,
                                           !.typed = account[u].password, !.sid = s.n])
    BY <1>3 DEF AsksForPassword
  <2> DEFINE t == [NoRequest EXCEPT !.at = "resolved", !.kind = "password", !.target = u,
                                    !.typed = account[u].password, !.sid = s.n]
  <2>2. account[u].password \in 0..MaxPasswords /\ s.n \in 0..MaxSessions /\ account[u].state # "none"
    <3>1. s \in Session /\ s.user = u
      BY <1>1 DEF SessionsOf, TypeOK, Session
    <3>2. s.n \in 0..MaxSessions
      BY <3>1, AccountsAssumption DEF Session
    <3>3. account[u].state # "none"
      BY <1>1, <3>1 DEF RecordsInv, SessionsOf
    <3> QED  BY <1>1, <3>2, <3>3 DEF Accounts
  <2>3. t \in Request /\ t.at = "resolved"
    BY <2>2, BlankRequest DEF Request, Kinds
  <2>4. Sound(t, account, invitation)
    BY <2>2 DEF NoRequest, Sound
  <2> HIDE DEF t
  <2> QED  BY <1>2, <2>1, <2>3, <2>4 DEF t
<1>4. ASSUME NEW kind \in {"invite", "restore", "reset"} \cup Removals, NEW target \in Users,
             AsksAsAdmin(r, u, kind, target)
      PROVE  AccountsInv'
  <2> DEFINE t == [NoRequest EXCEPT !.at = "resolved", !.kind = kind, !.target = target]
  <2>1. t \in Request /\ t.at = "resolved"
    BY BlankRequest DEF Request, Kinds
  <2>2. Sound(t, account, invitation)
    BY DEF NoRequest, Sound, Removals
  <2>3. Resolves(r, u, t)
    BY <1>4 DEF AsksAsAdmin
  <2> HIDE DEF t
  <2> QED  BY <1>2, <2>1, <2>2, <2>3
<1> QED  BY <1>3, <1>4, AccountsAssumption DEF Administers

LEMMA ReadKeeps ==
    ASSUME AccountsInv, NEW r \in Requests,
           \/ \E u \in Users : LoginReads(r, u)
           \/ ChangeReads(r) \/ UpdateReads(r) \/ Refused(r)
           \/ \E i \in Invitations, u \in Users : AcceptReads(r, i, u)
    PROVE  AccountsInv'
<1>1. /\ TypeOK /\ RecordsInv /\ AdminInv /\ account \in [Users -> Accounts]
      /\ request[r] \in Request /\ Sound(request[r], account, invitation)
  BY DEF AccountsInv, TypeOK, RecordsInv
<1>2. ASSUME NEW t \in Request, Reads(r, t), NothingCommitted, Sound(t, account, invitation),
             ~("removal" \in raced) /\ t.kind \in Removals => \E u \in ActiveAdmins : u # t.target,
             t.kind = "login" => t.typed = account[t.target].password
      PROVE  AccountsInv'
  <2>1. /\ request' = [request EXCEPT ![r] = t] /\ raced \subseteq raced'
        /\ ~("removal" \in raced') /\ t.kind \in Removals => \A q \in Removing : q = r
        /\ ~("login" \in raced') /\ t.kind = "login" => \A q \in Renewing : q = r
        /\ ~("login" \in raced') /\ t.kind \in NewPasswords => \A q \in SigningIn : q = r
    BY <1>2, ReadsAlone
  <2> QED  BY <1>2, <2>1, RequestMoves
<1>3. ASSUME NEW u \in Users, LoginReads(r, u) PROVE AccountsInv'
  <2> DEFINE t == [NoRequest EXCEPT !.at = "work", !.kind = "login", !.target = u,
                                    !.typed = account[u].password]
  <2>1. account[u].password \in 0..MaxPasswords /\ account[u].state = "active"
    BY <1>1, <1>3 DEF Accounts, LoginReads
  <2>2. t \in Request /\ t.kind = "login" /\ t.target = u /\ t.typed = account[u].password /\ t.item = {}
    <3>1. t \in Request
      BY <2>1, BlankRequest DEF Request, Kinds
    <3> QED  BY <3>1 DEF NoRequest
  <2>3. Reads(r, t) /\ NothingCommitted
    BY <1>3 DEF LoginReads
  <2> HIDE DEF t
  <2>4. Sound(t, account, invitation)
    BY <2>1, <2>2 DEF Sound
  <2> QED  BY <1>2, <2>2, <2>3, <2>4 DEF Removals
<1>4. CASE ChangeReads(r)
  <2> DEFINE t == [request[r] EXCEPT !.at = "work"]
  <2>1. t \in Request /\ t.kind = "password" /\ t.target = request[r].target /\ t.item = request[r].item
    BY <1>1, <1>4 DEF Request, ChangeReads
  <2>2. Reads(r, t) /\ NothingCommitted /\ request[r].kind = "password"
    BY <1>4 DEF ChangeReads
  <2> HIDE DEF t
  <2>3. Sound(t, account, invitation)
    BY <1>1, <2>1, <2>2 DEF Sound
  <2> QED  BY <1>2, <2>1, <2>2, <2>3 DEF Removals
<1>5. CASE UpdateReads(r)
  <2> DEFINE t == [request[r] EXCEPT !.at = "work"]
  <2>1. t \in Request /\ t.kind = request[r].kind /\ t.target = request[r].target /\ t.item = request[r].item
    BY <1>1 DEF Request
  <2>2. /\ Reads(r, t) /\ NothingCommitted /\ request[r].kind \in Removals /\ Guarded(request[r].target)
    BY <1>5 DEF UpdateReads, Takes, Removals
  <2> HIDE DEF t
  <2>3. Sound(t, account, invitation)
    BY <1>1, <2>1 DEF Sound
  <2>4. ~("removal" \in raced) => \E u \in ActiveAdmins : u # t.target
    <3>1. SUFFICES ASSUME ActiveAdmins # {}, ActiveAdmins \subseteq {t.target} PROVE FALSE
      BY <1>1 DEF AdminInv
    <3>2. ActiveAdmins = {t.target} /\ IsAdmin(t.target)
      BY <3>1 DEF ActiveAdmins
    <3>3. Cardinality({t.target}) = 1
      BY FS_Singleton
    <3>4. Cardinality(ActiveAdmins) > 1
      BY <2>1, <2>2, <3>2 DEF Guarded
    <3> QED  BY <3>2, <3>3, <3>4
  <2>5. t.kind # "login"
    BY <2>1, <2>2 DEF Removals
  <2> QED  BY <1>2, <2>1, <2>2, <2>3, <2>4, <2>5
<1>6. ASSUME NEW i \in Invitations, NEW u \in Users, AcceptReads(r, i, u) PROVE AccountsInv'
  <2> DEFINE t == [NoRequest EXCEPT !.at = "work", !.kind = "accept", !.target = u, !.item = {i}]
  <2>1. t \in Request /\ t.kind = "accept" /\ t.target = u /\ t.item = {i}
    BY BlankRequest DEF Request, Kinds
  <2>2. Reads(r, t) /\ NothingCommitted
    BY <1>6 DEF AcceptReads
  <2>3. invitation[i].status = "active" /\ (invitation[i].kind = "reset" => u = invitation[i].target)
    BY <1>6 DEF AcceptReads
  <2> HIDE DEF t
  <2>4. Sound(t, account, invitation)
    BY <2>1, <2>3 DEF Sound
  <2> QED  BY <1>2, <2>1, <2>2, <2>4 DEF Removals
<1>7. CASE Refused(r)
  <2>1. NoRequest \in Request /\ NoRequest.at = "idle" /\ Sound(NoRequest, account, invitation)
    BY AccountsAssumption DEF NoRequest, Request, Kinds, Sound
  <2>2. request' = [request EXCEPT ![r] = NoRequest] /\ NothingCommitted /\ raced \subseteq raced'
    BY <1>7 DEF Refused, RequestEnds
  <2> QED  BY <2>1, <2>2, RequestMoves
<1> QED  BY <1>3, <1>4, <1>5, <1>6, <1>7

---------------------------------------------------------------------------
(* Staff: the requests that commit.                                        *)

LEMMA Opened ==
    ASSUME NEW u \in Users, NEW password \in 0..MaxPasswords, NEW kept \in SUBSET Session,
           Opens(u, password, kept)
    PROVE  sessions' \subseteq Session /\ \A s \in sessions' : s \in kept \/ (s.user = u /\ s.password = password)
<1> DEFINE n == CHOOSE n \in FreeSessions(kept) : TRUE
           s == [user |-> u, password |-> password, n |-> n]
<1>1. n \in FreeSessions(kept)
  BY DEF Opens
<1>2. n \in 1..MaxSessions
  BY <1>1 DEF FreeSessions
<1>3. sessions' = kept \cup {s}
  BY DEF Opens
<1> HIDE DEF n
<1>4. s \in Session /\ s.user = u /\ s.password = password
  BY <1>2 DEF Session
<1> HIDE DEF s
<1> QED  BY <1>3, <1>4

\* A commit that leaves the invitations alone.
LEMMA CommitsAlone ==
    ASSUME AccountsInv, NEW r \in Requests, RequestEnds(r), UNCHANGED <<invitation, accepted, raced>>,
           account' \in [Users -> Accounts], sessions' \subseteq Session,
           \A u \in Users : account[u].state # "none" => account'[u].state # "none",
           \A s \in sessions' : account'[s.user].state # "none" \/ \E z \in sessions : z.user = s.user,
           \/ \A u \in Users : IsAdmin(u) => IsAdmin(u)'
           \/ r \in Removing /\ \A u \in Users : u # request[r].target /\ IsAdmin(u) => IsAdmin(u)',
           ~("login" \in raced) => \A s \in sessions' : s.password = account'[s.user].password,
           ~("login" \in raced) => \/ \A u \in Users : account'[u].password = account[u].password
                                  \/ r \in Renewing
    PROVE  AccountsInv'
<1>1. invitation' \in [Invitations -> Invitation] /\ \A i \in Invitations : invitation'[i] = invitation[i]
  BY DEF AccountsInv, TypeOK, Invitation
<1>2. AcceptedOnce'
  BY DEF AccountsInv, AcceptedOnce, InvitationsOnce
<1> QED  BY <1>1, <1>2, Commits

LEMMA LoginCommitsKeeps ==
    ASSUME AccountsInv, NEW r \in Requests, LoginCommits(r)
    PROVE  AccountsInv'
<1> DEFINE u == request[r].target
<1>1. /\ TypeOK /\ RecordsInv /\ PasswordInv /\ account \in [Users -> Accounts]
      /\ request[r] \in Request /\ Sound(request[r], account, invitation)
      /\ sessions \subseteq Session
  BY DEF AccountsInv, TypeOK, RecordsInv, Session
<1>2. /\ u \in Users /\ request[r].typed \in 0..MaxPasswords /\ account[u].state # "none"
      /\ account[u] \in Accounts
  BY <1>1 DEF Request, Sound, LoginCommits
<1>3. /\ account' = account \/ account' = [account EXCEPT ![u].password = request[r].typed]
      /\ Opens(u, request[r].typed, sessions) /\ RequestEnds(r)
      /\ UNCHANGED <<invitation, accepted, raced>>
  BY DEF LoginCommits
<1>4. /\ account' \in [Users -> Accounts]
      /\ \A v \in Users : account'[v].state = account[v].state /\ account'[v].role = account[v].role
      /\ \A v \in Users : \/ account'[v].password = account[v].password
                         \/ (v = u /\ account'[v].password = request[r].typed)
  <2>1. CASE account' = account
    BY <1>1, <2>1
  <2>2. CASE account' = [account EXCEPT ![u].password = request[r].typed]
    BY <1>1, <1>2, <2>2 DEF Accounts
  <2> QED  BY <1>3, <2>1, <2>2
<1>5. /\ sessions' \subseteq Session
      /\ \A s \in sessions' : s \in sessions \/ (s.user = u /\ s.password = request[r].typed)
  BY <1>1, <1>2, <1>3, Opened
<1>6. ~("login" \in raced) => request[r].typed = account[u].password
  BY <1>1 DEF PasswordInv, SigningIn, LoginCommits
<1>7. \A s \in sessions' : s.user \in Users
  BY <1>5 DEF Session
<1>8. \A v \in Users : IsAdmin(v) => IsAdmin(v)'
  BY <1>4 DEF IsAdmin
<1>9. \A s \in sessions' : account'[s.user].state # "none" \/ \E z \in sessions : z.user = s.user
  BY <1>2, <1>4, <1>5
<1>10. ~("login" \in raced) => \A v \in Users : account'[v].password = account[v].password
  BY <1>4, <1>6
<1>11. ~("login" \in raced) => \A s \in sessions' : s.password = account'[s.user].password
  BY <1>1, <1>5, <1>6, <1>7, <1>10 DEF PasswordInv
<1>12. \A v \in Users : account[v].state # "none" => account'[v].state # "none"
  BY <1>4
<1> QED  BY <1>3, <1>4, <1>5, <1>8, <1>9, <1>10, <1>11, <1>12, CommitsAlone

LEMMA ChangeCommitsKeeps ==
    ASSUME AccountsInv, NEW r \in Requests, ChangeCommits(r)
    PROVE  AccountsInv'
<1> DEFINE u == request[r].target
           new == account[u].password + 1
           Kept(s) == IF s.user = u /\ s.n = request[r].sid THEN [s EXCEPT !.password = new] ELSE s
<1>1. /\ TypeOK /\ RecordsInv /\ PasswordInv /\ account \in [Users -> Accounts]
      /\ request[r] \in Request /\ Sound(request[r], account, invitation)
      /\ sessions \subseteq Session
  BY DEF AccountsInv, TypeOK, RecordsInv, Session
<1>2. /\ u \in Users /\ account[u].state # "none" /\ account[u] \in Accounts
  BY <1>1 DEF Request, Sound, ChangeCommits
<1>3. /\ account' = [account EXCEPT ![u].password = new] /\ new <= MaxPasswords /\ RequestEnds(r)
      /\ sessions' = {Kept(s) : s \in EndsOthers(u, request[r].sid)}
      /\ UNCHANGED <<invitation, accepted, raced>> /\ r \in Renewing
  BY DEF ChangeCommits, Renewing, NewPasswords
<1>4. new \in 0..MaxPasswords
  BY <1>2, <1>3, AccountsAssumption DEF Accounts
<1> HIDE DEF new
<1>5. /\ account' \in [Users -> Accounts] /\ account'[u].password = new
      /\ \A v \in Users : account'[v].state = account[v].state /\ account'[v].role = account[v].role
      /\ \A v \in Users : v # u => account'[v].password = account[v].password
  BY <1>1, <1>2, <1>3, <1>4 DEF Accounts
<1>6. ASSUME NEW s \in EndsOthers(u, request[r].sid)
      PROVE  /\ s \in sessions /\ Kept(s) \in Session /\ Kept(s).user = s.user
             /\ IF s.user = u THEN Kept(s).password = new ELSE Kept(s) = s
  <2>1. s \in sessions /\ (s.user # u \/ s.n = request[r].sid)
    BY DEF EndsOthers
  <2> QED  BY <1>1, <1>4, <2>1 DEF Session
<1> HIDE DEF Kept
<1>7. sessions' \subseteq Session
  BY <1>3, <1>6
<1>8. \A s \in sessions' : \E z \in sessions : z.user = s.user
  BY <1>3, <1>6
<1>9. ~("login" \in raced) => \A s \in sessions' : s.password = account'[s.user].password
  <2>1. SUFFICES ASSUME ~("login" \in raced), NEW s \in EndsOthers(u, request[r].sid)
        PROVE  Kept(s).password = account'[Kept(s).user].password
    BY <1>3
  <2>2. s.password = account[s.user].password /\ s.user \in Users
    BY <1>1, <1>6, <2>1 DEF PasswordInv, Session
  <2> QED  BY <1>5, <1>6, <2>2
<1>10. \A v \in Users : IsAdmin(v) => IsAdmin(v)'
  BY <1>5 DEF IsAdmin
<1>11. \A v \in Users : account[v].state # "none" => account'[v].state # "none"
  BY <1>5
<1> QED  BY <1>3, <1>5, <1>7, <1>8, <1>9, <1>10, <1>11, CommitsAlone

LEMMA UpdateCommitsKeeps ==
    ASSUME AccountsInv, NEW r \in Requests, UpdateCommits(r) \/ Restores(r)
    PROVE  AccountsInv'
<1> DEFINE u == request[r].target
<1>1. /\ TypeOK /\ RecordsInv /\ PasswordInv /\ account \in [Users -> Accounts]
      /\ request[r] \in Request /\ u \in Users /\ account[u] \in Accounts /\ sessions \subseteq Session
  BY DEF AccountsInv, TypeOK, RecordsInv, Session, Request
<1>2. RequestEnds(r) /\ UNCHANGED <<invitation, accepted, raced>>
  BY DEF UpdateCommits, Restores
<1>3. /\ sessions' \subseteq sessions /\ account' \in [Users -> Accounts]
      /\ \A v \in Users : v # u => account'[v] = account[v]
      /\ account'[u].password = account[u].password
      /\ account[u].state # "none" => account'[u].state # "none"
      /\ r \in Removing \/ \A v \in Users : IsAdmin(v) => IsAdmin(v)'
  <2>1. ASSUME NEW state \in {"active", "disabled"}, account' = [account EXCEPT ![u].state = state]
        PROVE  /\ account' \in [Users -> Accounts] /\ \A v \in Users : v # u => account'[v] = account[v]
               /\ account'[u].password = account[u].password /\ account'[u].state = state
               /\ account'[u].role = account[u].role
    BY <1>1, <2>1 DEF Accounts
  <2>2. ASSUME NEW role \in Roles, account' = [account EXCEPT ![u].role = role]
        PROVE  /\ account' \in [Users -> Accounts] /\ \A v \in Users : v # u => account'[v] = account[v]
               /\ account'[u].password = account[u].password /\ account'[u].state = account[u].state
               /\ account'[u].role = role
    BY <1>1, <2>2 DEF Accounts
  <2>3. CASE UpdateCommits(r)
    <3>1. r \in Removing
      BY <2>3 DEF UpdateCommits, Removing, Removals
    <3>2. \/ account' = [account EXCEPT ![u].state = "disabled"]
          \/ account' = [account EXCEPT ![u].role = "professor"]
      BY <2>3 DEF UpdateCommits
    <3>3. sessions' \subseteq sessions
      BY <2>3 DEF UpdateCommits
    <3>4. CASE account' = [account EXCEPT ![u].state = "disabled"]
      BY <2>1, <3>1, <3>3, <3>4
    <3>5. CASE account' = [account EXCEPT ![u].role = "professor"]
      BY <2>2, <3>1, <3>3, <3>5 DEF Roles
    <3> QED  BY <3>2, <3>4, <3>5
  <2>4. CASE Restores(r)
    <3>1. \/ account' = [account EXCEPT ![u].state = "active"]
          \/ account' = [account EXCEPT ![u].role = "admin"]
      BY <2>4 DEF Restores
    <3>2. sessions' = sessions
      BY <2>4 DEF Restores
    <3>3. CASE account' = [account EXCEPT ![u].state = "active"]
      BY <2>1, <3>2, <3>3 DEF IsAdmin
    <3>4. CASE account' = [account EXCEPT ![u].role = "admin"]
      BY <2>2, <3>2, <3>4 DEF Roles, IsAdmin
    <3> QED  BY <3>1, <3>3, <3>4
  <2> QED  BY <2>3, <2>4
<1>4. \A v \in Users : account'[v].password = account[v].password
  BY <1>3
<1>5. \A s \in sessions' : s.user \in Users /\ s \in Session
  BY <1>1, <1>3 DEF Session
<1>6. ~("login" \in raced) => \A s \in sessions' : s.password = account'[s.user].password
  BY <1>1, <1>3, <1>4, <1>5 DEF PasswordInv
<1>7. \/ \A v \in Users : IsAdmin(v) => IsAdmin(v)'
      \/ r \in Removing /\ \A v \in Users : v # request[r].target /\ IsAdmin(v) => IsAdmin(v)'
  BY <1>3 DEF IsAdmin
<1>8. \A v \in Users : account[v].state # "none" => account'[v].state # "none"
  BY <1>3
<1> QED  BY <1>2, <1>3, <1>4, <1>5, <1>6, <1>7, <1>8, CommitsAlone

\* An invitation is used up, and never again.
LEMMA Consumed ==
    ASSUME AccountsInv, NEW i \in Invitations, Consume(i)
    PROVE  /\ invitation' \in [Invitations -> Invitation] /\ AcceptedOnce'
           /\ \A j \in Invitations : invitation'[j] = invitation[j] \/ invitation'[j].status = "used"
<1>1. /\ invitation \in [Invitations -> Invitation] /\ accepted \in [Invitations -> {0, 1}]
      /\ \A j \in Invitations : accepted[j] = 1 => invitation[j].status = "used"
  BY DEF AccountsInv, TypeOK, AcceptedOnce, InvitationsOnce, Invitation
<1> DEFINE gone == [NoInvitation EXCEPT !.status = "used"]
<1>2. gone \in Invitation /\ gone.status = "used"
  BY AccountsAssumption DEF NoInvitation, Invitation
<1>3. /\ invitation' = [invitation EXCEPT ![i] = gone] /\ invitation[i].status = "active"
      /\ accepted' = [accepted EXCEPT ![i] = accepted[i] + 1]
  BY DEF Consume
<1> HIDE DEF gone
<1>4. /\ invitation' \in [Invitations -> Invitation] /\ invitation'[i].status = "used"
      /\ \A j \in Invitations : j # i => invitation'[j] = invitation[j]
  BY <1>1, <1>2, <1>3
<1>5. accepted[i] = 0
  BY <1>1, <1>3
<1>6. accepted' = [accepted EXCEPT ![i] = 1]
  BY <1>3, <1>5
<1>7. /\ accepted' \in [Invitations -> {0, 1}] /\ accepted'[i] = 1
      /\ \A j \in Invitations : j # i => accepted'[j] = accepted[j]
  BY <1>1, <1>6
<1>8. ASSUME NEW j \in Invitations
      PROVE  accepted'[j] <= 1 /\ (accepted'[j] = 1 => invitation'[j].status = "used")
  <2>1. accepted'[j] = 1 => invitation'[j].status = "used"
    BY <1>1, <1>4, <1>7
  <2>2. accepted'[j] = 0 \/ accepted'[j] = 1
    BY <1>7
  <2> QED  BY <2>1, <2>2
<1>9. AcceptedOnce'
  BY <1>7, <1>8 DEF AcceptedOnce, InvitationsOnce
<1> QED  BY <1>4, <1>9

LEMMA AcceptCommitsKeeps ==
    ASSUME AccountsInv, NEW r \in Requests, AcceptCommits(r)
    PROVE  AccountsInv'
<1> DEFINE u == request[r].target
           new == account[u].password + 1
<1>1. /\ TypeOK /\ RecordsInv /\ PasswordInv /\ account \in [Users -> Accounts]
      /\ request[r] \in Request /\ Sound(request[r], account, invitation)
      /\ sessions \subseteq Session /\ invitation \in [Invitations -> Invitation]
      /\ \A s \in sessions : account[s.user].state # "none"
  BY DEF AccountsInv, TypeOK, RecordsInv, Session, Invitation
<1>2. u \in Users /\ account[u] \in Accounts /\ request[r].item \subseteq Invitations
  BY <1>1 DEF Request
<1>3. PICK i \in request[r].item :
        /\ Consume(i)
        /\ \/ /\ invitation[i].kind = "reset" /\ new <= MaxPasswords
              /\ account' = [account EXCEPT ![u].password = new]
              /\ Opens(u, new, sessions \ SessionsOf(u))
           \/ /\ invitation[i].kind # "reset" /\ account[u].state = "none"
              /\ account' = [account EXCEPT ![u] = [state |-> "active", role |-> invitation[i].kind,
                                                    password |-> 0]]
              /\ Opens(u, 0, sessions)
  BY DEF AcceptCommits
<1>4. RequestEnds(r) /\ UNCHANGED raced /\ r \in Renewing
  BY DEF AcceptCommits, Renewing, NewPasswords
<1>5. /\ invitation' \in [Invitations -> Invitation] /\ AcceptedOnce'
      /\ \A j \in Invitations : invitation'[j] = invitation[j] \/ invitation'[j].status = "used"
  BY <1>2, <1>3, Consumed
<1>6. CASE /\ invitation[i].kind = "reset" /\ new <= MaxPasswords
           /\ account' = [account EXCEPT ![u].password = new]
           /\ Opens(u, new, sessions \ SessionsOf(u))
  <2>1. new \in 0..MaxPasswords
    BY <1>2, <1>6, AccountsAssumption DEF Accounts
  <2> HIDE DEF new
  <2>2. /\ account' \in [Users -> Accounts] /\ account'[u].password = new
        /\ \A v \in Users : account'[v].state = account[v].state /\ account'[v].role = account[v].role
        /\ \A v \in Users : v # u => account'[v] = account[v]
    BY <1>1, <1>2, <1>6, <2>1 DEF Accounts
  <2>3. /\ sessions' \subseteq Session
        /\ \A s \in sessions' : (s \in sessions /\ s.user # u) \/ (s.user = u /\ s.password = new)
    <3>1. sessions \ SessionsOf(u) \in SUBSET Session
      BY <1>1
    <3>2. /\ sessions' \subseteq Session
          /\ \A s \in sessions' : s \in sessions \ SessionsOf(u) \/ (s.user = u /\ s.password = new)
      BY <1>2, <1>6, <2>1, <3>1, Opened
    <3> QED  BY <3>2 DEF SessionsOf
  <2>4. account[u].state # "none"
    <3>1. invitation[i].status = "active"
      BY <1>3 DEF Consume
    <3>2. u = invitation[i].target
      BY <1>1, <1>6, <3>1 DEF Sound
    <3> QED  BY <1>1, <1>2, <1>6, <3>1, <3>2 DEF RecordsInv
  <2>5. \A s \in sessions' : account'[s.user].state # "none" \/ \E z \in sessions : z.user = s.user
    BY <1>2, <2>2, <2>3, <2>4
  <2>6. ~("login" \in raced) => \A s \in sessions' : s.password = account'[s.user].password
    <3>1. \A s \in sessions : s.user \in Users
      BY <1>1 DEF Session
    <3> QED  BY <1>1, <2>2, <2>3, <3>1 DEF PasswordInv
  <2>7. \A v \in Users : IsAdmin(v) => IsAdmin(v)'
    BY <2>2 DEF IsAdmin
  <2>8. \A v \in Users : account[v].state # "none" => account'[v].state # "none"
    BY <2>2
  <2> QED  BY <1>4, <1>5, <2>2, <2>3, <2>5, <2>6, <2>7, <2>8, Commits
<1>7. CASE /\ invitation[i].kind # "reset" /\ account[u].state = "none"
           /\ account' = [account EXCEPT ![u] = [state |-> "active", role |-> invitation[i].kind,
                                                 password |-> 0]]
           /\ Opens(u, 0, sessions)
  <2> DEFINE made == [state |-> "active", role |-> invitation[i].kind, password |-> 0]
  <2>1. made \in Accounts /\ made.state = "active" /\ made.password = 0
    <3>1. invitation[i].kind \in Roles
      BY <1>1, <1>2, <1>7 DEF Invitation
    <3> QED  BY <3>1, BlankRequest DEF Accounts
  <2>2. account' = [account EXCEPT ![u] = made]
    BY <1>7
  <2> HIDE DEF made
  <2>3. /\ account' \in [Users -> Accounts] /\ account'[u].state = "active" /\ account'[u].password = 0
        /\ \A v \in Users : v # u => account'[v] = account[v]
    BY <1>1, <1>2, <2>1, <2>2
  <2>4. /\ sessions' \subseteq Session
        /\ \A s \in sessions' : s \in sessions \/ (s.user = u /\ s.password = 0)
    <3>1. sessions \in SUBSET Session
      BY <1>1
    <3>2. Opens(u, 0, sessions)
      BY <1>7
    <3> QED  BY <1>2, <3>1, <3>2, BlankRequest, Opened
  <2>5. \A s \in sessions : s.user # u /\ s.user \in Users
    BY <1>1, <1>7 DEF Session
  <2>6. \A s \in sessions' : account'[s.user].state # "none" \/ \E z \in sessions : z.user = s.user
    BY <2>3, <2>4
  <2>7. ~("login" \in raced) => \A s \in sessions' : s.password = account'[s.user].password
    BY <1>1, <2>3, <2>4, <2>5 DEF PasswordInv
  <2>8. \A v \in Users : IsAdmin(v) => IsAdmin(v)'
    BY <1>7, <2>3 DEF IsAdmin
  <2>9. \A v \in Users : account[v].state # "none" => account'[v].state # "none"
    BY <2>3
  <2> QED  BY <1>4, <1>5, <2>3, <2>4, <2>6, <2>7, <2>8, <2>9, Commits
<1> QED  BY <1>3, <1>6, <1>7

\* A new invitation is for an account that exists when it is to reset its password.
LEMMA Minted ==
    ASSUME AccountsInv, NEW i \in Invitations, NEW kind \in {"reset"} \cup Roles, NEW u \in Users,
           Mints(i, kind, u)
    PROVE  /\ invitation' \in [Invitations -> Invitation] /\ AcceptedOnce'
           /\ UNCHANGED <<account, sessions, accepted>>
           /\ invitation[i].status = "none" /\ invitation'[i].status = "active"
           /\ invitation'[i].kind = kind /\ invitation'[i].target = u
           /\ \A j \in Invitations : j # i => invitation'[j] = invitation[j]
<1>1. /\ invitation \in [Invitations -> Invitation] /\ AcceptedOnce
      /\ invitation' = [invitation EXCEPT ![i] = [status |-> "active", kind |-> kind, target |-> u]]
      /\ invitation[i].status = "none" /\ UNCHANGED <<account, sessions, accepted>>
  BY DEF AccountsInv, TypeOK, Invitation, Mints
<1> DEFINE made == [status |-> "active", kind |-> kind, target |-> u]
<1>2. made \in Invitation /\ made.status = "active" /\ made.kind = kind /\ made.target = u
  BY DEF Invitation
<1>3. invitation' = [invitation EXCEPT ![i] = made]
  BY <1>1
<1> HIDE DEF made
<1>4. /\ invitation' \in [Invitations -> Invitation] /\ invitation'[i] = made
      /\ \A j \in Invitations : j # i => invitation'[j] = invitation[j]
  BY <1>1, <1>2, <1>3
<1>5. AcceptedOnce'
  BY <1>1, <1>4 DEF AcceptedOnce, InvitationsOnce
<1> QED  BY <1>1, <1>2, <1>4, <1>5

LEMMA InvitationKeeps ==
    ASSUME AccountsInv, NEW i \in Invitations,
           \/ \E r \in Requests : CreateInvitation(r, i) \/ CreateReset(r, i)
           \/ Revoke(i) \/ Bootstrap(i)
    PROVE  AccountsInv'
<1>1. /\ account \in [Users -> Accounts] /\ sessions \subseteq Session
      /\ invitation \in [Invitations -> Invitation] /\ PasswordInv /\ Founder \in Users
      /\ {"reset", "admin", "professor"} \subseteq {"reset"} \cup Roles
  BY AccountsAssumption DEF AccountsInv, TypeOK, Session, Invitation, Roles
<1>2. ASSUME NEW r \in Requests, NEW kind \in {"reset"} \cup Roles, NEW u \in Users,
             Mints(i, kind, u), RequestEnds(r), UNCHANGED raced,
             kind = "reset" => account[u].state # "none"
      PROVE  AccountsInv'
  <2>1. /\ invitation' \in [Invitations -> Invitation] /\ AcceptedOnce'
        /\ UNCHANGED <<account, sessions, accepted>>
        /\ invitation[i].status = "none" /\ invitation'[i].status = "active"
        /\ invitation'[i].kind = kind /\ invitation'[i].target = u
        /\ \A j \in Invitations : j # i => invitation'[j] = invitation[j]
    BY <1>2, Minted
  <2>2. \A v \in Users : IsAdmin(v) => IsAdmin(v)'
    BY <2>1 DEF IsAdmin
  <2>3. /\ account' \in [Users -> Accounts] /\ sessions' \subseteq Session
        /\ \A v \in Users : account[v].state # "none" => account'[v].state # "none"
        /\ \A s \in sessions' : \E z \in sessions : z.user = s.user
        /\ \A v \in Users : account'[v].password = account[v].password
    BY <1>1, <2>1
  <2>4. \A j \in Invitations :
                \/ invitation'[j] = invitation[j]
                \/ invitation'[j].status \notin {"none", "active"}
                \/ /\ invitation[j].status = "none" /\ invitation'[j].status # "none"
                   /\ invitation'[j].kind = "reset" => account'[invitation'[j].target].state # "none"
    BY <1>2, <2>1
  <2>5. ~("login" \in raced) => \A s \in sessions' : s.password = account'[s.user].password
    BY <1>1, <2>1 DEF PasswordInv
  <2> QED  BY <1>2, <2>1, <2>2, <2>3, <2>4, <2>5, Commits
<1>3. ASSUME NEW r \in Requests, CreateInvitation(r, i) PROVE AccountsInv'
  BY <1>1, <1>2, <1>3 DEF CreateInvitation, Roles
<1>4. ASSUME NEW r \in Requests, CreateReset(r, i) PROVE AccountsInv'
  <2>1. request[r].target \in Users
    BY DEF AccountsInv, RecordsInv, Request
  <2>2. account[request[r].target].state # "none"
    BY <1>4 DEF CreateReset
  <2> QED  BY <1>1, <1>2, <1>4, <2>1, <2>2 DEF CreateReset
<1>5. CASE Bootstrap(i)
  <2>1. Mints(i, "admin", Founder) /\ UNCHANGED <<request, raced>>
    BY <1>5 DEF Bootstrap
  <2>2. /\ invitation' \in [Invitations -> Invitation]
        /\ UNCHANGED <<account, sessions, accepted>>
        /\ invitation[i].status = "none" /\ invitation'[i].status = "active"
        /\ invitation'[i].kind = "admin"
        /\ \A j \in Invitations : j # i => invitation'[j] = invitation[j]
    BY <1>1, <2>1, Minted
  <2> QED  BY <2>1, <2>2, Otherwise
<1>6. CASE Revoke(i)
  <2> DEFINE gone == [NoInvitation EXCEPT !.status = "revoked"]
  <2>1. gone \in Invitation /\ gone.status = "revoked"
    BY AccountsAssumption DEF NoInvitation, Invitation
  <2>2. /\ invitation' = [invitation EXCEPT ![i] = gone] /\ invitation[i].status = "active"
        /\ UNCHANGED <<account, sessions, request, accepted, raced>>
    BY <1>6 DEF Revoke
  <2> HIDE DEF gone
  <2>3. /\ invitation' \in [Invitations -> Invitation] /\ invitation'[i].status = "revoked"
        /\ \A j \in Invitations : j # i => invitation'[j] = invitation[j]
    BY <1>1, <2>1, <2>2
  <2> QED  BY <2>2, <2>3, Otherwise
<1> QED  BY <1>3, <1>4, <1>5, <1>6

---------------------------------------------------------------------------
(* Staff: the results.                                                     *)

LEMMA AccountsNext == AccountsInv /\ [Next]_vars => AccountsInv'
<1> SUFFICES ASSUME AccountsInv, [Next]_vars PROVE AccountsInv'
  OBVIOUS
<1>1. ASSUME NEW s \in sessions, SessionEnds(s) PROVE AccountsInv'
  <2>1. UNCHANGED <<account, invitation, request, accepted, raced>> /\ sessions' \subseteq sessions
    BY <1>1 DEF SessionEnds
  <2>2. invitation' \in [Invitations -> Invitation] /\ \A i \in Invitations : invitation'[i] = invitation[i]
    BY <2>1 DEF AccountsInv, TypeOK, Invitation
  <2> QED  BY <2>1, <2>2, Otherwise
<1>2. CASE UNCHANGED vars
  <2>1. UNCHANGED <<account, sessions, invitation, request, accepted, raced>>
    BY <1>2 DEF vars
  <2>2. invitation' \in [Invitations -> Invitation] /\ \A i \in Invitations : invitation'[i] = invitation[i]
    BY <2>1 DEF AccountsInv, TypeOK, Invitation
  <2> QED  BY <2>1, <2>2, Otherwise
<1>3. ASSUME NEW r \in Requests, NEW u \in Users,
             LoginReads(r, u) \/ AsksForPassword(r, u) \/ Administers(r, u)
      PROVE  AccountsInv'
  BY <1>3, AskKeeps, ReadKeeps
<1>4. ASSUME NEW r \in Requests,
             \/ LoginCommits(r) \/ ChangeReads(r) \/ ChangeCommits(r) \/ UpdateReads(r)
             \/ UpdateCommits(r) \/ Restores(r) \/ AcceptCommits(r) \/ Refused(r)
      PROVE  AccountsInv'
  BY <1>4, LoginCommitsKeeps, ReadKeeps, ChangeCommitsKeeps, UpdateCommitsKeeps, AcceptCommitsKeeps
<1>5. ASSUME NEW r \in Requests, NEW i \in Invitations,
             CreateInvitation(r, i) \/ CreateReset(r, i) \/ \E u \in Users : AcceptReads(r, i, u)
      PROVE  AccountsInv'
  BY <1>5, InvitationKeeps, ReadKeeps
<1>6. ASSUME NEW i \in Invitations, Revoke(i) \/ Bootstrap(i) PROVE AccountsInv'
  BY <1>6, InvitationKeeps
<1> QED  BY <1>1, <1>2, <1>3, <1>4, <1>5, <1>6 DEF Next

\* Somebody is always an active administrator, unless two removals overlapped; and
\* an invitation is accepted once, however many requests hold it (admin_routes.py
\* _guard_last_admin, db_invitations.py consume).
THEOREM StaffIsSafe == Spec => []AccountsSafety
<1>1. AccountsInv => AccountsSafety
  BY DEF AccountsInv, AdminInv, AcceptedOnce, AccountsSafety, SomeAdmin
<1> QED  BY <1>1, AccountsInit, AccountsNext, PTL DEF Spec

\* A new password ends every session opened with an older one (auth_routes.py
\* change_password, accept_invitation, db_sessions.py revoke_sessions_for_user).
THEOREM SessionsAreFresh == Spec => []SessionsFollowPassword
<1>1. AccountsInv => SessionsFollowPassword
  BY DEF AccountsInv, PasswordInv, SessionsFollowPassword
<1> QED  BY <1>1, AccountsInit, AccountsNext, PTL DEF Spec

---------------------------------------------------------------------------
(* Participants.                                                           *)

Joining == [at : {"idle", "asked", "answered"}, course : SUBSET Courses, held : SUBSET Nat, token : SUBSET Nat]
Pending == {t \in Tabs : join[t].at # "idle"}

ParticipationTypeOK ==
    /\ enrolled \in Seq(Courses) /\ live \subseteq Participants
    /\ join \in [Tabs -> Joining]
    /\ \A t \in Tabs : join[t].at # "answered" => join[t].token = {}

\* The tab waits for the answer of a sign-out that was made.
LeftBy(t) == join[t].at = "answered" /\ join[t].course = {}

\* Requests that do not overlap: the answer's cookie holds what the browser's does,
\* and once a sign-out was made the browser holds nobody.
Orderly ==
    \/ "overlap" \in lapses
    \/ /\ \A t, u \in Pending : t = u
       /\ \A t \in Pending : Held \subseteq join[t].held \cup join[t].token
       /\ \A t \in Pending : LeftBy(t) => Held = {}

\* Nothing was lost: the browser has everyone it has ever been, but for the answer
\* that is on its way.
Whole ==
    \/ lapses # {}
    \/ /\ live = Participants
       /\ \A t \in Pending : join[t].held = cookie /\ join[t].held \cup join[t].token = Participants
       /\ \A t \in Pending : ~LeftBy(t)
       /\ Pending = {} => cookie = Participants
       /\ OneParticipantEach

ParticipationInv == ParticipationTypeOK /\ Orderly /\ Whole

EnrolledHere == ParticipantOf(Here, Participants)

LEMMA ParticipationInitially == ParticipationInit => ParticipationInv
<1> SUFFICES ASSUME ParticipationInit PROVE ParticipationInv
  OBVIOUS
<1>1. enrolled = <<>> /\ enrolled \in Seq(Courses) /\ Participants = {} /\ cookie = {} /\ live = {}
  BY DEF ParticipationInit, Participants
<1>2. NoJoin \in Joining /\ NoJoin.at = "idle" /\ NoJoin.token = {}
  BY DEF NoJoin, Joining
<1>3. join = [t \in Tabs |-> NoJoin]
  BY DEF ParticipationInit
<1>4. Pending = {}
  BY <1>2, <1>3 DEF Pending
<1>5. ParticipationTypeOK
  BY <1>1, <1>2, <1>3 DEF ParticipationTypeOK
<1>6. Orderly /\ Whole
  BY <1>1, <1>4 DEF Orderly, Whole, OneParticipantEach
<1> QED  BY <1>5, <1>6 DEF ParticipationInv

\* One tab's join page moves.
LEMMA JoinMoves ==
    ASSUME ParticipationTypeOK, NEW t \in Tabs, NEW j \in Joining, join' = [join EXCEPT ![t] = j],
           j.at # "answered" => j.token = {},
           enrolled' \in Seq(Courses), live' \subseteq Participants'
    PROVE  /\ ParticipationTypeOK' /\ join'[t] = j /\ \A u \in Tabs : u # t => join'[u] = join[u]
           /\ Pending' = (Pending \ {t}) \cup (IF j.at = "idle" THEN {} ELSE {t})
<1>1. /\ join' \in [Tabs -> Joining] /\ join'[t] = j
      /\ \A u \in Tabs : u # t => join'[u] = join[u]
  BY DEF ParticipationTypeOK
<1>2. ParticipationTypeOK'
  BY <1>1 DEF ParticipationTypeOK
<1>3. Pending' = (Pending \ {t}) \cup (IF j.at = "idle" THEN {} ELSE {t})
  <2>1. \A u \in Tabs : u \in Pending' <=> join'[u].at # "idle"
    BY DEF Pending
  <2>2. \A u \in Tabs : u \in Pending <=> join[u].at # "idle"
    BY DEF Pending
  <2>3. Pending \subseteq Tabs /\ Pending' \subseteq Tabs
    BY DEF Pending
  <2> QED  BY <1>1, <2>1, <2>2, <2>3
<1> QED  BY <1>1, <1>2, <1>3

LEMMA AsksKeeps ==
    ASSUME ParticipationInv, NEW t \in Tabs, NEW course \in SUBSET Courses, Asks(t, course)
    PROVE  ParticipationInv'
<1> DEFINE j == [at |-> "asked", course |-> course, held |-> Held, token |-> {}]
<1>1. /\ join[t].at = "idle" /\ join' = [join EXCEPT ![t] = j] /\ UNCHANGED <<cookie, enrolled, live>>
      /\ lapses \subseteq lapses'
      /\ ~("overlap" \in lapses') => \A u \in Tabs \ {t} : join[u].at = "idle"
  BY DEF Asks
<1>2. Held \subseteq Nat
  BY DEF ParticipationInv, ParticipationTypeOK, Held, Participants
<1>3. j \in Joining /\ j.at = "asked" /\ j.token = {} /\ j.held = Held
  BY <1>2 DEF Joining
<1> HIDE DEF j
<1>4. ParticipationTypeOK /\ Orderly /\ Whole /\ enrolled' \in Seq(Courses) /\ live' \subseteq Participants'
  BY <1>1 DEF ParticipationInv, ParticipationTypeOK, Participants
<1>5. /\ ParticipationTypeOK' /\ join'[t] = j /\ \A u \in Tabs : u # t => join'[u] = join[u]
      /\ Pending' = (Pending \ {t}) \cup {t}
  BY <1>1, <1>3, <1>4, JoinMoves
<1>6. ~("overlap" \in lapses') => Pending' = {t} /\ Pending = {}
  BY <1>1, <1>5 DEF Pending
<1>7. Held' = Held /\ Participants' = Participants
  BY <1>1 DEF Held, Participants
<1>8. Orderly'
  BY <1>3, <1>5, <1>6, <1>7 DEF Orderly, LeftBy
<1>9. Whole'
  <2>1. SUFFICES ASSUME lapses' = {} PROVE Whole'
    BY DEF Whole
  <2>2. lapses = {} /\ Pending = {} /\ Pending' = {t}
    BY <1>1, <1>6, <2>1
  <2>3. live = Participants /\ cookie = Participants /\ OneParticipantEach
    BY <1>4, <2>2 DEF Whole
  <2>4. Held = cookie
    BY <2>3 DEF Held
  <2>5. OneParticipantEach'
    BY <1>1, <2>1, <2>2, <2>3 DEF OneParticipantEach, Participants
  <2> QED  BY <1>1, <1>3, <1>5, <1>7, <2>2, <2>3, <2>4, <2>5 DEF Whole, LeftBy
<1> QED  BY <1>5, <1>8, <1>9 DEF ParticipationInv

\* One more participant.
LEMMA OneMore ==
    ASSUME enrolled \in Seq(Courses), NEW c \in Courses, enrolled' = Append(enrolled, c), NEW p,
           p = Len(enrolled) + 1
    PROVE  /\ enrolled' \in Seq(Courses) /\ p \in Nat /\ p \notin Participants
           /\ Participants' = Participants \cup {p} /\ enrolled'[p] = c
           /\ \A q \in Participants : enrolled'[q] = enrolled[q]
<1>1. /\ enrolled' \in Seq(Courses) /\ Len(enrolled') = p /\ enrolled'[p] = c
      /\ \A q \in 1..Len(enrolled) : enrolled'[q] = enrolled[q]
  BY AppendProperties
<1>2. /\ Participants = 1..Len(enrolled) /\ Participants' = 1..p /\ Len(enrolled) \in Nat
  BY <1>1, LenProperties DEF Participants
<1> QED  BY <1>1, <1>2

LEMMA JoinCourseKeeps ==
    ASSUME ParticipationInv, NEW t \in Tabs, JoinCourse(t)
    PROVE  ParticipationInv' /\ EnrolledHere \subseteq EnrolledHere'
<1>1. /\ ParticipationTypeOK /\ Orderly /\ Whole /\ join \in [Tabs -> Joining] /\ join[t] \in Joining
      /\ join[t].at = "asked" /\ join[t].token = {} /\ UNCHANGED <<cookie, lapses>> /\ t \in Pending
      /\ join[t].course # {}
  BY DEF ParticipationInv, ParticipationTypeOK, JoinCourse, Pending
<1>2. ASSUME NEW c \in join[t].course, Enrols(t, c)
      PROVE  ParticipationInv' /\ EnrolledHere \subseteq EnrolledHere'
  <2> DEFINE p == Len(enrolled) + 1
             j == [join[t] EXCEPT !.at = "answered", !.token = {p}]
  <2>1. c \in Courses
    BY <1>1 DEF Joining
  <2>2. /\ enrolled' = Append(enrolled, c) /\ live' = live \cup {p}
        /\ ParticipantOf(c, join[t].held) = {}
    BY <1>2 DEF Enrols
  <2>3. /\ enrolled' \in Seq(Courses) /\ p \in Nat /\ p \notin Participants
        /\ Participants' = Participants \cup {p} /\ enrolled'[p] = c
        /\ \A q \in Participants : enrolled'[q] = enrolled[q]
    BY <2>1, <2>2, <1>1, OneMore DEF ParticipationTypeOK
  <2>4. join' = [join EXCEPT ![t] = j]
    BY <1>1, <1>2 DEF Enrols, Answers, Joining
  <2>5. /\ j \in Joining /\ j.at = "answered" /\ j.token = {p} /\ j.held = join[t].held
        /\ j.course # {}
    BY <1>1, <2>3 DEF Joining
  <2> HIDE DEF j, p
  <2>6. live' \subseteq Participants'
    BY <1>1, <2>2, <2>3 DEF ParticipationTypeOK
  <2>7. /\ ParticipationTypeOK' /\ join'[t] = j /\ \A u \in Tabs : u # t => join'[u] = join[u]
        /\ Pending' = (Pending \ {t}) \cup {t}
    BY <1>1, <2>3, <2>4, <2>5, <2>6, JoinMoves
  <2>8. Pending' = Pending
    BY <1>1, <2>7
  <2>9. Orderly'
    <3>1. CASE "overlap" \in lapses
      BY <1>1, <3>1 DEF Orderly
    <3>2. CASE ~("overlap" \in lapses)
      <4>1. \A u \in Pending : u = t
        BY <1>1, <3>2 DEF Orderly
      <4>2. Held \subseteq join[t].held
        BY <1>1, <3>2 DEF Orderly
      <4>3. Held' \subseteq Held \cup {p}
        BY <1>1, <2>2 DEF Held
      <4> QED  BY <2>5, <2>7, <2>8, <4>1, <4>2, <4>3 DEF Orderly, LeftBy
    <3> QED  BY <3>1, <3>2
  <2>10. Whole'
    <3>1. SUFFICES ASSUME lapses' = {} PROVE Whole'
      BY DEF Whole
    <3>2. lapses = {} /\ ~("overlap" \in lapses)
      BY <1>1, <3>1
    <3>3. \A u \in Pending : u = t
      BY <1>1, <3>2 DEF Orderly
    <3>4. /\ live = Participants /\ join[t].held = cookie /\ join[t].held = Participants
          /\ OneParticipantEach
      BY <1>1, <3>2 DEF Whole
    <3>5. \A q \in Participants : enrolled[q] # c
      BY <2>2, <3>4 DEF ParticipantOf
    <3>6. OneParticipantEach'
      BY <2>3, <3>2, <3>4, <3>5 DEF OneParticipantEach
    <3>7. live' = Participants'
      BY <2>2, <2>3, <3>4
    <3>8. \A u \in Pending' : join'[u].held = cookie' /\ join'[u].held \cup join'[u].token = Participants'
      BY <1>1, <2>3, <2>5, <2>7, <2>8, <3>3, <3>4
    <3>9. \A u \in Pending' : ~LeftBy(u)'
      BY <2>5, <2>7, <2>8, <3>3 DEF LeftBy
    <3> QED  BY <1>1, <2>8, <3>6, <3>7, <3>8, <3>9 DEF Whole
  <2>11. EnrolledHere \subseteq EnrolledHere'
    BY <2>3 DEF EnrolledHere, ParticipantOf
  <2> QED  BY <2>7, <2>9, <2>10, <2>11 DEF ParticipationInv
<1>3. CASE UNCHANGED <<enrolled, live>> /\ Answers(t, {})
  <2> DEFINE j == [join[t] EXCEPT !.at = "answered", !.token = {}]
  <2>1. join' = [join EXCEPT ![t] = j]
    BY <1>1, <1>3 DEF Answers, Joining
  <2>2. /\ j \in Joining /\ j.at = "answered" /\ j.token = join[t].token /\ j.held = join[t].held
        /\ j.course # {}
    BY <1>1 DEF Joining
  <2> HIDE DEF j
  <2>3. enrolled' \in Seq(Courses) /\ live' \subseteq Participants' /\ Participants' = Participants /\ Held' = Held
    BY <1>1, <1>3 DEF ParticipationTypeOK, Participants, Held
  <2>4. /\ ParticipationTypeOK' /\ join'[t] = j /\ \A u \in Tabs : u # t => join'[u] = join[u]
        /\ Pending' = (Pending \ {t}) \cup {t}
    BY <1>1, <2>1, <2>2, <2>3, JoinMoves
  <2>5. /\ Pending' = Pending /\ Pending \subseteq Tabs
        /\ \A u \in Tabs : join'[u].held = join[u].held /\ join'[u].token = join[u].token
        /\ \A u \in Tabs : LeftBy(u)' => LeftBy(u)
    BY <1>1, <2>2, <2>4 DEF Pending, LeftBy
  <2>6. Orderly'
    BY <1>1, <2>3, <2>5 DEF Orderly
  <2>7. OneParticipantEach => OneParticipantEach'
    BY <1>1, <1>3 DEF OneParticipantEach, Participants
  <2>8. Whole'
    BY <1>1, <1>3, <2>3, <2>5, <2>7 DEF Whole
  <2>9. EnrolledHere' = EnrolledHere
    BY <1>3 DEF EnrolledHere, Participants, ParticipantOf
  <2> QED  BY <2>4, <2>6, <2>8, <2>9 DEF ParticipationInv
<1> QED  BY <1>2, <1>3 DEF JoinCourse

LEMMA JoinEndsKeeps ==
    ASSUME ParticipationInv, NEW t \in Tabs, HearJoin(t) \/ HearSignOut(t) \/ LoseJoin(t)
    PROVE  ParticipationInv'
<1>1. /\ ParticipationTypeOK /\ Orderly /\ Whole /\ t \in Pending
      /\ join' = [join EXCEPT ![t] = NoJoin] /\ UNCHANGED <<enrolled, live>>
      /\ lapses \subseteq lapses'
  BY DEF ParticipationInv, HearJoin, HearSignOut, LoseJoin, Pending
<1>2. NoJoin \in Joining /\ NoJoin.at = "idle" /\ NoJoin.token = {}
  BY DEF NoJoin, Joining
<1>3. enrolled' \in Seq(Courses) /\ live' \subseteq Participants' /\ Participants' = Participants
  BY <1>1 DEF ParticipationTypeOK, Participants
<1>4. /\ ParticipationTypeOK' /\ join'[t] = NoJoin /\ \A u \in Tabs : u # t => join'[u] = join[u]
      /\ Pending' = Pending \ {t}
  BY <1>1, <1>2, <1>3, JoinMoves
<1>5. ~("overlap" \in lapses') => Pending' = {}
  BY <1>1, <1>4 DEF Orderly
<1>6. Orderly'
  BY <1>5 DEF Orderly
<1>7. Whole'
  <2>1. SUFFICES ASSUME lapses' = {} PROVE Whole'
    BY DEF Whole
  <2>2. lapses = {} /\ Pending' = {}
    BY <1>1, <1>5, <2>1
  <2>3. /\ live = Participants /\ OneParticipantEach
        /\ join[t].held = cookie /\ join[t].held \cup join[t].token = Participants /\ ~LeftBy(t)
    BY <1>1, <2>2 DEF Whole
  <2>4. cookie' = Participants
    <3>0. ~HearSignOut(t)
      BY <2>3 DEF HearSignOut, LeftBy
    <3>1. CASE HearJoin(t)
      BY <2>3, <3>1 DEF HearJoin, CookieAfter
    <3>2. CASE LoseJoin(t)
      <4>1. join[t].token = {} /\ cookie' = cookie
        BY <2>1, <3>2 DEF LoseJoin
      <4> QED  BY <2>3, <4>1
    <3> QED  BY <3>0, <3>1, <3>2
  <2>5. OneParticipantEach'
    BY <1>1, <2>1, <2>2, <2>3 DEF OneParticipantEach, Participants
  <2> QED  BY <1>1, <1>3, <2>2, <2>3, <2>4, <2>5 DEF Whole
<1> QED  BY <1>4, <1>6, <1>7 DEF ParticipationInv

\* The backend ends the sessions that the sign-out carried.
LEMMA SignOutKeeps ==
    ASSUME ParticipationInv, NEW t \in Tabs, SignOut(t)
    PROVE  ParticipationInv'
<1> DEFINE j == [join[t] EXCEPT !.at = "answered", !.token = {}]
<1>1. /\ ParticipationTypeOK /\ Orderly /\ join \in [Tabs -> Joining] /\ join[t] \in Joining
      /\ join[t].at = "asked" /\ join[t].token = {} /\ UNCHANGED <<cookie, enrolled>> /\ t \in Pending
      /\ live' = live \ join[t].held /\ lapses' = lapses \cup {"left"}
  BY DEF ParticipationInv, ParticipationTypeOK, SignOut, Pending
<1>2. join' = [join EXCEPT ![t] = j]
  BY <1>1 DEF SignOut, Answers, Joining
<1>3. j \in Joining /\ j.at = "answered" /\ j.token = {} /\ j.held = join[t].held
  BY <1>1 DEF Joining
<1> HIDE DEF j
<1>4. enrolled' \in Seq(Courses) /\ live' \subseteq Participants'
  BY <1>1 DEF ParticipationTypeOK, Participants
<1>5. /\ ParticipationTypeOK' /\ join'[t] = j /\ \A u \in Tabs : u # t => join'[u] = join[u]
      /\ Pending' = (Pending \ {t}) \cup {t}
  BY <1>1, <1>2, <1>3, <1>4, JoinMoves
<1>6. Pending' = Pending
  BY <1>1, <1>5
<1>7. Orderly'
  <2>1. CASE "overlap" \in lapses
    BY <1>1, <2>1 DEF Orderly
  <2>2. CASE ~("overlap" \in lapses)
    <3>1. (\A u \in Pending : u = t) /\ Held \subseteq join[t].held
      BY <1>1, <2>2 DEF Orderly
    <3>2. Held' = {}
      BY <1>1, <3>1 DEF Held
    <3> QED  BY <1>6, <3>1, <3>2 DEF Orderly
  <2> QED  BY <2>1, <2>2
<1>8. Whole'
  BY <1>1 DEF Whole
<1> QED  BY <1>5, <1>7, <1>8 DEF ParticipationInv

\* What the browser holds of live sessions never grows without a join.
LEMMA LessHeldKeeps ==
    ASSUME ParticipationInv, UNCHANGED <<enrolled, join>>, live' \subseteq live, cookie' \subseteq cookie,
           \/ lapses \subseteq lapses' /\ lapses' # {}
           \/ UNCHANGED participationVars
    PROVE  ParticipationInv'
<1>1. ParticipationTypeOK /\ Orderly /\ Whole
  BY DEF ParticipationInv
<1>2. /\ ParticipationTypeOK' /\ Pending' = Pending
  BY <1>1 DEF ParticipationTypeOK, Participants, Pending
<1>3. Held' \subseteq Held /\ lapses \subseteq lapses'
  BY DEF Held, participationVars
<1>4. Orderly'
  <2>1. CASE "overlap" \in lapses
    BY <1>3, <2>1 DEF Orderly
  <2>2. CASE ~("overlap" \in lapses)
    <3>1. \A u, v \in Pending' : u = v
      BY <1>1, <1>2, <2>2 DEF Orderly
    <3>2. \A u \in Pending' : Held' \subseteq join'[u].held \cup join'[u].token
      BY <1>1, <1>2, <1>3, <2>2 DEF Orderly
    <3>3. \A u \in Pending' : LeftBy(u)' => Held' = {}
      BY <1>1, <1>2, <1>3, <2>2 DEF Orderly, LeftBy
    <3> QED  BY <3>1, <3>2, <3>3 DEF Orderly
  <2> QED  BY <2>1, <2>2
<1>5. Whole'
  <2>1. CASE lapses' # {}
    BY <2>1 DEF Whole
  <2>2. CASE lapses' = {}
    <3>1. UNCHANGED participationVars /\ Participants' = Participants
      BY <2>2 DEF participationVars, Participants
    <3>2. OneParticipantEach => OneParticipantEach'
      BY <3>1 DEF participationVars, OneParticipantEach, Participants
    <3> QED  BY <1>1, <1>2, <3>1, <3>2 DEF Whole, LeftBy, participationVars
  <2> QED  BY <2>1, <2>2
<1> QED  BY <1>2, <1>4, <1>5 DEF ParticipationInv

LEMMA ParticipationKeeps ==
    ASSUME ParticipationInv,
           ParticipationNext \/ (\E t \in Tabs : LoseJoin(t)) \/ UNCHANGED participationVars
    PROVE  ParticipationInv' /\ EnrolledHere \subseteq EnrolledHere'
<1>1. ASSUME UNCHANGED enrolled PROVE EnrolledHere' = EnrolledHere
  BY <1>1 DEF EnrolledHere, ParticipantOf, Participants
<1>2. ASSUME NEW t \in Tabs, AskToSignOut(t) \/ \E c \in Courses : AskToJoin(t, c)
      PROVE  ParticipationInv' /\ EnrolledHere \subseteq EnrolledHere'
  <2>1. PICK course \in SUBSET Courses : Asks(t, course)
    BY <1>2 DEF AskToSignOut, AskToJoin
  <2>2. UNCHANGED enrolled
    BY <2>1 DEF Asks
  <2> QED  BY <1>1, <2>1, <2>2, AsksKeeps
<1>3. ASSUME NEW t \in Tabs, HearJoin(t) \/ HearSignOut(t) \/ LoseJoin(t)
      PROVE  ParticipationInv' /\ EnrolledHere \subseteq EnrolledHere'
  BY <1>1, <1>3, JoinEndsKeeps DEF HearJoin, HearSignOut, LoseJoin
<1>4. ASSUME NEW t \in Tabs, SignOut(t) PROVE ParticipationInv' /\ EnrolledHere \subseteq EnrolledHere'
  BY <1>1, <1>4, SignOutKeeps DEF SignOut
<1>5. ASSUME NEW p \in live, Expire(p) PROVE ParticipationInv' /\ EnrolledHere \subseteq EnrolledHere'
  <2>1. UNCHANGED <<enrolled, join>> /\ live' \subseteq live /\ cookie' \subseteq cookie
    BY <1>5 DEF Expire
  <2>2. lapses \subseteq lapses' /\ lapses' # {}
    BY <1>5 DEF Expire
  <2> QED  BY <1>1, <2>1, <2>2, LessHeldKeeps
<1>6. CASE UNCHANGED participationVars
  <2>1. UNCHANGED <<enrolled, join>> /\ live' \subseteq live /\ cookie' \subseteq cookie
    BY <1>6 DEF participationVars
  <2> QED  BY <1>1, <1>6, <2>1, LessHeldKeeps
<1> QED  BY <1>2, <1>3, <1>4, <1>5, <1>6, JoinCourseKeeps DEF ParticipationNext

\* The cookie of an answer leaves nobody out whose session is alive.
LEMMA NobodyLeftOut ==
    ASSUME ParticipationInv,
           ParticipationNext \/ (\E t \in Tabs : LoseJoin(t)) \/ UNCHANGED participationVars,
           NEW p \in cookie, p \in live', ~("overlap" \in lapses)
    PROVE  p \in cookie'
<1>1. ASSUME NEW t \in Tabs, HearJoin(t) PROVE p \in cookie'
  <2>1. t \in Pending /\ p \in Held
    BY <1>1 DEF HearJoin, Pending, Held
  <2>2. p \in join[t].held \cup join[t].token
    BY <2>1 DEF ParticipationInv, Orderly
  <2> QED  BY <1>1, <2>2 DEF HearJoin, CookieAfter
<1>2. ASSUME NEW t \in Tabs,
             \/ JoinCourse(t) \/ SignOut(t) \/ LoseJoin(t)
             \/ AskToSignOut(t) \/ \E c \in Courses : AskToJoin(t, c)
      PROVE  p \in cookie'
  BY <1>2 DEF JoinCourse, SignOut, LoseJoin, AskToSignOut, AskToJoin, Asks
<1>3. ASSUME NEW t \in Tabs PROVE ~HearSignOut(t)
  <2>1. SUFFICES ASSUME HearSignOut(t) PROVE FALSE
    OBVIOUS
  <2>2. t \in Pending /\ p \in Held /\ LeftBy(t)
    BY <2>1 DEF HearSignOut, Pending, Held, LeftBy
  <2> QED  BY <2>2 DEF ParticipationInv, Orderly
<1>4. ASSUME NEW q \in live, Expire(q) PROVE p \in cookie'
  BY <1>4 DEF Expire
<1> QED  BY <1>1, <1>2, <1>3, <1>4 DEF ParticipationNext, participationVars

---------------------------------------------------------------------------
(* Comparisons.                                                            *)

Replies(n) == {Loading} \cup [of : {n}, ok : BOOLEAN]
Gots(n) == [Approaches -> Replies(n)]
Running == [id : Nat, got : [Approaches -> [of : Nat, ok : BOOLEAN]]]
Shown == [question : Nat, states : [Approaches -> [of : Nat, ok : BOOLEAN]]]
Run == [run : Nat, answered : SUBSET Approaches, rated : BOOLEAN]

\* A tab waits for at most one comparison, the one whose question it shows.
TabInv(n, waiting, shown, kept) ==
    /\ \A w \in waiting : w.id \in 1..n /\ w.id = shown.question /\ w.got \in Gots(w.id)
    /\ \A v, w \in waiting : v = w
    /\ shown.states \in Gots(shown.question)
    /\ kept # NoRun => kept.run \in 1..n

ComparisonsInv ==
    /\ asked \in 0..MaxComparisons
    /\ running \in [Tabs -> SUBSET Running] /\ active \in [Tabs -> Shown] /\ stored \in [Tabs -> Run \cup {NoRun}]
    /\ \A t \in Tabs : TabInv(asked, running[t], active[t], stored[t])

LEMMA NothingYet == AllLoading \in Gots(0) /\ Blank \in Shown /\ Blank.question = 0 /\ Blank.states = AllLoading
<1>1. Loading \in [of : Nat, ok : BOOLEAN]
  BY DEF Loading
<1>2. AllLoading \in [Approaches -> [of : Nat, ok : BOOLEAN]]
  BY <1>1 DEF AllLoading
<1> QED  BY <1>2 DEF AllLoading, Gots, Replies, Blank, Shown

LEMMA ComparisonsInitially == ComparisonsInit => ComparisonsInv
<1> SUFFICES ASSUME ComparisonsInit PROVE ComparisonsInv
  OBVIOUS
<1>1. /\ asked = 0 /\ running = [t \in Tabs |-> {}] /\ active = [t \in Tabs |-> Blank]
      /\ stored = [t \in Tabs |-> NoRun]
  BY DEF ComparisonsInit
<1>2. asked \in 0..MaxComparisons
  BY <1>1, ComparisonsAssumption
<1>3. \A t \in Tabs : TabInv(asked, running[t], active[t], stored[t])
  BY <1>1, NothingYet DEF TabInv
<1> QED  BY <1>1, <1>2, <1>3, NothingYet DEF ComparisonsInv

LEMMA RepliesGot ==
    ASSUME NEW n \in Nat, NEW got \in Gots(n)
    PROVE  got \in [Approaches -> [of : Nat, ok : BOOLEAN]]
<1>1. Loading \in [of : Nat, ok : BOOLEAN] /\ [of : {n}, ok : BOOLEAN] \subseteq [of : Nat, ok : BOOLEAN]
  BY DEF Loading
<1>2. Replies(n) \subseteq [of : Nat, ok : BOOLEAN]
  BY <1>1 DEF Replies
<1> QED  BY <1>2 DEF Gots

\* One tab moves, the others stay.
LEMMA TabMoves ==
    ASSUME ComparisonsInv, NEW t \in Tabs, NEW waiting \in SUBSET Running, NEW shown \in Shown,
           NEW kept \in Run \cup {NoRun},
           running' = [running EXCEPT ![t] = waiting], active' = [active EXCEPT ![t] = shown],
           stored' = [stored EXCEPT ![t] = kept],
           asked' \in 0..MaxComparisons, asked <= asked',
           TabInv(asked', waiting, shown, kept)
    PROVE  /\ ComparisonsInv' /\ running'[t] = waiting /\ active'[t] = shown /\ stored'[t] = kept
           /\ \A u \in Tabs : u # t => stored'[u] = stored[u]
<1>1. /\ running \in [Tabs -> SUBSET Running] /\ active \in [Tabs -> Shown]
      /\ stored \in [Tabs -> Run \cup {NoRun}]
  BY DEF ComparisonsInv
<1>2. /\ running' \in [Tabs -> SUBSET Running] /\ running'[t] = waiting
      /\ \A u \in Tabs : u # t => running'[u] = running[u]
  BY <1>1
<1>3. /\ active' \in [Tabs -> Shown] /\ active'[t] = shown
      /\ \A u \in Tabs : u # t => active'[u] = active[u]
  BY <1>1
<1>4. /\ stored' \in [Tabs -> Run \cup {NoRun}] /\ stored'[t] = kept
      /\ \A u \in Tabs : u # t => stored'[u] = stored[u]
  BY <1>1
<1>5. ASSUME NEW u \in Tabs, u # t PROVE TabInv(asked', running[u], active[u], stored[u])
  <2>1. TabInv(asked, running[u], active[u], stored[u])
    BY DEF ComparisonsInv
  <2>2. 1..asked \subseteq 1..asked'
    BY DEF ComparisonsInv
  <2> QED  BY <2>1, <2>2 DEF TabInv
<1>6. \A u \in Tabs : TabInv(asked', running'[u], active'[u], stored'[u])
  BY <1>2, <1>3, <1>4, <1>5
<1> QED  BY <1>2, <1>3, <1>4, <1>6 DEF ComparisonsInv

\* What a tab's own actions leave as it is.
LEMMA TabStays ==
    ASSUME ComparisonsInv, NEW t \in Tabs
    PROVE  /\ running[t] \in SUBSET Running /\ active[t] \in Shown /\ stored[t] \in Run \cup {NoRun}
           /\ running = [running EXCEPT ![t] = running[t]] /\ active = [active EXCEPT ![t] = active[t]]
           /\ stored = [stored EXCEPT ![t] = stored[t]]
           /\ TabInv(asked, running[t], active[t], stored[t])
           /\ asked \in 0..MaxComparisons /\ asked \in Nat /\ MaxComparisons \in Nat
<1>1. /\ running \in [Tabs -> SUBSET Running] /\ active \in [Tabs -> Shown]
      /\ stored \in [Tabs -> Run \cup {NoRun}]
      /\ TabInv(asked, running[t], active[t], stored[t])
  BY DEF ComparisonsInv
<1>2. asked \in 0..MaxComparisons /\ asked \in Nat /\ MaxComparisons \in Nat
  BY ComparisonsAssumption DEF ComparisonsInv
<1> QED  BY <1>1, <1>2

LEMMA StartKeeps ==
    ASSUME ComparisonsInv, NEW t \in Tabs, StartComparison(t)
    PROVE  ComparisonsInv' /\ asked <= asked' /\ asked' \in Nat /\ UNCHANGED stored
<1> DEFINE n == asked + 1
           w == [id |-> n, got |-> AllLoading]
           shown == [question |-> n, states |-> AllLoading]
<1>1. /\ running[t] = {} /\ n <= MaxComparisons /\ asked' = n
      /\ running' = [running EXCEPT ![t] = {} \cup {w}] /\ active' = [active EXCEPT ![t] = shown]
      /\ UNCHANGED stored
  BY DEF StartComparison, MayStart
<1>2. /\ stored[t] \in Run \cup {NoRun} /\ stored = [stored EXCEPT ![t] = stored[t]]
      /\ TabInv(asked, running[t], active[t], stored[t]) /\ asked \in Nat /\ MaxComparisons \in Nat
  BY TabStays
<1>3. n \in Nat /\ n \in 1..n /\ n \in 0..MaxComparisons /\ asked <= n /\ 1..asked \subseteq 1..n
  BY <1>1, <1>2
<1> HIDE DEF n
<1>4. AllLoading \in Gots(n) /\ AllLoading \in [Approaches -> [of : Nat, ok : BOOLEAN]]
  BY <1>3, NothingYet, RepliesGot DEF AllLoading, Gots, Replies
<1>5. w \in Running /\ w.id = n /\ w.got = AllLoading /\ shown \in Shown /\ shown.question = n /\ shown.states = AllLoading
  BY <1>3, <1>4 DEF Running, Shown
<1> HIDE DEF w, shown
<1>6. TabInv(n, {w}, shown, stored[t])
  BY <1>2, <1>3, <1>4, <1>5 DEF TabInv
<1>7. stored' = [stored EXCEPT ![t] = stored[t]] /\ running' = [running EXCEPT ![t] = {w}] /\ {w} \in SUBSET Running
  BY <1>1, <1>2, <1>5
<1>8. asked' \in 0..MaxComparisons /\ asked <= asked' /\ TabInv(asked', {w}, shown, stored[t])
  BY <1>1, <1>3, <1>6
<1>9. ComparisonsInv'
  BY <1>1, <1>2, <1>5, <1>7, <1>8, TabMoves
<1> QED  BY <1>1, <1>3, <1>9

\* A run that settles is a new run of its tab, not yet rated.
LEMMA SettleKeeps ==
    ASSUME ComparisonsInv, NEW t \in Tabs, NEW comparison \in running[t], NEW k \in Approaches,
           Settle(t, comparison, k)
    PROVE  /\ ComparisonsInv' /\ UNCHANGED asked /\ \A u \in Tabs : u # t => stored'[u] = stored[u]
           /\ stored' = stored \/ (stored'[t] \in Run /\ stored'[t].rated = FALSE /\ stored'[t].run \in 1..asked)
<1>1. PICK ok \in BOOLEAN :
        LET answer == [of |-> comparison.id, ok |-> ok]
            got == [comparison.got EXCEPT ![k] = answer]
            rest == running[t] \ {comparison}
        IN
        /\ active' = IF active[t].question = 0 THEN active ELSE [active EXCEPT ![t].states[k] = answer]
        /\ IF \A l \in Approaches : got[l] # Loading
           THEN /\ running' = [running EXCEPT ![t] = rest]
                /\ stored' = [stored EXCEPT ![t] = [run |-> comparison.id, answered |-> Answered(got),
                                                    rated |-> FALSE]]
           ELSE /\ running' = [running EXCEPT ![t] = rest \cup {[comparison EXCEPT !.got = got]}]
                /\ UNCHANGED stored
        /\ UNCHANGED asked
  BY DEF Settle
<1> DEFINE answer == [of |-> comparison.id, ok |-> ok]
           got == [comparison.got EXCEPT ![k] = answer]
           moved == [comparison EXCEPT !.got = got]
           settled == [run |-> comparison.id, answered |-> Answered(got), rated |-> FALSE]
           shown == [active[t] EXCEPT !.states = [active[t].states EXCEPT ![k] = answer]]
<1>2. /\ running[t] \in SUBSET Running /\ active[t] \in Shown /\ stored[t] \in Run \cup {NoRun}
      /\ stored = [stored EXCEPT ![t] = stored[t]]
      /\ TabInv(asked, running[t], active[t], stored[t])
      /\ asked \in 0..MaxComparisons /\ asked \in Nat
  BY TabStays
<1>3. /\ comparison \in Running /\ comparison.id \in 1..asked /\ comparison.id = active[t].question
      /\ comparison.got \in Gots(comparison.id) /\ running[t] \ {comparison} = {}
      /\ active[t].states \in Gots(comparison.id) /\ comparison.id \in Nat /\ comparison.id # 0
  BY <1>2 DEF TabInv
<1>4. answer \in Replies(comparison.id)
  BY DEF Replies
<1> HIDE DEF answer
<1>5. got \in Gots(comparison.id) /\ [active[t].states EXCEPT ![k] = answer] \in Gots(comparison.id)
  BY <1>3, <1>4 DEF Gots
<1>6. /\ got \in [Approaches -> [of : Nat, ok : BOOLEAN]]
      /\ [active[t].states EXCEPT ![k] = answer] \in [Approaches -> [of : Nat, ok : BOOLEAN]]
  BY <1>3, <1>5, RepliesGot
<1>7. settled \in Run /\ settled.run = comparison.id /\ settled.rated = FALSE
  BY <1>3 DEF Run, Answered
<1>8. active' = [active EXCEPT ![t] = shown]
  <2>1. active \in [Tabs -> Shown]
    BY DEF ComparisonsInv
  <2>2. active' = [active EXCEPT ![t].states[k] = answer]
    BY <1>1, <1>3 DEF answer
  <2> QED  BY <2>1, <2>2 DEF Shown
<1> HIDE DEF settled
<1>9. moved \in Running /\ moved.id = comparison.id /\ moved.got = got
  BY <1>3, <1>6 DEF Running
<1>10. shown \in Shown /\ shown.question = comparison.id /\ shown.states \in Gots(comparison.id)
  BY <1>2, <1>3, <1>5, <1>6 DEF Shown
<1>11. \/ running' = [running EXCEPT ![t] = {}] /\ stored' = [stored EXCEPT ![t] = settled]
       \/ running' = [running EXCEPT ![t] = {moved}] /\ stored' = stored
  <2>1. (running[t] \ {comparison}) \cup {moved} = {moved}
    BY <1>3
  <2> QED  BY <1>1, <1>3, <2>1 DEF answer, settled
<1> HIDE DEF moved, shown, got
<1>12. UNCHANGED asked /\ asked' \in 0..MaxComparisons /\ asked <= asked'
  BY <1>1, <1>2
<1>13. CASE running' = [running EXCEPT ![t] = {}] /\ stored' = [stored EXCEPT ![t] = settled]
  <2>1. TabInv(asked', {}, shown, settled) /\ {} \in SUBSET Running
    BY <1>3, <1>7, <1>10, <1>12 DEF TabInv
  <2>2. /\ ComparisonsInv' /\ stored'[t] = settled
        /\ \A u \in Tabs : u # t => stored'[u] = stored[u]
    BY <1>7, <1>8, <1>10, <1>12, <1>13, <2>1, TabMoves
  <2> QED  BY <1>3, <1>7, <1>12, <2>2
<1>14. CASE running' = [running EXCEPT ![t] = {moved}] /\ stored' = stored
  <2>1. TabInv(asked', {moved}, shown, stored[t]) /\ {moved} \in SUBSET Running
    BY <1>2, <1>3, <1>5, <1>9, <1>10, <1>12 DEF TabInv
  <2>2. stored' = [stored EXCEPT ![t] = stored[t]]
    BY <1>2, <1>14
  <2>3. ComparisonsInv'
    BY <1>2, <1>8, <1>10, <1>12, <1>14, <2>1, <2>2, TabMoves
  <2> QED  BY <1>12, <1>14, <2>3
<1> QED  BY <1>11, <1>13, <1>14

LEMMA ClearKeeps ==
    ASSUME ComparisonsInv, NEW t \in Tabs, ClearRun(t)
    PROVE  /\ ComparisonsInv' /\ UNCHANGED asked /\ stored'[t] = NoRun
           /\ \A u \in Tabs : u # t => stored'[u] = stored[u]
<1>1. /\ running[t] \in SUBSET Running /\ active[t] \in Shown
      /\ running = [running EXCEPT ![t] = running[t]] /\ active = [active EXCEPT ![t] = active[t]]
      /\ TabInv(asked, running[t], active[t], stored[t])
      /\ asked \in 0..MaxComparisons /\ asked \in Nat
  BY TabStays
<1>2. /\ stored' = [stored EXCEPT ![t] = NoRun] /\ UNCHANGED <<asked, running>>
      /\ active' = IF running[t] # {} THEN active ELSE [active EXCEPT ![t] = Blank]
  BY DEF ClearRun
<1>3. /\ running' = [running EXCEPT ![t] = running[t]] /\ asked' \in 0..MaxComparisons /\ asked <= asked'
      /\ stored' = [stored EXCEPT ![t] = NoRun] /\ NoRun \in Run \cup {NoRun} /\ Blank \in Shown
      /\ asked' = asked
  BY <1>1, <1>2, NothingYet
<1>4. CASE running[t] # {}
  <2>1. active' = [active EXCEPT ![t] = active[t]]
    BY <1>1, <1>2, <1>4
  <2>2. TabInv(asked', running[t], active[t], NoRun)
    BY <1>1, <1>3 DEF TabInv
  <2> QED  BY <1>1, <1>3, <2>1, <2>2, TabMoves
<1>5. CASE running[t] = {}
  <2>1. active' = [active EXCEPT ![t] = Blank]
    BY <1>2, <1>5
  <2>2. TabInv(asked', running[t], Blank, NoRun)
    BY <1>5, NothingYet DEF TabInv
  <2> QED  BY <1>1, <1>3, <2>1, <2>2, TabMoves
<1> QED  BY <1>4, <1>5

LEMMA OpenKeeps ==
    ASSUME ComparisonsInv, NEW t \in Tabs, NEW u \in Tabs, OpenTab(u, t)
    PROVE  /\ ComparisonsInv' /\ UNCHANGED asked /\ stored'[u] = stored[t]
           /\ \A v \in Tabs : v # u => stored'[v] = stored[v]
<1>1. /\ stored[t] \in Run \cup {NoRun} /\ TabInv(asked, running[t], active[t], stored[t])
      /\ asked \in 0..MaxComparisons /\ asked \in Nat
  BY TabStays
<1>2. /\ running' = [running EXCEPT ![u] = {}] /\ active' = [active EXCEPT ![u] = Blank]
      /\ stored' = [stored EXCEPT ![u] = stored[t]] /\ UNCHANGED asked
  BY DEF OpenTab
<1>3. /\ TabInv(asked', {}, Blank, stored[t]) /\ asked' \in 0..MaxComparisons /\ asked <= asked'
      /\ {} \in SUBSET Running /\ Blank \in Shown /\ asked' = asked
  BY <1>1, <1>2, NothingYet DEF TabInv
<1>4. /\ running' = [running EXCEPT ![u] = {}] /\ active' = [active EXCEPT ![u] = Blank]
      /\ stored' = [stored EXCEPT ![u] = stored[t]]
  BY <1>2
<1> DEFINE kept == stored[t]
<1>5. kept \in Run \cup {NoRun} /\ TabInv(asked', {}, Blank, kept) /\ stored' = [stored EXCEPT ![u] = kept]
  BY <1>1, <1>3, <1>4
<1> HIDE DEF kept
<1>6. /\ ComparisonsInv' /\ stored'[u] = kept /\ \A v \in Tabs : v # u => stored'[v] = stored[v]
  BY <1>3, <1>4, <1>5, TabMoves
<1> QED  BY <1>3, <1>6 DEF kept

\* A run that is marked is the run it was.
LEMMA MarkKeeps ==
    ASSUME ComparisonsInv, NEW t \in Tabs, NEW run, stored' = MarkRated(t, run),
           UNCHANGED <<asked, running, active>>
    PROVE  /\ ComparisonsInv'
           /\ \A u \in Tabs : /\ Shows(u)' => Shows(u) /\ stored'[u].run = stored[u].run
                              /\ stored'[u].rated = stored[u].rated \/ stored[u].run = run
<1>1. /\ running[t] \in SUBSET Running /\ active[t] \in Shown /\ stored[t] \in Run \cup {NoRun}
      /\ running = [running EXCEPT ![t] = running[t]] /\ active = [active EXCEPT ![t] = active[t]]
      /\ TabInv(asked, running[t], active[t], stored[t])
      /\ asked \in 0..MaxComparisons /\ asked \in Nat
  BY TabStays
<1>2. CASE stored' = stored
  <2>1. ComparisonsInv'
    BY <1>2 DEF ComparisonsInv
  <2> QED  BY <1>2, <2>1 DEF Shows
<1>3. CASE Shows(t) /\ stored[t].run = run /\ stored' = [stored EXCEPT ![t].rated = TRUE]
  <2> DEFINE kept == [stored[t] EXCEPT !.rated = TRUE]
  <2>1. stored[t] \in Run
    BY <1>1, <1>3 DEF Shows
  <2>2. kept \in Run /\ kept \in Run \cup {NoRun} /\ kept.run = stored[t].run
    BY <2>1 DEF Run
  <2>3. stored' = [stored EXCEPT ![t] = kept]
    BY <1>3
  <2> HIDE DEF kept
  <2>4. TabInv(asked, running[t], active[t], kept)
    BY <1>1, <1>3, <2>2 DEF TabInv, Shows
  <2>5. stored \in [Tabs -> Run \cup {NoRun}]
    BY DEF ComparisonsInv
  <2>6. /\ stored' \in [Tabs -> Run \cup {NoRun}] /\ stored'[t] = kept
        /\ \A u \in Tabs : u # t => stored'[u] = stored[u]
    BY <2>2, <2>3, <2>5
  <2>7. ComparisonsInv'
    BY <2>4, <2>6 DEF ComparisonsInv
  <2>8. \A u \in Tabs : stored'[u] = stored[u] \/ (u = t /\ stored'[u].run = stored[u].run)
    BY <2>2, <2>6
  <2>9. \A u \in Tabs : Shows(u)' => Shows(u)
    BY <1>3, <2>8 DEF Shows
  <2> QED  BY <1>3, <2>7, <2>8, <2>9
<1> QED  BY <1>2, <1>3 DEF MarkRated

---------------------------------------------------------------------------
(* Ratings.                                                                *)

Stages == {"unsent", "sent", "inserting", "saved", "duplicate", "refused", "over"}
Submission == [stage : Stages, tab : SUBSET Tabs, run : Nat, answered : SUBSET Approaches,
               pick : SUBSET Approaches, sight : Nat, who : SUBSET Nat]
Page == [open : BOOLEAN, pick : SUBSET Approaches, sight : 0..MaxComparisons, submitted : BOOLEAN,
         saving : {0} \cup Calls]

\* A submission of a run that was asked, chosen from that run or from the one it replaced.
Good(call, n, noted, taken, here) ==
    /\ call.stage \in Stages /\ call.who \subseteq here
    /\ call.stage \notin {"unsent", "over"} =>
          call.run \in 1..n /\ (call.sight = call.run \/ call.run \in taken)
    /\ call.stage \in {"saved", "duplicate"} => call.run \in noted
    /\ call.stage = "inserting" => call.who # {} /\ call.pick \subseteq call.answered

\* What a tab's form and its stored run have to do with each other.
Fit(form, run, noted, taken) ==
    run # NoRun =>
        /\ form.pick = {} \/ form.sight = run.run \/ run.run \in taken
        /\ run.rated = FALSE \/ run.run \in noted

SameRating(a, b) == a.run = b.run /\ a.who = b.who

CallsInv ==
    /\ calls \in [Calls -> Submission]
    /\ \A c \in Calls : Good(calls[c], asked, recorded, replaced, EnrolledHere)

\* Who inserts holds the lock, and found no rating of the same run.
LocksInv ==
    /\ \A c \in Calls, r \in rows : calls[c].stage = "inserting" => ~SameRating(r, calls[c])
    /\ \A c, d \in Calls : calls[c].stage = "inserting" /\ calls[d].stage = "inserting"
                              /\ SameRating(calls[c], calls[d]) => c = d

RowInv(r, noted, taken, here) ==
    /\ r.who # {} /\ r.who \subseteq here /\ r.run \in noted
    /\ r.pick \subseteq r.answered /\ (r.sight = r.run \/ r.run \in taken)

RowsInv ==
    /\ \A r \in rows : RowInv(r, recorded, replaced, EnrolledHere)
    /\ \A r, s \in rows : SameRating(r, s) => r = s

PagesInv ==
    /\ page \in [Tabs -> Page]
    /\ \A t \in Tabs : Fit(page[t], stored[t], recorded, replaced)

HistoryInv == recorded \subseteq 1..asked /\ replaced \subseteq 1..asked

RatingsInv == CallsInv /\ LocksInv /\ RowsInv /\ PagesInv /\ HistoryInv

ClassroomInv == ParticipationInv /\ ComparisonsInv /\ RatingsInv

\* What a step may only add to.
Onward ==
    /\ asked \in Nat /\ asked' \in Nat /\ asked <= asked'
    /\ recorded \subseteq recorded' /\ replaced \subseteq replaced' /\ EnrolledHere \subseteq EnrolledHere'

LEMMA NoCalls ==
    /\ NoCall \in Submission /\ NoCall.stage = "unsent" /\ NoCall.who = {}
    /\ Over \in Submission /\ Over.stage = "over" /\ Over.who = {}
<1>1. NoCall \in Submission /\ NoCall.stage = "unsent" /\ NoCall.who = {}
  BY DEF NoCall, Submission, Stages
<1> QED  BY <1>1 DEF Over, Submission, Stages

LEMMA NoForms ==
    /\ Elsewhere \in Page /\ Elsewhere.pick = {}
    /\ Form \in Page /\ Form.pick = {}
<1>1. 0 \in 0..MaxComparisons
  BY ComparisonsAssumption
<1>2. Elsewhere \in Page /\ Elsewhere.pick = {}
  BY <1>1 DEF Elsewhere, Page
<1> QED  BY <1>2 DEF Form, Page

LEMMA ClassroomInitially == ClassroomInit => ClassroomInv
<1> SUFFICES ASSUME ClassroomInit PROVE ClassroomInv
  OBVIOUS
<1>1. ParticipationInv /\ ComparisonsInv
  BY ParticipationInitially, ComparisonsInitially DEF ClassroomInit
<1>2. /\ page = [t \in Tabs |-> Elsewhere] /\ calls = [c \in Calls |-> NoCall]
      /\ rows = {} /\ recorded = {} /\ replaced = {} /\ stored = [t \in Tabs |-> NoRun]
  BY DEF ClassroomInit, RatingsInit, ComparisonsInit
<1>3. CallsInv
  BY <1>2, NoCalls DEF CallsInv, Good, Stages
<1>4. LocksInv /\ RowsInv /\ HistoryInv
  BY <1>2, NoCalls DEF LocksInv, RowsInv, HistoryInv
<1>5. PagesInv
  BY <1>2, NoForms DEF PagesInv, Fit
<1> QED  BY <1>1, <1>3, <1>4, <1>5 DEF ClassroomInv, RatingsInv

LEMMA CallsKept ==
    ASSUME CallsInv, Onward, calls' \in [Calls -> Submission],
           \A c \in Calls : \/ Good(calls'[c], asked', recorded', replaced', EnrolledHere')
                            \/ calls'[c] = calls[c]
    PROVE  CallsInv'
<1>1. ASSUME NEW c \in Calls PROVE Good(calls[c], asked', recorded', replaced', EnrolledHere')
  <2>1. Good(calls[c], asked, recorded, replaced, EnrolledHere) /\ 1..asked \subseteq 1..asked'
    BY DEF CallsInv, Onward
  <2> QED  BY <2>1 DEF Good, Onward
<1> QED  BY <1>1 DEF CallsInv

LEMMA LocksKept ==
    ASSUME LocksInv,
           \A c \in Calls : calls'[c].stage = "inserting" =>
                              calls[c].stage = "inserting" /\ SameRating(calls'[c], calls[c]),
           \A r \in rows' : \/ r \in rows
                            \/ \E c \in Calls : /\ calls[c].stage = "inserting" /\ SameRating(r, calls[c])
                                                /\ calls'[c].stage # "inserting"
    PROVE  LocksInv'
<1>1. ASSUME NEW c \in Calls, NEW r \in rows', calls'[c].stage = "inserting" PROVE ~SameRating(r, calls'[c])
  <2>1. calls[c].stage = "inserting" /\ SameRating(calls'[c], calls[c])
    BY <1>1
  <2>2. CASE r \in rows
    BY <2>1, <2>2 DEF LocksInv, SameRating
  <2>3. ASSUME NEW d \in Calls, calls[d].stage = "inserting", SameRating(r, calls[d]),
               calls'[d].stage # "inserting", SameRating(r, calls'[c])
        PROVE  FALSE
    <3>1. SameRating(calls[c], calls[d])
      BY <2>1, <2>3 DEF SameRating
    <3>2. c = d
      BY <2>1, <2>3, <3>1 DEF LocksInv
    <3> QED  BY <1>1, <2>3, <3>2
  <2> QED  BY <2>2, <2>3
<1>2. ASSUME NEW c \in Calls, NEW d \in Calls, calls'[c].stage = "inserting", calls'[d].stage = "inserting",
             SameRating(calls'[c], calls'[d])
      PROVE  c = d
  BY <1>2 DEF LocksInv, SameRating
<1> QED  BY <1>1, <1>2 DEF LocksInv

LEMMA RowsKept ==
    ASSUME RowsInv, Onward, rows' \subseteq rows
    PROVE  RowsInv'
<1>1. ASSUME NEW r \in rows' PROVE RowInv(r, recorded', replaced', EnrolledHere')
  BY DEF RowsInv, RowInv, Onward
<1> QED  BY <1>1 DEF RowsInv

LEMMA FitStill ==
    ASSUME PagesInv, Onward, NEW t \in Tabs, NEW form, NEW run,
           run # NoRun => stored[t] # NoRun /\ run.run = stored[t].run,
           form.pick = page[t].pick /\ form.sight = page[t].sight,
           run # NoRun => run.rated = stored[t].rated \/ run.run \in recorded'
    PROVE  Fit(form, run, recorded', replaced')
<1>1. Fit(page[t], stored[t], recorded, replaced)
  BY DEF PagesInv
<1> QED  BY <1>1 DEF Fit, Onward

\* Nothing of the ratings moves but what the step's history adds.
LEMMA RatingsStay ==
    ASSUME RatingsInv, Onward, UNCHANGED <<page, calls, rows>>, HistoryInv',
           \A t \in Tabs : stored'[t] = stored[t] \/ Fit(page[t], stored'[t], recorded', replaced')
    PROVE  RatingsInv'
<1>1. CallsInv /\ LocksInv /\ RowsInv /\ PagesInv
  BY DEF RatingsInv
<1>2. CallsInv'
  <2>1. calls' \in [Calls -> Submission] /\ \A c \in Calls : calls'[c] = calls[c]
    BY <1>1 DEF CallsInv
  <2> QED  BY <1>1, <2>1, CallsKept
<1>3. LocksInv'
  BY <1>1 DEF LocksInv
<1>4. RowsInv'
  BY <1>1, RowsKept
<1>5. PagesInv'
  <2>1. \A t \in Tabs : Fit(page[t], stored[t], recorded', replaced')
    BY <1>1, FitStill
  <2> QED  BY <1>1, <2>1 DEF PagesInv
<1> QED  BY <1>2, <1>3, <1>4, <1>5 DEF RatingsInv

\* The backend or the network moves one submission.
LEMMA CallMoves ==
    ASSUME RatingsInv, Onward, NEW c \in Calls, NEW call \in Submission, calls' = [calls EXCEPT ![c] = call],
           \/ Good(call, asked', recorded', replaced', EnrolledHere')
           \/ call.stage = "over" /\ call.who = {},
           call.stage = "inserting" => calls[c].stage = "inserting" /\ SameRating(call, calls[c]),
           rows' \subseteq rows
    PROVE  CallsInv' /\ LocksInv' /\ RowsInv'
<1>1. CallsInv /\ LocksInv /\ RowsInv /\ calls \in [Calls -> Submission]
  BY DEF RatingsInv, CallsInv
<1>2. /\ calls' \in [Calls -> Submission] /\ calls'[c] = call
      /\ \A d \in Calls : d # c => calls'[d] = calls[d]
  BY <1>1
<1>3. Good(call, asked', recorded', replaced', EnrolledHere')
  BY DEF Good, Stages
<1>4. \A d \in Calls : \/ Good(calls'[d], asked', recorded', replaced', EnrolledHere')
                       \/ calls'[d] = calls[d]
  BY <1>2, <1>3
<1>5. \A d \in Calls : calls'[d].stage = "inserting" =>
                              calls[d].stage = "inserting" /\ SameRating(calls'[d], calls[d])
  BY <1>2 DEF SameRating
<1>6. CallsInv'
  BY <1>1, <1>2, <1>4, CallsKept
<1>7. LocksInv'
  BY <1>1, <1>5, LocksKept
<1>8. RowsInv'
  BY <1>1, RowsKept
<1> QED  BY <1>6, <1>7, <1>8

\* The tab that sent a submission no longer waits.
LEMMA WaitsNoMore ==
    ASSUME page \in [Tabs -> Page], NEW c \in Calls, page' = Unsaved(c) \/ page' = Thanks(c)
    PROVE  /\ page' \in [Tabs -> Page]
           /\ \A t \in Tabs : page'[t].pick = page[t].pick /\ page'[t].sight = page[t].sight
<1>1. ASSUME NEW t \in Tabs
      PROVE  /\ [page[t] EXCEPT !.saving = 0] \in Page
             /\ [page[t] EXCEPT !.saving = 0, !.submitted = TRUE] \in Page
             /\ [page[t] EXCEPT !.saving = 0].pick = page[t].pick
             /\ [page[t] EXCEPT !.saving = 0].sight = page[t].sight
             /\ [page[t] EXCEPT !.saving = 0, !.submitted = TRUE].pick = page[t].pick
             /\ [page[t] EXCEPT !.saving = 0, !.submitted = TRUE].sight = page[t].sight
  <2>1. page[t] \in Page
    OBVIOUS
  <2> QED  BY <2>1 DEF Page
<1>2. CASE page' = Unsaved(c)
  BY <1>1, <1>2 DEF Unsaved
<1>3. CASE page' = Thanks(c)
  BY <1>1, <1>3 DEF Thanks
<1> QED  BY <1>2, <1>3

\* An answer reaches a submission whose tab still listens.
LEMMA Replied ==
    ASSUME calls \in [Calls -> Submission], NEW c \in Calls, NEW stage \in Stages, Answer(c, stage)
    PROVE  \E call \in Submission :
              /\ calls' = [calls EXCEPT ![c] = call]
              /\ \/ call.stage = "over" /\ call.who = {}
                 \/ /\ call.stage = stage /\ SameRating(call, calls[c])
                    /\ call.sight = calls[c].sight /\ call.pick = calls[c].pick
                    /\ call.answered = calls[c].answered
<1>1. calls[c] \in Submission
  OBVIOUS
<1>2. CASE calls[c].tab = {}
  <2>1. calls' = [calls EXCEPT ![c] = Over]
    BY <1>2 DEF Answer
  <2> QED  BY <2>1, NoCalls
<1>3. CASE calls[c].tab # {}
  <2> DEFINE call == [calls[c] EXCEPT !.stage = stage]
  <2>1. calls' = [calls EXCEPT ![c] = call]
    BY <1>3 DEF Answer
  <2>2. /\ call \in Submission /\ call.stage = stage /\ SameRating(call, calls[c])
        /\ call.sight = calls[c].sight /\ call.pick = calls[c].pick /\ call.answered = calls[c].answered
    BY <1>1 DEF Submission, SameRating
  <2> HIDE DEF call
  <2> QED  BY <2>1, <2>2
<1> QED  BY <1>2, <1>3

---------------------------------------------------------------------------
(* Ratings: the steps of the backend and the network.                      *)

LEMMA BackendKeeps ==
    ASSUME ClassroomInv, NEW c \in Calls,
           Refuse(c) \/ CreateEvaluation(c) \/ Rollback(c),
           UNCHANGED <<asked, running, active, replaced, participationVars>>
    PROVE  ClassroomInv'
<1>1. /\ ParticipationInv /\ ComparisonsInv /\ RatingsInv /\ CallsInv /\ LocksInv /\ RowsInv /\ PagesInv
      /\ calls \in [Calls -> Submission] /\ Good(calls[c], asked, recorded, replaced, EnrolledHere)
  BY DEF ClassroomInv, RatingsInv, CallsInv
<1>2. UNCHANGED <<asked, running, active, stored, replaced, recorded, rows, page>>
  BY DEF Refuse, CreateEvaluation, Rollback
<1>3. /\ ParticipationInv' /\ EnrolledHere' = EnrolledHere
  BY <1>1, ParticipationKeeps DEF participationVars, EnrolledHere, ParticipantOf, Participants
<1>4. Onward /\ HistoryInv'
  BY <1>1, <1>2, <1>3, ComparisonsAssumption DEF Onward, ComparisonsInv, RatingsInv, HistoryInv
<1>5. ComparisonsInv' /\ PagesInv'
  BY <1>1, <1>2 DEF ComparisonsInv, PagesInv
<1>6. ASSUME NEW stage \in Stages, Answer(c, stage), stage # "inserting", calls[c].stage \in {"sent", "inserting"},
             stage \in {"saved", "duplicate"} => calls[c].run \in recorded
      PROVE  CallsInv' /\ LocksInv' /\ RowsInv'
  <2>1. PICK call \in Submission :
              /\ calls' = [calls EXCEPT ![c] = call]
              /\ \/ call.stage = "over" /\ call.who = {}
                 \/ /\ call.stage = stage /\ SameRating(call, calls[c])
                    /\ call.sight = calls[c].sight /\ call.pick = calls[c].pick
                    /\ call.answered = calls[c].answered
    BY <1>1, <1>6, Replied
  <2>2. call.stage # "inserting"
    BY <1>6, <2>1
  <2>3. \/ Good(call, asked', recorded', replaced', EnrolledHere')
        \/ call.stage = "over" /\ call.who = {}
    BY <1>1, <1>2, <1>3, <1>6, <2>1 DEF Good, SameRating
  <2>4. rows' \subseteq rows
    BY <1>2
  <2> QED  BY <1>1, <1>4, <2>1, <2>2, <2>3, <2>4, CallMoves
<1>7. CASE Refuse(c) \/ Rollback(c)
  <2>1. Answer(c, "refused") /\ calls[c].stage \in {"sent", "inserting"}
    BY <1>7 DEF Refuse, Rollback
  <2>2. CallsInv' /\ LocksInv' /\ RowsInv'
    BY <1>6, <2>1 DEF Stages
  <2> QED  BY <1>3, <1>4, <1>5, <2>2 DEF ClassroomInv, RatingsInv
<1>8. CASE CreateEvaluation(c)
  <2>1. calls[c].stage = "sent" /\ Acceptable(c) /\ LockFree(c)
    BY <1>8 DEF CreateEvaluation
  <2>2. CASE \E r \in rows : r.who = calls[c].who /\ r.run = calls[c].run
    <3>1. Answer(c, "duplicate")
      BY <1>8, <2>2 DEF CreateEvaluation
    <3>2. calls[c].run \in recorded
      BY <1>1, <2>2 DEF RowsInv, RowInv
    <3>3. CallsInv' /\ LocksInv' /\ RowsInv'
      BY <1>6, <2>1, <3>1, <3>2 DEF Stages
    <3> QED  BY <1>3, <1>4, <1>5, <3>3 DEF ClassroomInv, RatingsInv
  <2>3. CASE ~\E r \in rows : r.who = calls[c].who /\ r.run = calls[c].run
    <3> DEFINE call == [calls[c] EXCEPT !.stage = "inserting"]
    <3>1. calls' = [calls EXCEPT ![c] = call]
      BY <1>8, <2>3 DEF CreateEvaluation
    <3>2. /\ call \in Submission /\ call.stage = "inserting" /\ SameRating(call, calls[c])
          /\ call.sight = calls[c].sight /\ call.pick = calls[c].pick /\ call.answered = calls[c].answered
      BY <1>1 DEF Submission, Stages, SameRating
    <3> HIDE DEF call
    <3>3. /\ calls' \in [Calls -> Submission] /\ calls'[c] = call
          /\ \A d \in Calls : d # c => calls'[d] = calls[d]
      BY <1>1, <3>1, <3>2
    <3>4. Good(call, asked', recorded', replaced', EnrolledHere')
      BY <1>1, <1>2, <1>3, <2>1, <3>2 DEF Good, SameRating, Acceptable, Stages
    <3>5. CallsInv'
      BY <1>1, <1>4, <3>3, <3>4, CallsKept
    <3>6. \A r \in rows : ~SameRating(r, call)
      BY <2>3, <3>2 DEF SameRating
    <3>7. \A d \in Calls : calls[d].stage = "inserting" => ~SameRating(calls[d], call)
      BY <2>1, <3>2 DEF LockFree, SameRating
    <3>8. LocksInv'
      <4>1. ASSUME NEW d \in Calls, NEW r \in rows, calls'[d].stage = "inserting" PROVE ~SameRating(r, calls'[d])
        BY <1>1, <3>3, <3>6, <4>1 DEF LocksInv
      <4>2. ASSUME NEW d \in Calls, NEW e \in Calls, calls'[d].stage = "inserting",
                   calls'[e].stage = "inserting", SameRating(calls'[d], calls'[e])
            PROVE  d = e
        BY <1>1, <3>3, <3>7, <4>2 DEF LocksInv, SameRating
      <4> QED  BY <1>2, <4>1, <4>2 DEF LocksInv
    <3>9. RowsInv'
      BY <1>1, <1>2, <1>4, RowsKept
    <3> QED  BY <1>3, <1>4, <1>5, <3>5, <3>8, <3>9 DEF ClassroomInv, RatingsInv
  <2> QED  BY <2>2, <2>3
<1> QED  BY <1>7, <1>8

LEMMA CommitKeeps ==
    ASSUME ClassroomInv, NEW c \in Calls, Commit(c),
           UNCHANGED <<asked, running, active, replaced, participationVars>>
    PROVE  ClassroomInv'
<1> DEFINE row == [id |-> c, who |-> calls[c].who, run |-> calls[c].run, answered |-> calls[c].answered,
                   pick |-> calls[c].pick, sight |-> calls[c].sight]
<1>1. /\ ParticipationInv /\ ComparisonsInv /\ RatingsInv /\ CallsInv /\ LocksInv /\ RowsInv /\ PagesInv
      /\ calls \in [Calls -> Submission] /\ Good(calls[c], asked, recorded, replaced, EnrolledHere)
      /\ HistoryInv
  BY DEF ClassroomInv, RatingsInv, CallsInv
<1>2. /\ calls[c].stage = "inserting" /\ rows' = rows \cup {row} /\ recorded' = recorded \cup {calls[c].run}
      /\ Answer(c, "saved") /\ UNCHANGED <<stored, page>>
  BY DEF Commit
<1>3. /\ ParticipationInv' /\ EnrolledHere' = EnrolledHere
  BY <1>1, ParticipationKeeps DEF participationVars, EnrolledHere, ParticipantOf, Participants
<1>4. calls[c].run \in 1..asked
  BY <1>1, <1>2 DEF Good
<1>5. Onward /\ HistoryInv'
  <2>1. asked' = asked /\ replaced' = replaced /\ recorded \subseteq recorded'
    BY <1>2
  <2>2. asked \in Nat /\ asked <= asked
    BY <1>1, ComparisonsAssumption DEF ComparisonsInv
  <2>3. Onward
    BY <1>3, <2>1, <2>2 DEF Onward
  <2>4. recorded' \subseteq 1..asked /\ replaced \subseteq 1..asked
    BY <1>1, <1>2, <1>4 DEF HistoryInv
  <2>5. HistoryInv'
    BY <2>1, <2>4 DEF HistoryInv
  <2> QED  BY <2>3, <2>5
<1>6. ComparisonsInv'
  BY <1>1, <1>2 DEF ComparisonsInv
<1>7. PagesInv'
  <2>1. \A t \in Tabs : Fit(page[t], stored[t], recorded', replaced')
    BY <1>1, <1>5, FitStill
  <2> QED  BY <1>1, <1>2, <2>1 DEF PagesInv
<1>8. PICK call \in Submission :
              /\ calls' = [calls EXCEPT ![c] = call]
              /\ \/ call.stage = "over" /\ call.who = {}
                 \/ /\ call.stage = "saved" /\ SameRating(call, calls[c])
                    /\ call.sight = calls[c].sight /\ call.pick = calls[c].pick
                    /\ call.answered = calls[c].answered
  BY <1>1, <1>2, Replied DEF Stages
<1>9. /\ calls' \in [Calls -> Submission] /\ calls'[c] = call
      /\ \A d \in Calls : d # c => calls'[d] = calls[d]
  BY <1>1, <1>8
<1>10. Good(call, asked', recorded', replaced', EnrolledHere') /\ call.stage # "inserting"
  BY <1>1, <1>2, <1>3, <1>8 DEF Good, SameRating, Stages
<1>11. CallsInv'
  BY <1>1, <1>5, <1>9, <1>10, CallsKept
<1>12. SameRating(row, calls[c])
  BY DEF SameRating
<1>13. LocksInv'
  <2>1. \A d \in Calls : calls'[d].stage = "inserting" =>
                              calls[d].stage = "inserting" /\ SameRating(calls'[d], calls[d])
    BY <1>9, <1>10 DEF SameRating
  <2>2. \A r \in rows' : \/ r \in rows
                         \/ \E d \in Calls : /\ calls[d].stage = "inserting" /\ SameRating(r, calls[d])
                                             /\ calls'[d].stage # "inserting"
    BY <1>2, <1>9, <1>10, <1>12
  <2> QED  BY <1>1, <2>1, <2>2, LocksKept
<1>14. RowInv(row, recorded', replaced', EnrolledHere')
  BY <1>1, <1>2, <1>3 DEF RowInv, Good
<1> HIDE DEF row
<1>15. RowsInv'
  <2>1. \A r \in rows : RowInv(r, recorded', replaced', EnrolledHere')
    BY <1>1, <1>5 DEF RowsInv, RowInv, Onward
  <2>2. \A r \in rows : ~SameRating(r, calls[c])
    BY <1>1, <1>2 DEF LocksInv
  <2>3. \A r, s \in rows' : SameRating(r, s) => r = s
    BY <1>1, <1>2, <1>12, <2>2 DEF RowsInv, SameRating
  <2> QED  BY <1>2, <1>14, <2>1, <2>3 DEF RowsInv
<1> QED  BY <1>3, <1>5, <1>6, <1>7, <1>11, <1>13, <1>15 DEF ClassroomInv, RatingsInv

LEMMA AnswerKeeps ==
    ASSUME ClassroomInv, NEW c \in Calls, HearCall(c) \/ LoseCall(c),
           UNCHANGED <<asked, running, active, replaced, participationVars>>
    PROVE  ClassroomInv'
<1>1. /\ ParticipationInv /\ ComparisonsInv /\ RatingsInv /\ CallsInv /\ LocksInv /\ RowsInv /\ PagesInv
      /\ calls \in [Calls -> Submission] /\ Good(calls[c], asked, recorded, replaced, EnrolledHere)
      /\ HistoryInv /\ calls[c] \in Submission
  BY DEF ClassroomInv, RatingsInv, CallsInv
<1>2. UNCHANGED <<asked, running, active, replaced, recorded, rows>> /\ (page' = Unsaved(c) \/ page' = Thanks(c))
  BY DEF HearCall, LoseCall
<1>3. /\ ParticipationInv' /\ EnrolledHere' = EnrolledHere
  BY <1>1, ParticipationKeeps DEF participationVars, EnrolledHere, ParticipantOf, Participants
<1>4. Onward /\ HistoryInv'
  BY <1>1, <1>2, <1>3, ComparisonsAssumption DEF Onward, ComparisonsInv, HistoryInv
<1>5. /\ page' \in [Tabs -> Page]
      /\ \A t \in Tabs : page'[t].pick = page[t].pick /\ page'[t].sight = page[t].sight
  BY <1>1, <1>2, WaitsNoMore DEF PagesInv
<1>6. CallsInv' /\ LocksInv' /\ RowsInv'
  <2>1. ASSUME NEW call \in Submission, calls' = [calls EXCEPT ![c] = call],
               \/ /\ call.stage = calls[c].stage /\ SameRating(call, calls[c])
                  /\ call.sight = calls[c].sight /\ call.pick = calls[c].pick
                  /\ call.answered = calls[c].answered
               \/ call.stage = "over" /\ call.who = {}
        PROVE  CallsInv' /\ LocksInv' /\ RowsInv'
    <3>1. \/ Good(call, asked', recorded', replaced', EnrolledHere')
          \/ call.stage = "over" /\ call.who = {}
      BY <1>1, <1>2, <1>3, <2>1 DEF Good, SameRating
    <3>2. call.stage = "inserting" => calls[c].stage = "inserting" /\ SameRating(call, calls[c])
      BY <2>1
    <3>3. rows' \subseteq rows
      BY <1>2
    <3> QED  BY <1>1, <1>4, <2>1, <3>1, <3>2, <3>3, CallMoves
  <2>2. CASE calls' = [calls EXCEPT ![c] = Over]
    BY <2>1, <2>2, NoCalls
  <2>3. CASE calls' = [calls EXCEPT ![c].tab = {}]
    <3> DEFINE call == [calls[c] EXCEPT !.tab = {}]
    <3>1. calls' = [calls EXCEPT ![c] = call]
      BY <2>3
    <3>2. /\ call \in Submission /\ call.stage = calls[c].stage /\ SameRating(call, calls[c])
          /\ call.sight = calls[c].sight /\ call.pick = calls[c].pick /\ call.answered = calls[c].answered
      BY <1>1 DEF Submission, SameRating
    <3> HIDE DEF call
    <3> QED  BY <2>1, <3>1, <3>2
  <2> QED  BY <2>2, <2>3 DEF HearCall, LoseCall, Deafened
<1>7. ComparisonsInv' /\ PagesInv'
  <2>1. CASE stored' = stored
    <3>1. \A t \in Tabs : Fit(page'[t], stored[t], recorded', replaced')
      BY <1>1, <1>4, <1>5, FitStill
    <3> QED  BY <1>1, <1>2, <1>5, <2>1, <3>1 DEF ComparisonsInv, PagesInv
  <2>2. ASSUME NEW t \in Tabs, stored' = MarkRated(t, calls[c].run), calls[c].stage \in {"saved", "duplicate"}
        PROVE  ComparisonsInv' /\ PagesInv'
    <3>1. UNCHANGED <<asked, running, active>>
      BY <1>2
    <3>2. /\ ComparisonsInv'
          /\ \A u \in Tabs : /\ Shows(u)' => Shows(u) /\ stored'[u].run = stored[u].run
                             /\ stored'[u].rated = stored[u].rated \/ stored[u].run = calls[c].run
      BY <1>1, <2>2, <3>1, MarkKeeps
    <3>3. calls[c].run \in recorded'
      BY <1>1, <1>2, <2>2 DEF Good
    <3>4. \A u \in Tabs : Fit(page'[u], stored'[u], recorded', replaced')
      <4>1. SUFFICES ASSUME NEW u \in Tabs PROVE Fit(page'[u], stored'[u], recorded', replaced')
        OBVIOUS
      <4>2. stored'[u] # NoRun => stored[u] # NoRun /\ stored'[u].run = stored[u].run
        BY <3>2 DEF Shows
      <4>3. CASE stored'[u] = NoRun
        BY <4>3 DEF Fit
      <4>4. CASE stored'[u] # NoRun /\ stored'[u].rated = stored[u].rated
        BY <1>1, <1>4, <1>5, <4>2, <4>4, FitStill
      <4>5. CASE stored'[u] # NoRun /\ stored[u].run = calls[c].run
        BY <1>1, <1>4, <1>5, <3>3, <4>2, <4>5, FitStill
      <4> QED  BY <3>2, <4>3, <4>4, <4>5
    <3> QED  BY <1>5, <3>2, <3>4 DEF PagesInv
  <2>3. CASE HearCall(c)
    <3>1. PICK t \in calls[c].tab :
            /\ calls[c].stage \in {"saved", "duplicate", "refused"}
            /\ stored' = IF calls[c].stage = "refused" THEN stored ELSE MarkRated(t, calls[c].run)
      BY <2>3 DEF HearCall
    <3>2. t \in Tabs
      BY <1>1 DEF Submission
    <3> QED  BY <2>1, <2>2, <3>1, <3>2
  <2> QED  BY <2>1, <2>3 DEF LoseCall
<1> QED  BY <1>3, <1>4, <1>6, <1>7 DEF ClassroomInv, RatingsInv

LEMMA ServesKeeps ==
    ASSUME ClassroomInv, Serves, UNCHANGED participationVars
    PROVE  ClassroomInv'
<1>1. UNCHANGED <<asked, running, active, replaced, participationVars>>
  BY DEF Serves
<1>2. CASE Delete
  <2>1. rows' \subseteq rows /\ UNCHANGED <<recorded, stored, page, calls>>
    BY <1>2 DEF Delete
  <2>2. /\ ParticipationInv /\ ComparisonsInv /\ CallsInv /\ LocksInv /\ RowsInv /\ PagesInv /\ HistoryInv
    BY DEF ClassroomInv, RatingsInv
  <2>3. /\ ParticipationInv' /\ EnrolledHere' = EnrolledHere
    BY <2>2, ParticipationKeeps DEF participationVars, EnrolledHere, ParticipantOf, Participants
  <2>4. Onward /\ HistoryInv'
    BY <1>1, <2>1, <2>2, <2>3, ComparisonsAssumption DEF Onward, ComparisonsInv, HistoryInv
  <2>5. ComparisonsInv' /\ PagesInv' /\ CallsInv'
    BY <1>1, <2>1, <2>2, <2>3 DEF ComparisonsInv, PagesInv, CallsInv
  <2>6. LocksInv' /\ RowsInv'
    BY <2>1, <2>2, <2>4, LocksKept, RowsKept DEF SameRating
  <2> QED  BY <2>3, <2>4, <2>5, <2>6 DEF ClassroomInv, RatingsInv
<1> QED  BY <1>1, <1>2, BackendKeeps, CommitKeeps, AnswerKeeps DEF Serves

---------------------------------------------------------------------------
(* Ratings: the steps of the tabs.                                         *)

\* A step of a page, which leaves the comparisons and the submissions alone.
LEMMA PageKeeps ==
    ASSUME ClassroomInv, NEW t \in Tabs, OpenEvaluate(t) \/ LeaveEvaluate(t) \/ Pick(t),
           UNCHANGED <<participationVars, comparisonVars, calls, rows, recorded, replaced>>
    PROVE  ClassroomInv'
<1>1. /\ ParticipationInv /\ ComparisonsInv /\ CallsInv /\ LocksInv /\ RowsInv /\ PagesInv /\ HistoryInv
      /\ page \in [Tabs -> Page] /\ page[t] \in Page /\ Fit(page[t], stored[t], recorded, replaced)
  BY DEF ClassroomInv, RatingsInv, PagesInv
<1>2. /\ ParticipationInv' /\ EnrolledHere' = EnrolledHere
  BY <1>1, ParticipationKeeps DEF participationVars, EnrolledHere, ParticipantOf, Participants
<1>3. UNCHANGED <<asked, running, active, stored, calls, rows, recorded, replaced>>
  BY DEF comparisonVars
<1>4. ComparisonsInv' /\ CallsInv' /\ LocksInv' /\ RowsInv' /\ HistoryInv'
  BY <1>1, <1>2, <1>3 DEF ComparisonsInv, CallsInv, LocksInv, RowsInv, HistoryInv
<1>5. ASSUME NEW form \in Page, page' = [page EXCEPT ![t] = form], Fit(form, stored[t], recorded, replaced)
      PROVE  ClassroomInv'
  <2>1. /\ page' \in [Tabs -> Page] /\ page'[t] = form
        /\ \A u \in Tabs : u # t => page'[u] = page[u]
    BY <1>1, <1>5
  <2>2. PagesInv'
    BY <1>1, <1>3, <1>5, <2>1 DEF PagesInv
  <2> QED  BY <1>2, <1>4, <2>2 DEF ClassroomInv, RatingsInv
<1>6. ASSUME NEW form \in Page, form.pick = {} PROVE Fit(form, stored[t], recorded, replaced)
  BY <1>1, <1>6 DEF Fit
<1>7. CASE OpenEvaluate(t)
  BY <1>5, <1>6, <1>7, NoForms DEF OpenEvaluate
<1>8. CASE LeaveEvaluate(t)
  BY <1>5, <1>6, <1>8, NoForms DEF LeaveEvaluate
<1>9. CASE Pick(t)
  <2>1. PICK k \in stored[t].answered : page' = [page EXCEPT ![t].pick = {k}, ![t].sight = stored[t].run]
    BY <1>9 DEF Pick
  <2> DEFINE form == [page[t] EXCEPT !.pick = {k}, !.sight = stored[t].run]
  <2>2. page' = [page EXCEPT ![t] = form]
    BY <1>1, <2>1 DEF Page
  <2>3. stored[t] # NoRun
    BY <1>9 DEF Pick, TheForm, Shows
  <2>4. stored[t] \in Run /\ stored[t].run \in 1..asked /\ asked \in 0..MaxComparisons
    BY <1>1, <2>3 DEF ComparisonsInv, TabInv
  <2>5. stored[t].run \in 0..MaxComparisons /\ k \in Approaches
    BY <2>1, <2>4, ComparisonsAssumption DEF Run
  <2>6. form \in Page /\ form.sight = stored[t].run
    BY <1>1, <2>5 DEF Page
  <2> HIDE DEF form
  <2>7. Fit(form, stored[t], recorded, replaced)
    BY <1>1, <2>6 DEF Fit
  <2> QED  BY <1>5, <2>2, <2>6, <2>7
<1> QED  BY <1>7, <1>8, <1>9

LEMMA SubmitKeeps ==
    ASSUME ClassroomInv, NEW t \in Tabs, NEW c \in Calls, Submit(t, c),
           UNCHANGED <<participationVars, comparisonVars, rows, recorded, replaced>>
    PROVE  ClassroomInv'
<1> DEFINE call == [stage |-> "sent", tab |-> {t}, run |-> stored[t].run, answered |-> stored[t].answered,
                    pick |-> page[t].pick, sight |-> page[t].sight, who |-> ParticipantOf(Here, Held)]
           form == [page[t] EXCEPT !.saving = c]
<1>1. /\ ParticipationInv /\ ComparisonsInv /\ CallsInv /\ LocksInv /\ RowsInv /\ PagesInv /\ HistoryInv
      /\ page \in [Tabs -> Page] /\ page[t] \in Page /\ Fit(page[t], stored[t], recorded, replaced)
      /\ RatingsInv
  BY DEF ClassroomInv, RatingsInv, PagesInv
<1>2. /\ ParticipationInv' /\ EnrolledHere' = EnrolledHere
  BY <1>1, ParticipationKeeps DEF participationVars, EnrolledHere, ParticipantOf, Participants
<1>3. UNCHANGED <<asked, running, active, stored, rows, recorded, replaced>>
  BY DEF comparisonVars
<1>4. ComparisonsInv' /\ HistoryInv'
  BY <1>1, <1>3 DEF ComparisonsInv, HistoryInv
<1>5. /\ calls' = [calls EXCEPT ![c] = call] /\ page' = [page EXCEPT ![t] = form]
      /\ page[t].pick # {} /\ stored[t] # NoRun
  BY <1>1 DEF Submit, TheForm, Shows, Page
<1>6. stored[t] \in Run /\ stored[t].run \in 1..asked /\ asked \in 0..MaxComparisons /\ asked \in Nat
  BY <1>1, <1>5, ComparisonsAssumption DEF ComparisonsInv, TabInv
<1>7. ParticipantOf(Here, Held) \subseteq EnrolledHere /\ EnrolledHere \subseteq Nat
  BY <1>1 DEF ParticipationInv, ParticipationTypeOK, ParticipantOf, Held, EnrolledHere, Participants
<1>8. call \in Submission
  <2>1. page[t].sight \in Nat /\ page[t].pick \in SUBSET Approaches
    BY <1>1, ComparisonsAssumption DEF Page
  <2>2. stored[t].run \in Nat /\ stored[t].answered \in SUBSET Approaches
    BY <1>6 DEF Run
  <2> QED  BY <1>7, <2>1, <2>2 DEF Submission, Stages
<1>9. Good(call, asked, recorded, replaced, EnrolledHere) /\ call.stage = "sent"
  <2>1. page[t].sight = stored[t].run \/ stored[t].run \in replaced
    BY <1>1, <1>5 DEF Fit
  <2> QED  BY <1>6, <1>7, <2>1 DEF Good, Stages
<1>10. form \in Page /\ form.pick = page[t].pick /\ form.sight = page[t].sight
  BY <1>1 DEF Page
<1> HIDE DEF call, form
<1>11. Onward
  BY <1>2, <1>3, <1>6 DEF Onward
<1>12. CallsInv' /\ LocksInv' /\ RowsInv'
  <2>1. Good(call, asked', recorded', replaced', EnrolledHere')
    BY <1>2, <1>3, <1>9
  <2>2. rows' \subseteq rows
    BY <1>3
  <2>3. call.stage # "inserting"
    BY <1>9
  <2> QED  BY <1>1, <1>5, <1>8, <1>11, <2>1, <2>2, <2>3, CallMoves
<1>13. PagesInv'
  <2>1. /\ page' \in [Tabs -> Page] /\ page'[t] = form
        /\ \A u \in Tabs : u # t => page'[u] = page[u]
    BY <1>1, <1>5, <1>10
  <2>2. Fit(form, stored[t], recorded, replaced)
    BY <1>1, <1>10 DEF Fit
  <2> QED  BY <1>1, <1>3, <2>1, <2>2 DEF PagesInv
<1> QED  BY <1>2, <1>4, <1>12, <1>13 DEF ClassroomInv, RatingsInv

LEMMA BrowsesKeeps ==
    ASSUME ClassroomInv, NEW t \in Tabs, Browses(t), UNCHANGED participationVars
    PROVE  ClassroomInv'
<1>1. /\ ParticipationInv /\ ComparisonsInv /\ RatingsInv /\ HistoryInv
      /\ asked \in Nat
  BY ComparisonsAssumption DEF ClassroomInv, RatingsInv, ComparisonsInv
<1>2. /\ ParticipationInv' /\ EnrolledHere' = EnrolledHere
  BY <1>1, ParticipationKeeps DEF participationVars, EnrolledHere, ParticipantOf, Participants
<1>3. CASE (OpenEvaluate(t) \/ LeaveEvaluate(t) \/ Pick(t))
             /\ UNCHANGED <<comparisonVars, calls, rows, recorded, replaced>>
  <2>1. UNCHANGED <<participationVars, comparisonVars, calls, rows, recorded, replaced>>
    BY <1>3
  <2> QED  BY <1>3, <2>1, PageKeeps
<1>4. ASSUME NEW c \in Calls, Submit(t, c), UNCHANGED <<comparisonVars, rows, recorded, replaced>>
      PROVE  ClassroomInv'
  <2>1. UNCHANGED <<participationVars, comparisonVars, rows, recorded, replaced>>
    BY <1>4
  <2> QED  BY <1>4, <2>1, SubmitKeeps
<1>5. CASE StartComparison(t) /\ UNCHANGED ratingVars
  <2>1. ComparisonsInv' /\ asked <= asked' /\ asked' \in Nat /\ UNCHANGED stored
    BY <1>1, <1>5, StartKeeps
  <2>2. UNCHANGED <<page, calls, rows, recorded, replaced>>
    BY <1>5 DEF ratingVars
  <2>3. 1..asked \subseteq 1..asked'
    BY <1>1, <2>1
  <2>4. Onward /\ HistoryInv'
    BY <1>1, <1>2, <2>1, <2>2, <2>3 DEF Onward, HistoryInv
  <2>5. RatingsInv'
    BY <1>1, <2>1, <2>2, <2>4, RatingsStay
  <2> QED  BY <1>2, <2>1, <2>5 DEF ClassroomInv
<1>6. CASE ClearRun(t) /\ UNCHANGED ratingVars
  <2>1. /\ ComparisonsInv' /\ UNCHANGED asked /\ stored'[t] = NoRun
        /\ \A u \in Tabs : u # t => stored'[u] = stored[u]
    BY <1>1, <1>6, ClearKeeps
  <2>2. UNCHANGED <<page, calls, rows, recorded, replaced>>
    BY <1>6 DEF ratingVars
  <2>3. Onward /\ HistoryInv'
    BY <1>1, <1>2, <2>1, <2>2 DEF Onward, HistoryInv
  <2>4. \A u \in Tabs : stored'[u] = stored[u] \/ Fit(page[u], stored'[u], recorded', replaced')
    BY <2>1 DEF Fit
  <2>5. RatingsInv'
    BY <1>1, <2>2, <2>3, <2>4, RatingsStay
  <2> QED  BY <1>2, <2>1, <2>5 DEF ClassroomInv
<1>7. CASE Settles(t)
  <2>1. PICK comparison \in running[t], k \in Approaches : Settle(t, comparison, k)
    BY <1>7 DEF Settles
  <2>2. /\ replaced' = IF stored' = stored \/ page[t].pick = {} THEN replaced
                       ELSE replaced \cup {stored'[t].run}
        /\ UNCHANGED <<page, calls, rows, recorded>>
    BY <1>7 DEF Settles
  <2>3. /\ ComparisonsInv' /\ UNCHANGED asked /\ \A u \in Tabs : u # t => stored'[u] = stored[u]
        /\ stored' = stored \/ (stored'[t] \in Run /\ stored'[t].rated = FALSE /\ stored'[t].run \in 1..asked)
    BY <1>1, <2>1, SettleKeeps
  <2>4. replaced \subseteq replaced' /\ replaced' \subseteq 1..asked
    BY <1>1, <2>2, <2>3 DEF HistoryInv
  <2>5. Onward /\ HistoryInv'
    BY <1>1, <1>2, <2>2, <2>3, <2>4 DEF Onward, HistoryInv
  <2>6. \A u \in Tabs : stored'[u] = stored[u] \/ Fit(page[u], stored'[u], recorded', replaced')
    <3>1. CASE stored' = stored
      BY <3>1
    <3>2. CASE stored' # stored
      <4>1. page[t].pick = {} \/ stored'[t].run \in replaced'
        BY <2>2, <3>2
      <4>2. Fit(page[t], stored'[t], recorded', replaced')
        BY <2>3, <3>2, <4>1 DEF Fit
      <4> QED  BY <2>3, <4>2
    <3> QED  BY <3>1, <3>2
  <2>7. RatingsInv'
    BY <1>1, <2>2, <2>5, <2>6, RatingsStay
  <2> QED  BY <1>2, <2>3, <2>7 DEF ClassroomInv
<1> QED  BY <1>3, <1>4, <1>5, <1>6, <1>7 DEF Browses

LEMMA ReopensKeeps ==
    ASSUME ClassroomInv, NEW t \in Tabs, NEW u \in Tabs, Reopens(u, t)
    PROVE  ClassroomInv'
<1>1. /\ ParticipationInv /\ ComparisonsInv /\ RatingsInv /\ CallsInv /\ LocksInv /\ RowsInv /\ PagesInv
      /\ HistoryInv /\ asked \in Nat /\ calls \in [Calls -> Submission] /\ page \in [Tabs -> Page]
  BY ComparisonsAssumption DEF ClassroomInv, RatingsInv, ComparisonsInv, CallsInv, PagesInv
<1>2. /\ OpenTab(u, t) /\ page' = [page EXCEPT ![u] = Elsewhere] /\ UNCHANGED <<rows, recorded, replaced>>
      /\ LoseJoin(u) \/ UNCHANGED participationVars
  BY DEF Reopens
<1>3. ParticipationInv' /\ EnrolledHere \subseteq EnrolledHere'
  BY <1>1, <1>2, ParticipationKeeps
<1>4. /\ ComparisonsInv' /\ UNCHANGED asked /\ stored'[u] = stored[t]
      /\ \A v \in Tabs : v # u => stored'[v] = stored[v]
  BY <1>1, <1>2, OpenKeeps
<1>5. Onward /\ HistoryInv'
  BY <1>1, <1>2, <1>3, <1>4 DEF Onward, HistoryInv
<1>6. ASSUME NEW c \in Calls
      PROVE  /\ calls'[c] \in Submission
             /\ \/ calls'[c] = calls[c] \/ calls'[c] = Over
                \/ /\ calls'[c].stage = calls[c].stage /\ SameRating(calls'[c], calls[c])
                   /\ calls'[c].sight = calls[c].sight /\ calls'[c].pick = calls[c].pick
                   /\ calls'[c].answered = calls[c].answered
  <2>1. calls'[c] = IF u \notin calls[c].tab THEN calls[c]
                    ELSE IF calls[c].stage \in {"sent", "inserting"} THEN [calls[c] EXCEPT !.tab = {}] ELSE Over
    BY DEF Reopens
  <2>2. calls[c] \in Submission
    BY <1>1
  <2> DEFINE call == [calls[c] EXCEPT !.tab = {}]
  <2>3. /\ call \in Submission /\ call.stage = calls[c].stage /\ SameRating(call, calls[c])
        /\ call.sight = calls[c].sight /\ call.pick = calls[c].pick /\ call.answered = calls[c].answered
    BY <2>2 DEF Submission, SameRating
  <2>4. calls'[c] = calls[c] \/ calls'[c] = call \/ calls'[c] = Over
    BY <2>1
  <2> HIDE DEF call
  <2> QED  BY <2>2, <2>3, <2>4, NoCalls
<1>7. calls' \in [Calls -> Submission]
  <2>1. calls' = [c \in Calls |-> calls'[c]]
    BY DEF Reopens
  <2> QED  BY <1>6, <2>1
<1>8. CallsInv'
  <2>1. ASSUME NEW c \in Calls
        PROVE  \/ Good(calls'[c], asked', recorded', replaced', EnrolledHere')
               \/ calls'[c] = calls[c]
    <3>1. Good(calls[c], asked, recorded, replaced, EnrolledHere)
      BY <1>1 DEF CallsInv
    <3>2. CASE calls'[c] = Over
      BY <3>2, NoCalls DEF Good, Stages
    <3>3. CASE /\ calls'[c].stage = calls[c].stage /\ SameRating(calls'[c], calls[c])
               /\ calls'[c].sight = calls[c].sight /\ calls'[c].pick = calls[c].pick
               /\ calls'[c].answered = calls[c].answered
      BY <1>2, <1>3, <1>4, <3>1, <3>3 DEF Good, SameRating
    <3> QED  BY <1>6, <3>2, <3>3
  <2> QED  BY <1>1, <1>5, <1>7, <2>1, CallsKept
<1>9. LocksInv'
  <2>1. \A c \in Calls : calls'[c].stage = "inserting" =>
                              calls[c].stage = "inserting" /\ SameRating(calls'[c], calls[c])
    BY <1>6, NoCalls DEF SameRating
  <2> QED  BY <1>1, <1>2, <2>1, LocksKept
<1>10. RowsInv'
  BY <1>1, <1>2, <1>5, RowsKept
<1>11. PagesInv'
  <2>1. /\ page' \in [Tabs -> Page] /\ page'[u] = Elsewhere
        /\ \A v \in Tabs : v # u => page'[v] = page[v]
    BY <1>1, <1>2, NoForms
  <2>2. Fit(page'[u], stored'[u], recorded', replaced')
    <3>1. Fit(page[t], stored[t], recorded, replaced)
      BY <1>1 DEF PagesInv
    <3> QED  BY <1>2, <1>4, <2>1, <3>1, NoForms DEF Fit
  <2>3. \A v \in Tabs : Fit(page[v], stored[v], recorded', replaced')
    BY <1>1, <1>5, FitStill
  <2>4. \A v \in Tabs : Fit(page'[v], stored'[v], recorded', replaced')
    BY <1>4, <2>1, <2>2, <2>3
  <2> QED  BY <2>1, <2>4 DEF PagesInv
<1> QED  BY <1>3, <1>4, <1>5, <1>8, <1>9, <1>10, <1>11 DEF ClassroomInv, RatingsInv

LEMMA ClassroomNext == ClassroomInv /\ [RatingsNext]_classroomVars => ClassroomInv'
<1> SUFFICES ASSUME ClassroomInv, [RatingsNext]_classroomVars PROVE ClassroomInv'
  OBVIOUS
<1>1. CASE (Serves \/ \E t \in Tabs : Browses(t)) /\ UNCHANGED participationVars
  BY <1>1, ServesKeeps, BrowsesKeeps
<1>2. CASE (ParticipationNext \/ UNCHANGED participationVars) /\ UNCHANGED <<comparisonVars, ratingVars>>
  <2>1. ParticipationInv /\ ComparisonsInv /\ RatingsInv /\ asked \in Nat /\ HistoryInv
    BY ComparisonsAssumption DEF ClassroomInv, ComparisonsInv, RatingsInv
  <2>2. ParticipationInv' /\ EnrolledHere \subseteq EnrolledHere'
    BY <1>2, <2>1, ParticipationKeeps
  <2>3. UNCHANGED <<asked, running, active, stored>> /\ UNCHANGED <<page, calls, rows, recorded, replaced>>
    BY <1>2 DEF comparisonVars, ratingVars
  <2>4. ComparisonsInv'
    BY <2>1, <2>3 DEF ComparisonsInv
  <2>5. Onward /\ HistoryInv'
    BY <2>1, <2>2, <2>3 DEF Onward, HistoryInv
  <2>6. RatingsInv'
    BY <2>1, <2>3, <2>5, RatingsStay
  <2> QED  BY <2>2, <2>4, <2>6 DEF ClassroomInv
<1>3. CASE UNCHANGED classroomVars
  <2>1. UNCHANGED participationVars /\ UNCHANGED <<comparisonVars, ratingVars>>
    BY <1>3 DEF classroomVars
  <2> QED  BY <1>2, <2>1
<1> QED  BY <1>1, <1>2, <1>3, ReopensKeeps DEF RatingsNext

---------------------------------------------------------------------------
(* The classroom: the results.                                             *)

LEMMA ClassroomInvSafe == ClassroomInv => ClassroomSafety
<1> SUFFICES ASSUME ClassroomInv PROVE ClassroomSafety
  OBVIOUS
<1>1. ParticipationInv /\ ComparisonsInv /\ CallsInv /\ RowsInv /\ PagesInv /\ HistoryInv
  BY DEF ClassroomInv, RatingsInv
<1>2. EnrolledHere \subseteq Participants
  BY DEF EnrolledHere, ParticipantOf
<1>3. RatingsTypeOK
  <2>1. \A t \in Tabs : page[t].sight \in 0..MaxComparisons /\ page[t].saving \in {0} \cup Calls
    BY <1>1 DEF PagesInv, Page
  <2>2. \A c \in Calls : calls[c].stage \in Stages /\ calls[c].who \subseteq Participants
    BY <1>1, <1>2 DEF CallsInv, Good
  <2> QED  BY <1>1, <2>1, <2>2 DEF RatingsTypeOK, Stages, HistoryInv
<1>4. OneParticipantEach
  BY <1>1 DEF ParticipationInv, Whole, OneParticipantEach
<1>5. AnswersAreTheQuestions
  <2>1. \A t \in Tabs : active[t].states \in Gots(active[t].question)
    BY <1>1 DEF ComparisonsInv, TabInv
  <2> QED  BY <2>1 DEF AnswersAreTheQuestions, Gots, Replies
<1>6. OneRatingEach
  <2>1. SUFFICES ASSUME NEW r \in rows, NEW s \in rows, r.run = s.run, lapses = {} \/ r.who = s.who
        PROVE  r = s
    BY DEF OneRatingEach
  <2>2. CASE lapses = {}
    <3>1. \A p, q \in EnrolledHere : p = q
      BY <1>4, <2>2 DEF OneParticipantEach, EnrolledHere, ParticipantOf
    <3>2. r.who # {} /\ r.who \subseteq EnrolledHere /\ s.who # {} /\ s.who \subseteq EnrolledHere
      BY <1>1 DEF RowsInv, RowInv
    <3>3. r.who = s.who
      BY <3>1, <3>2
    <3> QED  BY <1>1, <2>1, <3>3 DEF RowsInv, SameRating
  <2> QED  BY <1>1, <2>1, <2>2 DEF RowsInv, SameRating
<1>7. RatedWasRecorded
  BY <1>1 DEF PagesInv, Fit, RatedWasRecorded, Shows
<1>8. ChosenFromItsAnswers
  BY <1>1 DEF RowsInv, RowInv, ChosenFromItsAnswers
<1> QED  BY <1>3, <1>4, <1>5, <1>6, <1>7, <1>8 DEF ClassroomSafety

\* A run is rated once by a participant, and once by a browser that lost nothing; it
\* is shown as rated only if it was; a rating names an approach that answered it; and
\* the answers on the page are those of its question (db_evaluations.py
\* create_evaluation, ComparisonRunContext.tsx, EvaluatePage.tsx, auth_routes.py
\* join_course).
THEOREM ClassroomIsSafe == ClassroomSpec => []ClassroomSafety
<1> QED  BY ClassroomInitially, ClassroomNext, ClassroomInvSafe, PTL DEF ClassroomSpec

\* Whoever joins another course stays in those joined before, and a sign-out drops
\* nobody whose session goes on, unless two joins, or a join and a sign-out,
\* overlapped (auth_routes.py join_course, logout).
THEOREM NobodyIsDropped == ClassroomSpec => JoinedStays
<1>1. ClassroomInv /\ [RatingsNext]_classroomVars
        => [\A p \in cookie : p \in live' => p \in cookie' \/ "overlap" \in lapses]_participationVars
  <2> SUFFICES ASSUME ClassroomInv, [RatingsNext]_classroomVars, NEW p \in cookie, p \in live',
                      ~("overlap" \in lapses)
               PROVE  p \in cookie'
    OBVIOUS
  <2>1. ParticipationInv
    BY DEF ClassroomInv
  <2>2. ParticipationNext \/ (\E t \in Tabs : LoseJoin(t)) \/ UNCHANGED participationVars
    BY DEF RatingsNext, Reopens, classroomVars
  <2> QED  BY <2>1, <2>2, NobodyLeftOut
<1> QED  BY <1>1, ClassroomInitially, ClassroomNext, PTL DEF ClassroomSpec, JoinedStays

=============================================================================
