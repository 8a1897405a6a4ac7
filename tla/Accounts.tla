-------------------------------- MODULE Accounts --------------------------------
(***************************************************************************)
(* Accounts, device sessions, phone codes and staff access.                *)
(*                                                                         *)
(* A request that reads first and writes later is a Begin and a Finish     *)
(* step, with whatever it has read or locked in req[r] between them.  A    *)
(* refresh holds its session row, a code verification its challenge row    *)
(* and a staff change its target's partner row from the first read to the  *)
(* commit; a recovery holds nothing.  A sign-in holds nothing until it     *)
(* inserts its session; from then to its commit the foreign key keeps      *)
(* staff changes of the partner waiting, as a staff change keeps the       *)
(* insert waiting, and no other request sees the row.                      *)
(***************************************************************************)
EXTENDS Naturals, FiniteSets

CONSTANTS
    Partners,       \* accounts there may be: an account is its unique email
    FirstAdmin,     \* the account of the first administrator
    Mobiles,        \* phone numbers that ask for codes: subjects of the provider "phone"
    OauthSubjects,  \* subjects of an OAuth provider
    EmailOf,        \* the account a subject's email names; phone.<n>@... for a number
    Sessions, Challenges, Requests,
    GrantedRoles,   \* roles a staff change may give
    NoOne,          \* no partner, session or challenge; any other phone number
    OTP_MAX_ATTEMPTS,
    MaxTokens       \* a bound of the model

Subjects == Mobiles \cup OauthSubjects

ASSUME AccountsAssumption ==
    /\ NoOne \notin Partners \cup Sessions \cup Challenges \cup Subjects
    /\ FirstAdmin \in Partners
    /\ Mobiles \cap OauthSubjects = {}
    /\ EmailOf \in [Subjects -> Partners]
    /\ OTP_MAX_ATTEMPTS \in Nat \ {0}
    /\ GrantedRoles \subseteq {"staff", "manager", "system_admin"}

VARIABLES
    partner,        \* res_partner
    identity,       \* elitedom_auth_identity: the partner a subject is linked to
    session,        \* elitedom_auth_session
    challenge,      \* elitedom_otp_challenge
    credential,     \* elitedom_admin_mfa_credential
    req,            \* requests between their first read and their commit
    overtaken,      \* history: sessions inserted with a role that a staff change, committed
                    \* since the sign-in read it, had replaced
    skewed          \* history: a staff change committed on a count that had changed

vars == <<partner, identity, session, challenge, credential, req, overtaken, skewed>>
accountVars == <<partner, identity, credential, overtaken, skewed>>

\* "manager" is any other staff role with an override that allows staff.manage.
Roles == {"customer", "staff", "manager", "system_admin"}

NoPartner == [exists |-> FALSE, role |-> "customer", password |-> FALSE,
              phone |-> NoOne]
\* challenge: the code that signed in, when auth_method is phone_otp; role: the claim
\* of the tokens last issued.
NoSession == [owner |-> NoOne, challenge |-> NoOne, token |-> 0, rotations |-> 0,
              role |-> "customer", ended |-> FALSE, mfa |-> FALSE]
\* consumed: consumed_at is set, or expires_at has passed.
NoChallenge == [mobile |-> NoOne, attempts |-> 0, consumed |-> FALSE]
NoRequest == [kind |-> "idle", who |-> NoOne, session |-> NoOne, challenge |-> NoOne,
              subject |-> NoOne, seen |-> 0, new |-> "none", role |-> "customer", late |-> FALSE]

\* bootstrap_admin.py makes the first administrator, who may have signed in with a
\* phone before.
Init == /\ \E m \in Mobiles \cup {NoOne}, linked \in BOOLEAN :
              /\ partner = [p \in Partners |->
                    IF p = FirstAdmin
                    THEN [exists |-> TRUE, role |-> "system_admin", password |-> TRUE, phone |-> m]
                    ELSE NoPartner]
              /\ identity = [x \in Subjects |-> IF linked /\ x = m THEN FirstAdmin ELSE NoOne]
        /\ session = [s \in Sessions |-> NoSession]
        /\ challenge = [c \in Challenges |-> NoChallenge]
        /\ credential = [p \in Partners |-> "none"]
        /\ req = [r \in Requests |-> NoRequest]
        /\ overtaken = {}
        /\ skewed = FALSE

-------------------------------------------------------------------------------
(* Rows, locks, commits *)

SignIns == {"login", "oauth", "otp"}

\* A sign-in that has inserted its session and not committed it.
Inserted(r) == req[r].kind \in SignIns /\ req[r].session # NoOne

\* What every other request sees, and validate_access_token accepts.
Live(s) == /\ session[s].owner # NoOne /\ ~session[s].ended
           /\ \A r \in Requests : Inserted(r) => req[r].session # s

\* A definition named faulty_* is no part of the code: it is the one after it with
\* a plausible mistake, and shows that a property notices it.
SessionLocked(s)   == \E r \in Requests : req[r].kind = "refresh" /\ req[r].session = s
ChallengeLocked(c) == \E r \in Requests : req[r].kind = "otp" /\ req[r].challenge = c
PartnerLocked(p)   == \E r \in Requests : req[r].kind = "access" /\ req[r].who = p
KeyShared(p)       == \E r \in Requests : Inserted(r) /\ req[r].who = p

Start(r, q) == req[r] = NoRequest /\ req' = [req EXCEPT ![r] = q]
Ended(r) == [req EXCEPT ![r] = NoRequest]
Commit(r) == req' = Ended(r)

\* get_db rolls back what a failed request did.
Rollback(r) == Commit(r) /\ UNCHANGED <<accountVars, session, challenge>>

Of(p) == {s \in Sessions : session[s].owner = p /\ Live(s)}

\* UPDATE ... WHERE partner_id = p AND revoked_at IS NULL: it waits for the rows a
\* refresh holds, and does not see a session that is not committed yet.
Revoked(p) == [s \in Sessions |-> [session[s] EXCEPT !.ended = @ \/ s \in Of(p)]]
RevokeAll(p) == /\ \A s \in Of(p) : ~SessionLocked(s)
                /\ session' = Revoked(p)

-------------------------------------------------------------------------------
(* Signing in *)

\* The unique email makes the lookup and the insert one step; it waits for an account
\* that a sign-in has inserted.
register(p) ==
    /\ ~partner[p].exists /\ ~KeyShared(p)
    /\ \E m \in Mobiles \cup {NoOne} :
          partner' = [partner EXCEPT ![p] =
                         [NoPartner EXCEPT !.exists = TRUE, !.password = TRUE, !.phone = m]]
    /\ UNCHANGED <<identity, session, challenge, credential, req, overtaken, skewed>>

BeginLogin(r, p) ==
    /\ partner[p].exists /\ partner[p].password
    /\ Start(r, [NoRequest EXCEPT !.kind = "login", !.who = p, !.role = partner[p].role])
    /\ UNCHANGED <<accountVars, session, challenge>>

Provider(x) == IF x \in Mobiles THEN Mobiles ELSE OauthSubjects

\* Accounts an unlinked subject may belong to: same phone, or same email.
Matches(x) == {p \in Partners : /\ partner[p].exists
                                /\ IF x \in Mobiles THEN partner[p].phone = x ELSE p = EmailOf[x]}

\* A partner has one identity of each provider.
Linked(p, x) == \E y \in Provider(x) : identity[y] = p

\* What _get_or_link_*_partner reads: the linked account, the one match, or none.
BeginSignIn(r, kind, x, c) ==
    LET p == IF identity[x] # NoOne THEN identity[x]
             ELSE IF Matches(x) = {} THEN EmailOf[x] ELSE CHOOSE p \in Matches(x) : TRUE
    IN
    /\ Cardinality(Matches(x)) <= 1 \/ identity[x] # NoOne
    /\ Start(r, [NoRequest EXCEPT
           !.kind = kind, !.subject = x, !.challenge = c, !.who = p,
           !.role = IF Matches(x) = {} /\ identity[x] = NoOne THEN @ ELSE partner[p].role,
           !.seen = IF identity[x] # NoOne THEN 0 ELSE IF Matches(x) = {} THEN 2 ELSE 1])
    /\ UNCHANGED <<accountVars, session, challenge>>

\* Rows another request inserted meanwhile violate a unique index at the flush; rows
\* it has not committed make the flush wait.
Violates(r) ==
    LET q == req[r] IN
    \/ q.seen > 0 /\ (identity[q.subject] # NoOne \/ Linked(q.who, q.subject))
    \/ q.seen = 2 /\ partner[q.who].exists

Conflicts(r, z) ==
    \/ /\ req[r].seen > 0 /\ req[z].seen > 0
       /\ \/ req[r].subject = req[z].subject
          \/ req[r].who = req[z].who /\ Provider(req[r].subject) = Provider(req[z].subject)
    \/ req[r].seen = 2 /\ req[z].seen = 2 /\ req[r].who = req[z].who

\* The inserts of a sign-in: its account and identity where they are new, its session.
_issue_tokens(r) ==
    LET q == req[r] IN
    /\ q.kind \in SignIns /\ ~Inserted(r) /\ ~Violates(r)
    /\ ~PartnerLocked(q.who)
    /\ \A z \in Requests : Inserted(z) => ~Conflicts(r, z)
    /\ \E s \in Sessions :
          /\ session[s] = NoSession
          /\ session' = [session EXCEPT ![s] =
                [NoSession EXCEPT !.owner = q.who, !.challenge = q.challenge, !.role = q.role]]
          /\ req' = [req EXCEPT ![r].session = s]
          /\ overtaken' = IF q.late THEN overtaken \cup {s} ELSE overtaken
    /\ UNCHANGED <<partner, identity, credential, challenge, skewed>>

login(r) ==
    /\ req[r].kind = "login" /\ Inserted(r)
    /\ Commit(r)
    /\ UNCHANGED <<accountVars, session, challenge>>

_get_or_link_partner(r) ==
    LET x == req[r].subject
        p == req[r].who
    IN  /\ identity' = [identity EXCEPT ![x] = p]
        /\ partner' = IF req[r].seen < 2 THEN partner
                      ELSE [partner EXCEPT ![p] =
                               [NoPartner EXCEPT !.exists = TRUE,
                                                 !.phone = IF x \in Mobiles THEN x ELSE NoOne]]

FinishSignIn(r) ==
    /\ Inserted(r)
    /\ _get_or_link_partner(r)
    /\ Commit(r)
    /\ UNCHANGED <<session, credential, overtaken, skewed>>

\* get_db rolls the request back.
Fails(r) == ~Inserted(r) /\ Violates(r) /\ Rollback(r)

BeginOauth(r, x) == x \in OauthSubjects /\ BeginSignIn(r, "oauth", x, NoOne)

oauth_login(r) ==
    /\ req[r].kind = "oauth"
    /\ \/ FinishSignIn(r) /\ UNCHANGED challenge
       \/ Fails(r)

\* The resend interval and the hourly limit are time and not modelled.
request_phone_otp(c) ==
    /\ challenge[c] = NoChallenge
    /\ \E m \in Mobiles : challenge' = [challenge EXCEPT ![c].mobile = m]
    /\ UNCHANGED <<accountVars, session, req>>

OtpExpires(c) ==
    /\ challenge[c].mobile # NoOne /\ ~challenge[c].consumed
    /\ challenge' = [challenge EXCEPT ![c].consumed = TRUE]
    /\ UNCHANGED <<accountVars, session, req>>

Answerable(c) == /\ challenge[c].mobile # NoOne
                 /\ ~challenge[c].consumed
                 /\ challenge[c].attempts < OTP_MAX_ATTEMPTS

faulty_BeginVerifyOtp(r, c) ==
    /\ Answerable(c)
    /\ BeginSignIn(r, "otp", challenge[c].mobile, c)

\* The right code.  The route has locked the challenge before the service reads it.
BeginVerifyOtp(r, c) ==
    /\ ~ChallengeLocked(c)
    /\ Answerable(c)
    /\ BeginSignIn(r, "otp", challenge[c].mobile, c)

verify_phone_otp(r) ==
    /\ req[r].kind = "otp"
    /\ \/ /\ FinishSignIn(r)
          /\ challenge' = [challenge EXCEPT ![req[r].challenge].attempts = @ + 1,
                                            ![req[r].challenge].consumed = TRUE]
       \/ Fails(r)

\* A wrong code is counted in a commit of its own before the request fails.
WrongOtp(c) ==
    /\ ~ChallengeLocked(c)
    /\ Answerable(c)
    /\ LET used == challenge[c].attempts + 1 IN
       challenge' = [challenge EXCEPT ![c].attempts = used,
                                      ![c].consumed = @ \/ used >= OTP_MAX_ATTEMPTS]
    /\ UNCHANGED <<accountVars, session, req>>

-------------------------------------------------------------------------------
(* Sessions *)

faulty_BeginRefresh(r, s) ==
    /\ Live(s) /\ session[s].token < MaxTokens
    /\ Start(r, [NoRequest EXCEPT !.kind = "refresh", !.session = s, !.seen = session[s].token,
                            !.role = partner[session[s].owner].role])
    /\ UNCHANGED <<accountVars, session, challenge>>

\* The route locks the row, then the service compares the token with its hash.
BeginRefresh(r, s) ==
    /\ ~SessionLocked(s)
    /\ Live(s) /\ session[s].token < MaxTokens
    /\ Start(r, [NoRequest EXCEPT !.kind = "refresh", !.session = s, !.seen = session[s].token,
                            !.role = partner[session[s].owner].role])
    /\ UNCHANGED <<accountVars, session, challenge>>

refresh(r) ==
    LET s == req[r].session IN
    /\ req[r].kind = "refresh"
    /\ session' = [session EXCEPT ![s].token = req[r].seen + 1, ![s].rotations = @ + 1,
                                  ![s].role = req[r].role]
    /\ overtaken' = overtaken \ {s}
    /\ Commit(r)
    /\ UNCHANGED <<partner, identity, credential, challenge, skewed>>

\* A token that has been rotated away comes back: the session ends.
ReplayedRefresh(s) ==
    /\ ~SessionLocked(s) /\ Live(s) /\ session[s].token > 0
    /\ session' = [session EXCEPT ![s].ended = TRUE]
    /\ UNCHANGED <<accountVars, challenge, req>>

\* Logout, or revocation in the account settings.  The row is read without a lock,
\* and only revoked_at and its reason are written.
revoke_session(s) ==
    /\ ~SessionLocked(s) /\ Live(s)
    /\ session' = [session EXCEPT ![s].ended = TRUE]
    /\ UNCHANGED <<accountVars, challenge, req>>

logout_all(s) ==
    /\ Live(s)
    /\ RevokeAll(session[s].owner)
    /\ UNCHANGED <<accountVars, challenge, req>>

BeginRecover(r, s) ==
    /\ Live(s) /\ session[s].challenge # NoOne
    /\ Start(r, [NoRequest EXCEPT !.kind = "recover", !.who = session[s].owner])
    /\ UNCHANGED <<accountVars, session, challenge>>

\* "including the OTP session that authorized the reset".
recover(r) ==
    /\ req[r].kind = "recover"
    /\ ~PartnerLocked(req[r].who)
    /\ partner' = [partner EXCEPT ![req[r].who].password = TRUE]
    /\ RevokeAll(req[r].who)
    /\ Commit(r)
    /\ UNCHANGED <<identity, challenge, credential, overtaken, skewed>>

-------------------------------------------------------------------------------
(* Staff *)

IsStaff(p) == partner[p].role # "customer"

faulty_BeginEnrollment(r, s) ==
    /\ Live(s) /\ IsStaff(session[s].owner)
    /\ Start(r, [NoRequest EXCEPT !.kind = "enroll", !.who = session[s].owner,
                                  !.new = credential[session[s].owner]])
    /\ UNCHANGED <<accountVars, session, challenge>>

BeginEnrollment(r, s) ==
    /\ Live(s) /\ IsStaff(session[s].owner)
    /\ credential[session[s].owner] # "enabled"
    /\ Start(r, [NoRequest EXCEPT !.kind = "enroll", !.who = session[s].owner,
                                  !.new = credential[session[s].owner]])
    /\ UNCHANGED <<accountVars, session, challenge>>

\* A second row for the partner fails.  enabled_at := None is written only when it
\* was set in the row that was read: the secret alone may be replaced.
begin_enrollment(r) ==
    LET p == req[r].who IN
    /\ req[r].kind = "enroll"
    /\ credential' = [credential EXCEPT ![p] =
          IF @ = "none" \/ req[r].new = "enabled" THEN "begun" ELSE @]
    /\ Commit(r)
    /\ UNCHANGED <<partner, identity, session, challenge, overtaken, skewed>>

\* A code of the secret.  Like verify, it reads rows that may have changed when it
\* writes, but it only ever sets enabled_at and mfa_verified_at.
confirm_enrollment(s) ==
    LET p == session[s].owner IN
    /\ Live(s) /\ ~SessionLocked(s) /\ IsStaff(p)
    /\ credential[p] # "none"
    /\ credential' = [credential EXCEPT ![p] = "enabled"]
    /\ session' = [session EXCEPT ![s].mfa = TRUE]
    /\ UNCHANGED <<partner, identity, challenge, req, overtaken, skewed>>

\* A code of the enabled secret, or a recovery code.
verify(s) ==
    LET p == session[s].owner IN
    /\ Live(s) /\ ~SessionLocked(s) /\ IsStaff(p)
    /\ credential[p] = "enabled"
    /\ session' = [session EXCEPT ![s].mfa = TRUE]
    /\ UNCHANGED <<accountVars, challenge, req>>

\* Permissions come from the stored role, never from the token, and need MFA.
resolve_permissions(p) == partner[p].exists /\ partner[p].role \in {"manager", "system_admin"}
require_verified_staff_session(s) ==
    Live(s) /\ session[s].mfa /\ credential[session[s].owner] = "enabled"

Admins == {p \in Partners : partner[p].exists /\ partner[p].role = "system_admin"}

faulty_OtherAdmins(p) == Admins
OtherAdmins(p) == Admins \ {p}

\* Without FOR UPDATE the read of the target would not wait for a session on its way in.
faulty_BeginAccess(r, s, p, role) ==
    /\ require_verified_staff_session(s) /\ resolve_permissions(session[s].owner)
    /\ partner[p].exists /\ ~PartnerLocked(p)
    /\ p \in Admins /\ role # "system_admin" => OtherAdmins(p) # {}
    /\ Start(r, [NoRequest EXCEPT !.kind = "access", !.who = p, !.role = role])
    /\ UNCHANGED <<accountVars, session, challenge>>

\* The target's row is locked before its role is read; the others are only counted.
BeginAccess(r, s, p, role) ==
    /\ require_verified_staff_session(s) /\ resolve_permissions(session[s].owner)
    /\ partner[p].exists /\ ~PartnerLocked(p) /\ ~KeyShared(p)
    /\ p \in Admins /\ role # "system_admin" => OtherAdmins(p) # {}
    /\ Start(r, [NoRequest EXCEPT !.kind = "access", !.who = p, !.role = role])
    /\ UNCHANGED <<accountVars, session, challenge>>

\* Requests that counted the administrators, or read the role, before this change.
Outdated(r) == [z \in Requests |->
    IF /\ z # r
       /\ \/ req[z].kind = "access"
          \/ req[z].kind \in SignIns /\ ~Inserted(z) /\ req[z].who = req[r].who
    THEN [req[z] EXCEPT !.late = TRUE] ELSE req[z]]

replace_staff_access(r) ==
    LET p == req[r].who IN
    /\ req[r].kind = "access"
    /\ partner' = [partner EXCEPT ![p].role = req[r].role]
    /\ RevokeAll(p)
    /\ skewed' = (skewed \/ req[r].late)
    /\ req' = [Outdated(r) EXCEPT ![r] = NoRequest]
    /\ UNCHANGED <<identity, challenge, credential, overtaken>>

SignIn(r) ==
    \/ \E p \in Partners : BeginLogin(r, p)
    \/ \E x \in Subjects : BeginOauth(r, x)
    \/ \E c \in Challenges : BeginVerifyOtp(r, c)
    \/ _issue_tokens(r) \/ login(r) \/ oauth_login(r) \/ verify_phone_otp(r)

Maintain(r) ==
    \/ \E s \in Sessions : \/ BeginRefresh(r, s) \/ BeginRecover(r, s)
                           \/ BeginEnrollment(r, s)
    \/ refresh(r) \/ recover(r) \/ begin_enrollment(r)

Manage(r) ==
    \/ \E s \in Sessions, p \in Partners, role \in GrantedRoles : BeginAccess(r, s, p, role)
    \/ replace_staff_access(r)

Next == \/ \E r \in Requests : SignIn(r) \/ Maintain(r) \/ Manage(r)
        \/ \E p \in Partners : register(p)
        \/ \E c \in Challenges : request_phone_otp(c) \/ OtpExpires(c) \/ WrongOtp(c)
        \/ \E s \in Sessions : ReplayedRefresh(s) \/ revoke_session(s) \/ logout_all(s)
                              \/ confirm_enrollment(s) \/ verify(s)

Spec == Init /\ [][Next]_vars

-------------------------------------------------------------------------------
(* Properties *)

PartnerRow   == [exists : BOOLEAN, role : Roles, password : BOOLEAN, phone : Mobiles \cup {NoOne}]
SessionRow   == [owner : Partners \cup {NoOne}, challenge : Challenges \cup {NoOne},
                 token : Nat, rotations : Nat, role : Roles, ended : BOOLEAN, mfa : BOOLEAN]
ChallengeRow == [mobile : Mobiles \cup {NoOne}, attempts : Nat, consumed : BOOLEAN]
Credentials  == {"none", "begun", "enabled"}
Request      == [kind : {"idle", "login", "oauth", "otp", "refresh", "recover", "enroll", "access"},
                 who : Partners \cup {NoOne}, session : Sessions \cup {NoOne},
                 challenge : Challenges \cup {NoOne}, subject : Subjects \cup {NoOne},
                 seen : Nat, new : Credentials, role : Roles, late : BOOLEAN]

\* Rows and requests have the shapes of the tables and of the code.
TypeOK ==
    /\ partner \in [Partners -> PartnerRow]
    /\ identity \in [Subjects -> Partners \cup {NoOne}]
    /\ session \in [Sessions -> SessionRow]
    /\ challenge \in [Challenges -> ChallengeRow]
    /\ credential \in [Partners -> Credentials]
    /\ req \in [Requests -> Request]
    /\ overtaken \subseteq Sessions
    /\ skewed \in BOOLEAN

\* auth/router.py:177, "two concurrent requests cannot both consume the same refresh
\* credential": a session has been rotated as often as its token has changed.
RefreshOnce == \A s \in Sessions : session[s].rotations = session[s].token

\* auth/service.py:216: whatever requests and wrong codes race for one challenge, it
\* signs in at most once and takes no more than OTP_MAX_ATTEMPTS answers.
OtpSignsInOnce ==
    /\ \A c \in Challenges : challenge[c].attempts <= OTP_MAX_ATTEMPTS
    /\ \A s, t \in Sessions :
          session[s].challenge = session[t].challenge => s = t \/ session[s].challenge = NoOne

\* access_service.py:237, "Any access policy change invalidates all device sessions for
\* the target": the tokens of a session that is not ended carry the role their owner
\* has, whichever sign-ins and refreshes the change met; only a sign-in that read the
\* role before the change and inserted its session after it keeps the old one, until
\* its first refresh.
RolesAreCurrent ==
    \A s \in Sessions : Live(s) /\ s \notin overtaken =>
        session[s].role = partner[session[s].owner].role

\* password_recovery.py:62, "Revoke every refresh-capable session": not one that a sign-in
\* has inserted and not committed.
RecoveryEndsSessions ==
    [][\A r \in Requests : req[r].kind = "recover" /\ req'[r] = NoRequest =>
         \A s \in Sessions : session[s].owner = req[r].who => session'[s].ended]_vars

\* mfa_service.py:118: a verified session belongs to a partner whose credential is
\* enabled; no enrolment that was begun before undoes that.
VerifiedIsEnrolled ==
    \A s \in Sessions : session[s].mfa => credential[session[s].owner] = "enabled"

\* access_service.py:209, as far as it holds: an administrator is left, unless a
\* change was committed on a count another change had overtaken.
AdminRemainsUnlessSkewed == skewed \/ Admins # {}

\* access_service.py:209: "At least one active system administrator must remain."
AdminRemains == Admins # {}

\* A revoked session never comes back, and its credential is never rotated again.
RevokedIsFinal ==
    [][\A s \in Sessions : session[s].ended => /\ session'[s].ended
                                               /\ session'[s].token = session[s].token]_vars
===============================================================================
