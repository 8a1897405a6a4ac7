---------------------------- MODULE AccountsProofs ----------------------------
(***************************************************************************)
(* Proofs about Accounts, for any number of accounts, sessions, codes and  *)
(* requests in flight: a refresh token and a code are used once, the       *)
(* tokens of a session carry its owner's role unless its sign-in was       *)
(* overtaken by a staff change, an ended session is final, a verified      *)
(* session has an enabled credential, and an administrator remains unless  *)
(* a change was committed on an overtaken count.                           *)
(***************************************************************************)
EXTENDS Accounts, TLAPS

-------------------------------------------------------------------------------
(* The inductive invariant *)

\* A sign-in on its way: Inserted(r) when it has inserted its session.
Unsaved(q) == q.kind \in SignIns /\ q.session # NoOne

\* What a request has read still holds when it writes: the role a sign-in will give
\* its session, unless a staff change came between, the row a sign-in has inserted,
\* the account it found missing, the row a refresh locked, the answers left to the
\* code being verified, the credential an enrolment replaces, and an administrator
\* beside the one a staff change demotes.
SignInFits(q) ==
    /\ q.who \in Partners /\ q.session \in Sessions \cup {NoOne}
    /\ q.kind \in {"oauth", "otp"} => q.subject \in Subjects /\ q.seen \in 0..2
    /\ q.kind = "login" => q.seen = 0
    /\ q.kind # "otp" => q.challenge = NoOne
    /\ q.kind = "otp" => /\ q.challenge \in Challenges
                         /\ challenge[q.challenge].mobile # NoOne
                         /\ challenge[q.challenge].attempts < OTP_MAX_ATTEMPTS
                         /\ \A s \in Sessions :
                               session[s].challenge = q.challenge => s = q.session
    /\ q.session = NoOne /\ ~q.late /\ ~(q.seen = 2 /\ partner[q.who].exists)
          => q.role = partner[q.who].role
    /\ q.session # NoOne => /\ session[q.session].owner = q.who
                            /\ session[q.session].challenge = q.challenge
                            /\ ~session[q.session].ended
                            /\ q.seen = 2 => ~partner[q.who].exists

Fits(q) ==
    /\ q.kind \in SignIns => SignInFits(q)
    /\ q.kind \in {"recover", "enroll", "access"} => q.who \in Partners
    /\ q.kind = "refresh" => /\ q.session \in Sessions
                             /\ session[q.session].owner \in Partners
                             /\ ~session[q.session].ended
                             /\ session[q.session].token = q.seen
                             /\ q.role = partner[session[q.session].owner].role
    /\ q.kind = "enroll" => q.new # "enabled"
    /\ q.kind = "access" => partner[q.who].exists
    /\ q.kind = "access" /\ ~q.late /\ q.role # "system_admin" /\ q.who \in Admins
          => OtherAdmins(q.who) # {}

\* Locks and unique rows keep two requests apart.
Apart(q, w) ==
    /\ q.kind = "refresh" /\ w.kind = "refresh" => q.session # w.session
    /\ q.kind = "otp" /\ w.kind = "otp" => q.challenge # w.challenge
    /\ Unsaved(q) /\ (Unsaved(w) \/ w.kind = "refresh") => q.session # w.session
    /\ Unsaved(q) /\ Unsaved(w) /\ q.seen = 2 /\ w.seen = 2 => q.who # w.who
    /\ Unsaved(q) /\ w.kind = "access" => q.who # w.who

Exclusive == \A r, z \in Requests : r # z => Apart(req[r], req[z])

\* A code that signed a session in is consumed or about to be, and no two sessions
\* share one.
SessionsAgree ==
    /\ \A s \in Sessions :
          /\ session[s].rotations = session[s].token
          /\ session[s].mfa => /\ session[s].owner \in Partners
                               /\ credential[session[s].owner] = "enabled"
          /\ session[s].challenge # NoOne =>
                /\ \/ challenge[session[s].challenge].consumed
                   \/ ChallengeLocked(session[s].challenge)
                /\ challenge[session[s].challenge].mobile # NoOne
    /\ \A s, t \in Sessions :
          session[s].challenge = session[t].challenge => s = t \/ session[s].challenge = NoOne

\* A session carries its owner's role from its insert on, committed or not; an account
\* that does not exist has no role but the one it will be created with.
RolesAgree ==
    /\ \A s \in Sessions :
          session[s].owner # NoOne /\ ~session[s].ended /\ s \notin overtaken =>
             session[s].role = partner[session[s].owner].role
    /\ \A p \in Partners : ~partner[p].exists => partner[p].role = "customer"

AttemptsBounded == \A c \in Challenges : challenge[c].attempts <= OTP_MAX_ATTEMPTS

AInv == /\ TypeOK
        /\ \A r \in Requests : Fits(req[r])
        /\ Exclusive /\ SessionsAgree /\ RolesAgree /\ AttemptsBounded
        /\ AdminRemainsUnlessSkewed

\* An ended session stays ended, with the token it had.
Final == \A s \in Sessions : session[s].ended => /\ session'[s].ended
                                                 /\ session'[s].token = session[s].token

-------------------------------------------------------------------------------
(* Rows *)

LEMMA EmptyRows ==
    /\ NoPartner \in PartnerRow /\ NoSession \in SessionRow
    /\ NoChallenge \in ChallengeRow /\ NoRequest \in Request
  BY DEF NoPartner, NoSession, NoChallenge, NoRequest, PartnerRow, SessionRow, ChallengeRow,
         Request, Roles, Credentials

LEMMA IdleFits ==
    /\ Fits(NoRequest) /\ Fits(NoRequest)' /\ NoRequest.kind = "idle"
    /\ \A q : Apart(q, NoRequest) /\ Apart(NoRequest, q)
  BY DEF NoRequest, Fits, SignInFits, Apart, Unsaved, SignIns

LEMMA InitHolds == Init => AInv
<1> SUFFICES ASSUME Init PROVE AInv OBVIOUS
<1>1. PICK m \in Mobiles \cup {NoOne}, linked \in BOOLEAN :
        /\ partner = [p \in Partners |->
              IF p = FirstAdmin
              THEN [exists |-> TRUE, role |-> "system_admin", password |-> TRUE, phone |-> m]
              ELSE NoPartner]
        /\ identity = [x \in Subjects |-> IF linked /\ x = m THEN FirstAdmin ELSE NoOne]
  BY DEF Init
<1>2. partner \in [Partners -> PartnerRow] BY <1>1, EmptyRows DEF PartnerRow, Roles
<1>3. identity \in [Subjects -> Partners \cup {NoOne}] BY <1>1, AccountsAssumption
<1>4. TypeOK BY <1>2, <1>3, EmptyRows DEF Init, TypeOK, Credentials
<1>5. \A r \in Requests : req[r] = NoRequest BY DEF Init
<1>6. Exclusive BY <1>5, IdleFits DEF Exclusive
<1>7. \A s \in Sessions : /\ session[s].rotations = 0 /\ session[s].token = 0
                          /\ ~session[s].mfa /\ session[s].challenge = NoOne
                          /\ session[s].owner = NoOne
  BY DEF Init, NoSession
<1>8. SessionsAgree BY <1>7 DEF SessionsAgree
<1>9. RolesAgree BY <1>1, <1>7 DEF RolesAgree, NoPartner
<1>10. AttemptsBounded BY AccountsAssumption DEF Init, NoChallenge, AttemptsBounded
<1>11. FirstAdmin \in Admins BY <1>1, AccountsAssumption DEF Admins
<1> QED BY <1>4, <1>5, <1>6, <1>8, <1>9, <1>10, <1>11, IdleFits
        DEF AInv, Init, AdminRemainsUnlessSkewed

\* A request begins; nothing else changes.
LEMMA BeginKeeps ==
    ASSUME AInv, NEW r \in Requests, NEW q \in Request, Start(r, q), Fits(q),
           UNCHANGED <<accountVars, session, challenge>>,
           q.kind \in SignIns => q.session = NoOne,
           q.kind = "refresh" => ~SessionLocked(q.session) /\ Live(q.session),
           q.kind = "otp" => ~ChallengeLocked(q.challenge),
           q.kind = "access" => ~KeyShared(q.who)
    PROVE  AInv'
<1> USE DEF AInv
<1>1. UNCHANGED <<partner, identity, credential, overtaken, skewed, session, challenge>>
  BY DEF accountVars
<1>2. \A z \in Requests : req'[z] = IF z = r THEN q ELSE req[z] BY DEF Start, TypeOK
<1>3. TypeOK' BY <1>1 DEF TypeOK, Start
<1>4. \A z \in Requests : Fits(req[z])'
  BY <1>1, <1>2 DEF Fits, SignInFits, Admins, OtherAdmins
<1>5. Exclusive'
  <2>1. \A z \in Requests : Apart(q, req[z]) /\ Apart(req[z], q)
    BY DEF Apart, Unsaved, SessionLocked, ChallengeLocked, KeyShared, Live, Inserted, SignIns
  <2> QED BY <1>2, <2>1 DEF Exclusive
<1>6. SessionsAgree'
  <2>1. req[r].kind # "otp" BY IdleFits DEF Start
  <2>2. \A c : ChallengeLocked(c) => ChallengeLocked(c)' BY <1>2, <2>1 DEF ChallengeLocked
  <2> QED BY <1>1, <2>2 DEF SessionsAgree
<1>7. RolesAgree' /\ AttemptsBounded' /\ AdminRemainsUnlessSkewed'
  BY <1>1 DEF RolesAgree, AttemptsBounded, AdminRemainsUnlessSkewed, Admins
<1> QED BY <1>3, <1>4, <1>5, <1>6, <1>7

\* What a sign-in by a code or a provider reads.
LEMMA BeginSignInKeeps ==
    ASSUME AInv, NEW r \in Requests, NEW kind \in {"oauth", "otp"}, NEW x \in Subjects,
           NEW c \in Challenges \cup {NoOne}, BeginSignIn(r, kind, x, c),
           kind = "oauth" => c = NoOne,
           kind = "otp" => /\ c \in Challenges /\ ~ChallengeLocked(c) /\ Answerable(c)
    PROVE  AInv'
<1> USE DEF AInv
<1> DEFINE p == IF identity[x] # NoOne THEN identity[x]
                ELSE IF Matches(x) = {} THEN EmailOf[x] ELSE CHOOSE y \in Matches(x) : TRUE
           role == IF Matches(x) = {} /\ identity[x] = NoOne THEN "customer" ELSE partner[p].role
           n == IF identity[x] # NoOne THEN 0 ELSE IF Matches(x) = {} THEN 2 ELSE 1
           b == [NoRequest EXCEPT !.kind = kind, !.subject = x, !.challenge = c]
           q == [b EXCEPT !.who = p, !.role = role, !.seen = n]
<1>1. Start(r, q) /\ UNCHANGED <<accountVars, session, challenge>>
  BY DEF BeginSignIn, NoRequest
<1>2. /\ p \in Partners /\ n \in 0..2
      /\ n # 2 => role = partner[p].role
      /\ n = 2 => role = "customer"
  <2>1. EmailOf[x] \in Partners /\ identity[x] \in Partners \cup {NoOne}
    BY AccountsAssumption DEF TypeOK
  <2>2. Matches(x) # {} => (CHOOSE y \in Matches(x) : TRUE) \in Partners BY DEF Matches
  <2> QED BY <2>1, <2>2
<1>3. role \in Roles BY <1>2 DEF TypeOK, PartnerRow, Roles
<1>4. n = 2 /\ ~partner[p].exists => role = partner[p].role BY <1>2 DEF RolesAgree
<1> HIDE DEF p, role, n
<1>5. /\ q \in Request /\ q.kind = kind /\ q.who = p /\ q.subject = x
      /\ q.challenge = c /\ q.seen = n /\ q.session = NoOne /\ q.role = role
  <2>1. /\ b \in Request /\ b.kind = kind /\ b.subject = x /\ b.challenge = c
        /\ b.session = NoOne
    BY DEF NoRequest, Request, Roles, Credentials
  <2>2. n \in Nat BY <1>2
  <2> HIDE DEF b
  <2> QED BY <1>2, <1>3, <2>1, <2>2 DEF Request
<1> HIDE DEF q
<1>6. kind = "otp" => \A s \in Sessions : session[s].challenge # c
  BY AccountsAssumption DEF Answerable, SessionsAgree
<1>7. SignInFits(q) BY <1>2, <1>4, <1>5, <1>6 DEF SignInFits, Answerable
<1>8. Fits(q) BY <1>5, <1>7 DEF Fits, SignIns
<1> QED BY <1>1, <1>5, <1>8, BeginKeeps

LEMMA BeginsKeep ==
    ASSUME AInv, NEW r \in Requests,
           \/ \E p \in Partners : BeginLogin(r, p)
           \/ \E x \in Subjects : BeginOauth(r, x)
           \/ \E c \in Challenges : BeginVerifyOtp(r, c)
           \/ \E s \in Sessions : BeginRefresh(r, s) \/ BeginRecover(r, s) \/ BeginEnrollment(r, s)
           \/ \E s \in Sessions, p \in Partners, role \in GrantedRoles : BeginAccess(r, s, p, role)
    PROVE  AInv'
<1> USE DEF AInv
<1>1. ASSUME NEW p \in Partners, BeginLogin(r, p) PROVE AInv'
  <2> DEFINE q == [NoRequest EXCEPT !.kind = "login", !.who = p, !.role = partner[p].role]
  <2>1. partner[p].role \in Roles BY DEF TypeOK, PartnerRow
  <2>2. /\ q \in Request /\ q.kind = "login" /\ q.who = p /\ q.role = partner[p].role
        /\ q.session = NoOne /\ q.challenge = NoOne /\ q.seen = 0
    BY <2>1 DEF NoRequest, Request, Credentials
  <2>3. Start(r, q) /\ UNCHANGED <<accountVars, session, challenge>> BY <1>1 DEF BeginLogin
  <2> HIDE DEF q
  <2>4. Fits(q) BY <2>2 DEF Fits, SignInFits
  <2> QED BY <2>2, <2>3, <2>4, BeginKeeps
<1>2. ASSUME NEW x \in Subjects, BeginOauth(r, x) PROVE AInv'
  BY <1>2, BeginSignInKeeps DEF BeginOauth
<1>3. ASSUME NEW c \in Challenges, BeginVerifyOtp(r, c) PROVE AInv'
  <2>1. challenge[c].mobile \in Subjects
    BY <1>3 DEF BeginVerifyOtp, Answerable, TypeOK, ChallengeRow, Subjects
  <2> QED BY <1>3, <2>1, BeginSignInKeeps DEF BeginVerifyOtp
<1>4. \A s \in Sessions : Live(s) => session[s].owner \in Partners /\ ~session[s].ended
  BY DEF Live, TypeOK, SessionRow
<1>5. ASSUME NEW s \in Sessions, BeginRefresh(r, s) PROVE AInv'
  <2> DEFINE role == partner[session[s].owner].role
             q == [NoRequest EXCEPT !.kind = "refresh", !.session = s, !.seen = session[s].token,
                                    !.role = role]
  <2>1. session[s].token \in Nat /\ session[s].owner \in Partners /\ role \in Roles
    BY <1>4, <1>5 DEF BeginRefresh, TypeOK, SessionRow, PartnerRow
  <2>2. Start(r, q) /\ UNCHANGED <<accountVars, session, challenge>> BY <1>5 DEF BeginRefresh
  <2> HIDE DEF role
  <2>3. /\ q \in Request /\ q.kind = "refresh" /\ q.session = s /\ q.seen = session[s].token
        /\ q.role = role
    BY <2>1 DEF NoRequest, Request, Credentials
  <2> HIDE DEF q
  <2>4. Fits(q) BY <1>4, <1>5, <2>3 DEF Fits, BeginRefresh, SignIns, role
  <2> QED BY <1>5, <2>2, <2>3, <2>4, BeginKeeps DEF BeginRefresh, SignIns
<1>6. ASSUME NEW s \in Sessions, BeginRecover(r, s) PROVE AInv'
  <2> DEFINE q == [NoRequest EXCEPT !.kind = "recover", !.who = session[s].owner]
  <2>1. session[s].owner \in Partners BY <1>4, <1>6 DEF BeginRecover
  <2>2. q \in Request /\ q.kind = "recover" /\ q.who = session[s].owner
    BY <2>1 DEF NoRequest, Request, Roles, Credentials
  <2>3. Start(r, q) /\ UNCHANGED <<accountVars, session, challenge>> BY <1>6 DEF BeginRecover
  <2> HIDE DEF q
  <2>4. Fits(q) BY <2>1, <2>2 DEF Fits, SignIns
  <2> QED BY <2>2, <2>3, <2>4, BeginKeeps DEF SignIns
<1>7. ASSUME NEW s \in Sessions, BeginEnrollment(r, s) PROVE AInv'
  <2> DEFINE p == session[s].owner
             q == [NoRequest EXCEPT !.kind = "enroll", !.who = p, !.new = credential[p]]
  <2>1. p \in Partners /\ credential[p] \in Credentials /\ credential[p] # "enabled"
    BY <1>4, <1>7 DEF BeginEnrollment, TypeOK
  <2> HIDE DEF p
  <2>2. q \in Request /\ q.kind = "enroll" /\ q.who = p /\ q.new = credential[p]
    BY <2>1 DEF NoRequest, Request, Roles, Credentials
  <2>3. Start(r, q) /\ UNCHANGED <<accountVars, session, challenge>>
    BY <1>7 DEF BeginEnrollment, p
  <2> HIDE DEF q
  <2>4. Fits(q) BY <2>1, <2>2 DEF Fits, SignIns
  <2> QED BY <2>2, <2>3, <2>4, BeginKeeps DEF SignIns
<1>8. ASSUME NEW s \in Sessions, NEW p \in Partners, NEW role \in GrantedRoles,
             BeginAccess(r, s, p, role)
      PROVE  AInv'
  <2> DEFINE q == [NoRequest EXCEPT !.kind = "access", !.who = p, !.role = role]
  <2>1. q \in Request /\ q.kind = "access" /\ q.who = p /\ q.role = role
    BY AccountsAssumption DEF NoRequest, Request, Roles, Credentials
  <2>2. Start(r, q) /\ UNCHANGED <<accountVars, session, challenge>> BY <1>8 DEF BeginAccess
  <2> HIDE DEF q
  <2>3. Fits(q) BY <1>8, <2>1 DEF Fits, BeginAccess, SignIns
  <2> QED BY <1>8, <2>1, <2>2, <2>3, BeginKeeps DEF BeginAccess, SignIns
<1> QED BY <1>1, <1>2, <1>3, <1>5, <1>6, <1>7, <1>8

\* A sign-in that has inserted nothing fails; nothing else changes.
LEMMA RollbackKeeps ==
    ASSUME AInv, NEW r \in Requests, Rollback(r), ~Inserted(r)
    PROVE  AInv'
<1> USE DEF AInv
<1>1. UNCHANGED <<partner, identity, credential, overtaken, skewed, session, challenge>>
  BY DEF Rollback, accountVars
<1>2. \A z \in Requests : req'[z] = IF z = r THEN NoRequest ELSE req[z]
  BY DEF Rollback, Commit, Ended, TypeOK
<1>3. TypeOK' BY <1>1, EmptyRows DEF TypeOK, Rollback, Commit, Ended
<1>4. \A z \in Requests : Fits(req[z])'
  BY <1>1, <1>2, IdleFits DEF Fits, SignInFits, Admins, OtherAdmins
<1>5. Exclusive' BY <1>2, IdleFits DEF Exclusive
<1>6. SessionsAgree'
  <2>1. req[r].kind = "otp" => \A s \in Sessions : session[s].challenge # req[r].challenge
    BY AccountsAssumption DEF Fits, SignInFits, Inserted, SignIns
  <2>2. \A s \in Sessions : ChallengeLocked(session[s].challenge)
                               => ChallengeLocked(session[s].challenge)'
    BY <1>1, <1>2, <2>1 DEF ChallengeLocked
  <2> QED BY <1>1, <2>2 DEF SessionsAgree
<1>7. RolesAgree' /\ AttemptsBounded' /\ AdminRemainsUnlessSkewed'
  BY <1>1 DEF RolesAgree, AttemptsBounded, AdminRemainsUnlessSkewed, Admins
<1> QED BY <1>3, <1>4, <1>5, <1>6, <1>7

\* A sign-in inserts its session, with the role it has read: no staff change of the
\* partner is under way, and those that came between have marked the request.
LEMMA InsertKeeps ==
    ASSUME AInv, NEW r \in Requests, _issue_tokens(r)
    PROVE  AInv' /\ Final
<1> USE DEF AInv
<1> DEFINE q == req[r]
<1>1. PICK s \in Sessions :
        /\ session[s] = NoSession
        /\ session' = [session EXCEPT ![s] =
              [NoSession EXCEPT !.owner = q.who, !.challenge = q.challenge, !.role = q.role]]
        /\ req' = [req EXCEPT ![r].session = s]
        /\ overtaken' = IF q.late THEN overtaken \cup {s} ELSE overtaken
  BY DEF _issue_tokens
<1>2. UNCHANGED <<partner, identity, credential, challenge, skewed>> BY DEF _issue_tokens
<1>3. /\ q \in Request /\ q.kind \in SignIns /\ q.session = NoOne /\ ~Violates(r)
      /\ SignInFits(q) /\ q.who \in Partners /\ q.challenge \in Challenges \cup {NoOne}
  BY DEF _issue_tokens, Inserted, Fits, SignInFits, TypeOK
<1> DEFINE row == [NoSession EXCEPT !.owner = q.who, !.challenge = q.challenge, !.role = q.role]
           w == [q EXCEPT !.session = s]
<1>4. /\ row \in SessionRow /\ row.owner = q.who /\ row.challenge = q.challenge
      /\ row.role = q.role /\ row.mfa = FALSE /\ row.ended = FALSE
      /\ row.rotations = 0 /\ row.token = 0
  <2>1. q.role \in Roles BY <1>3 DEF Request
  <2>2. /\ NoSession \in SessionRow /\ NoSession.mfa = FALSE /\ NoSession.ended = FALSE
        /\ NoSession.rotations = 0 /\ NoSession.token = 0
    BY EmptyRows DEF NoSession
  <2> HIDE DEF q
  <2> QED BY <1>3, <2>1, <2>2 DEF SessionRow
<1>5. /\ w \in Request /\ w.kind = q.kind /\ w.who = q.who /\ w.session = s
      /\ w.challenge = q.challenge /\ w.subject = q.subject /\ w.seen = q.seen
  <2> HIDE DEF q
  <2> QED BY <1>3 DEF Request
<1>6. session' = [session EXCEPT ![s] = row] /\ req' = [req EXCEPT ![r] = w] BY <1>1 DEF TypeOK
<1>7. /\ NoSession.owner = NoOne /\ NoSession.challenge = NoOne /\ ~NoSession.ended
      /\ s # NoOne
  BY AccountsAssumption DEF NoSession
<1> HIDE DEF q, row, w
<1>8. \A t \in Sessions : session'[t] = IF t = s THEN row ELSE session[t] BY <1>6 DEF TypeOK
<1>9. \A z \in Requests : req'[z] = IF z = r THEN w ELSE req[z] BY <1>6 DEF TypeOK
<1>10. TypeOK'
  <2>1. overtaken' \subseteq Sessions BY <1>1 DEF TypeOK
  <2> QED BY <1>2, <1>4, <1>5, <1>6, <2>1 DEF TypeOK
<1>11. \A z \in Requests : Unsaved(req[z]) \/ req[z].kind = "refresh" => req[z].session # s
  BY <1>1, <1>7, AccountsAssumption DEF Fits, SignInFits, Unsaved
<1>12. q.kind = "otp" => \A t \in Sessions : session[t].challenge # q.challenge
  BY <1>3, AccountsAssumption DEF SignInFits
<1>13. \A z \in Requests : Fits(req[z])'
  <2>1. Fits(req[r])'
    <3>1. q.seen = 2 => ~partner[q.who].exists BY <1>3 DEF Violates, q
    <3>2. req'[r] = w BY <1>9
    <3>3. SignInFits(req[r])'
      BY <1>2, <1>3, <1>4, <1>5, <1>7, <1>8, <1>12, <3>1, <3>2 DEF SignInFits
    <3> QED BY <1>3, <1>5, <3>2, <3>3 DEF Fits, SignIns
  <2>2. ASSUME NEW z \in Requests, z # r PROVE Fits(req[z])'
    <3>1. req'[z] = req[z] /\ Fits(req[z]) /\ Apart(req[z], q) BY <1>9, <2>2 DEF Exclusive, q
    <3>2. req[z].kind = "otp" => req[z].challenge # row.challenge
      BY <1>3, <1>4, <3>1, AccountsAssumption DEF Apart, Fits, SignInFits, SignIns
    <3>3. \A t \in Sessions : t # s => session'[t] = session[t] BY <1>8
    <3>4. session'[s] = row BY <1>8
    <3>5. req[z].kind \in SignIns => SignInFits(req[z])'
      BY <1>2, <1>11, <3>1, <3>2, <3>3, <3>4 DEF Fits, SignInFits, Unsaved
    <3> QED BY <1>2, <1>11, <3>1, <3>3, <3>5 DEF Fits, OtherAdmins, Admins
  <2> QED BY <1>9, <2>1, <2>2
<1>14. Exclusive'
  <2>1. ASSUME NEW z \in Requests, z # r PROVE Apart(w, req[z]) /\ Apart(req[z], w)
    <3>1. Apart(q, req[z]) /\ Apart(req[z], q) BY <2>1 DEF Exclusive, q
    <3>2. req[z].kind = "access" => req[z].who # q.who
      BY <2>1 DEF _issue_tokens, PartnerLocked, q
    <3>3. Unsaved(req[z]) /\ req[z].seen = 2 /\ q.seen = 2 => req[z].who # q.who
      BY <2>1 DEF _issue_tokens, Conflicts, Inserted, Unsaved, q
    <3> QED BY <1>3, <1>5, <1>11, <2>1, <3>1, <3>2, <3>3 DEF Apart, Unsaved, SignIns
  <2> QED BY <1>9, <2>1 DEF Exclusive
<1>15. SessionsAgree'
  <2>1. \A c : ChallengeLocked(c) => ChallengeLocked(c)'
    BY <1>5, <1>9 DEF ChallengeLocked, q
  <2>2. \A t \in Sessions :
          /\ session'[t].rotations = session'[t].token
          /\ session'[t].mfa => /\ session'[t].owner \in Partners
                                /\ credential'[session'[t].owner] = "enabled"
    BY <1>2, <1>4, <1>8 DEF SessionsAgree
  <2>3. row.challenge # NoOne => /\ ChallengeLocked(row.challenge)
                                 /\ challenge[row.challenge].mobile # NoOne
    BY <1>3, <1>4 DEF SignInFits, ChallengeLocked, q
  <2>4. \A t \in Sessions : session'[t].challenge # NoOne =>
          /\ challenge'[session'[t].challenge].consumed \/ ChallengeLocked(session[t].challenge)'
          /\ challenge'[session'[t].challenge].mobile # NoOne
    BY <1>2, <1>8, <2>1, <2>3 DEF SessionsAgree
  <2>5. row.challenge # NoOne => \A t \in Sessions : session[t].challenge # row.challenge
    BY <1>3, <1>4, <1>12 DEF SignInFits
  <2>6. \A t, u \in Sessions : session'[t].challenge = session'[u].challenge =>
           t = u \/ session'[t].challenge = NoOne
    BY <1>8, <2>5 DEF SessionsAgree
  <2> QED BY <2>2, <2>4, <2>6 DEF SessionsAgree
<1>16. RolesAgree'
  <2>1. ~q.late => q.role = partner[q.who].role BY <1>3 DEF SignInFits, Violates, q
  <2>2. s \notin overtaken' => row.role = partner[row.owner].role
    BY <1>1, <1>4, <2>1 DEF q
  <2>3. \A t \in Sessions : t \notin overtaken' => t \notin overtaken BY <1>1
  <2> QED BY <1>2, <1>8, <2>2, <2>3 DEF RolesAgree
<1>17. AttemptsBounded' /\ AdminRemainsUnlessSkewed'
  BY <1>2 DEF AttemptsBounded, AdminRemainsUnlessSkewed, Admins
<1>18. Final BY <1>1, <1>7, <1>8 DEF Final
<1> QED BY <1>10, <1>13, <1>14, <1>15, <1>16, <1>17, <1>18

\* A sign-in that has inserted its session commits: a code it used is consumed, and no
\* account changes its role.
LEMMA CommitKeeps ==
    ASSUME AInv, NEW r \in Requests, Inserted(r), Commit(r),
           UNCHANGED <<session, credential, overtaken, skewed>>,
           partner' \in [Partners -> PartnerRow], identity' \in [Subjects -> Partners \cup {NoOne}],
           \A p \in Partners : /\ partner'[p].role = partner[p].role
                               /\ partner[p].exists => partner'[p].exists
                               /\ \/ partner'[p].exists = partner[p].exists
                                  \/ p = req[r].who /\ req[r].seen = 2,
           \/ req[r].kind # "otp" /\ UNCHANGED challenge
           \/ /\ req[r].kind = "otp"
              /\ challenge' = [challenge EXCEPT ![req[r].challenge].attempts = @ + 1,
                                                ![req[r].challenge].consumed = TRUE]
    PROVE  AInv' /\ Final
<1> USE DEF AInv
<1> DEFINE c == req[r].challenge
<1>1. \A z \in Requests : req'[z] = IF z = r THEN NoRequest ELSE req[z]
  BY DEF Commit, Ended, TypeOK
<1>2. SignInFits(req[r]) /\ Unsaved(req[r]) BY DEF Inserted, Unsaved, Fits
<1> DEFINE used == [challenge[c] EXCEPT !.attempts = challenge[c].attempts + 1, !.consumed = TRUE]
<1>3. /\ challenge' \in [Challenges -> ChallengeRow]
      /\ \A d \in Challenges : /\ challenge'[d].mobile = challenge[d].mobile
                               /\ d # c => challenge'[d] = challenge[d]
                               /\ challenge[d].consumed => challenge'[d].consumed
                               /\ challenge'[d].attempts <= OTP_MAX_ATTEMPTS
      /\ req[r].kind = "otp" => challenge'[c].consumed
  <2>1. CASE req[r].kind # "otp" BY <2>1 DEF TypeOK, AttemptsBounded
  <2>2. CASE req[r].kind = "otp"
    <3>1. /\ c \in Challenges /\ challenge[c].attempts < OTP_MAX_ATTEMPTS
      BY <1>2, <2>2 DEF SignInFits
    <3>2. challenge \in [Challenges -> ChallengeRow] /\ challenge[c] \in ChallengeRow
      BY <3>1 DEF TypeOK
    <3>3. /\ used \in ChallengeRow /\ used.mobile = challenge[c].mobile
          /\ used.consumed = TRUE /\ used.attempts = challenge[c].attempts + 1
      <4>1. ASSUME NEW n \in Nat, NEW y \in ChallengeRow
            PROVE  LET u == [y EXCEPT !.attempts = n, !.consumed = TRUE]
                   IN  /\ u \in ChallengeRow /\ u.mobile = y.mobile
                       /\ u.consumed = TRUE /\ u.attempts = n
        BY DEF ChallengeRow
      <4>2. challenge[c].attempts + 1 \in Nat BY <3>2 DEF ChallengeRow
      <4> QED BY <3>2, <4>1, <4>2
    <3>4. challenge' = [challenge EXCEPT ![c] = used] BY <2>2, <3>2
    <3> HIDE DEF used
    <3>5. challenge[c].attempts + 1 <= OTP_MAX_ATTEMPTS
      BY <3>1, <3>2, AccountsAssumption DEF ChallengeRow
    <3>6. \A d \in Challenges : challenge'[d] = IF d = c THEN used ELSE challenge[d]
      BY <3>1, <3>2, <3>4
    <3>7. challenge' \in [Challenges -> ChallengeRow] BY <3>2, <3>3, <3>4
    <3> QED BY <3>1, <3>3, <3>5, <3>6, <3>7 DEF AttemptsBounded
  <2> QED BY <2>1, <2>2
<1>4. TypeOK'
  <2>1. req' \in [Requests -> Request] BY EmptyRows DEF Commit, Ended, TypeOK
  <2> QED BY <1>3, <2>1 DEF TypeOK
<1>5. Admins' = Admins BY DEF Admins, RolesAgree
<1>6. \A z \in Requests : Fits(req[z])'
  <2> SUFFICES ASSUME NEW z \in Requests, z # r PROVE Fits(req[z])'
    BY <1>1, IdleFits
  <2>1. req'[z] = req[z] /\ Fits(req[z]) /\ Apart(req[r], req[z]) BY <1>1 DEF Exclusive
  <2>2. req[z].kind = "otp" => challenge'[req[z].challenge] = challenge[req[z].challenge]
    <3>1. req[z].kind = "otp" => req[z].challenge \in Challenges
      BY <2>1 DEF Fits, SignInFits, SignIns
    <3>2. CASE req[r].kind = "otp" BY <1>3, <2>1, <3>1, <3>2 DEF Apart
    <3>3. CASE req[r].kind # "otp" BY <3>3
    <3> QED BY <3>2, <3>3
  <2>3. ASSUME req[z].kind \in SignIns PROVE SignInFits(req[z])'
    <3>1. SignInFits(req[z]) /\ req[z].who \in Partners BY <2>1, <2>3 DEF Fits, SignInFits
    <3>2. req[z].session # NoOne /\ req[z].seen = 2 => ~partner'[req[z].who].exists
      BY <1>2, <2>1, <2>3, <3>1 DEF Apart, Unsaved, SignInFits, SignIns
    <3> QED BY <2>1, <2>2, <3>1, <3>2 DEF SignInFits
  <2> QED BY <1>5, <2>1, <2>3 DEF Fits, OtherAdmins
<1>7. Exclusive' BY <1>1, IdleFits DEF Exclusive
<1>8. SessionsAgree'
  <2> SUFFICES ASSUME NEW s \in Sessions, session[s].challenge # NoOne
               PROVE  /\ \/ challenge'[session[s].challenge].consumed
                         \/ ChallengeLocked(session[s].challenge)'
                      /\ challenge'[session[s].challenge].mobile # NoOne
    BY DEF SessionsAgree
  <2>1. session[s].challenge \in Challenges BY DEF TypeOK, SessionRow
  <2>2. ASSUME ~challenge[session[s].challenge].consumed,
               session[s].challenge # c \/ req[r].kind # "otp"
        PROVE  ChallengeLocked(session[s].challenge)'
    BY <1>1, <2>2 DEF SessionsAgree, ChallengeLocked
  <2> QED BY <1>3, <2>1, <2>2 DEF SessionsAgree
<1>9. RolesAgree'
  <2>1. \A s \in Sessions : session[s].owner \in Partners \cup {NoOne} BY DEF TypeOK, SessionRow
  <2>2. \A p \in Partners : ~partner'[p].exists => ~partner[p].exists OBVIOUS
  <2> QED BY <2>1, <2>2 DEF RolesAgree
<1>10. AttemptsBounded' /\ AdminRemainsUnlessSkewed'
  BY <1>3, <1>5 DEF AttemptsBounded, AdminRemainsUnlessSkewed
<1> QED BY <1>4, <1>6, <1>7, <1>8, <1>9, <1>10 DEF Final

\* The account a sign-in creates is nobody's yet: its session waits for it.
LEMMA LinkKeepsRoles ==
    ASSUME AInv, NEW r \in Requests, req[r].kind \in {"oauth", "otp"}, Inserted(r),
           _get_or_link_partner(r)
    PROVE  /\ partner' \in [Partners -> PartnerRow]
           /\ identity' \in [Subjects -> Partners \cup {NoOne}]
           /\ \A p \in Partners : /\ partner'[p].role = partner[p].role
                                  /\ partner[p].exists => partner'[p].exists
                                  /\ \/ partner'[p].exists = partner[p].exists
                                     \/ p = req[r].who /\ req[r].seen = 2
<1> USE DEF AInv
<1> DEFINE p == req[r].who
           x == req[r].subject
           row == [NoPartner EXCEPT !.exists = TRUE, !.phone = IF x \in Mobiles THEN x ELSE NoOne]
<1>1. /\ p \in Partners /\ x \in Subjects /\ req[r].seen \in 0..2
      /\ req[r].seen = 2 => ~partner[p].exists
  BY DEF Fits, SignInFits, Inserted
<1>2. identity' \in [Subjects -> Partners \cup {NoOne}]
  BY <1>1 DEF _get_or_link_partner, TypeOK
<1>3. row \in PartnerRow /\ row.role = "customer" /\ row.exists = TRUE
  BY DEF NoPartner, PartnerRow, Roles
<1>4. CASE req[r].seen < 2
  <2>1. partner' = partner BY <1>4 DEF _get_or_link_partner
  <2> QED BY <1>2, <2>1 DEF TypeOK
<1>5. CASE req[r].seen = 2
  <2>1. partner' = [partner EXCEPT ![p] = row] BY <1>5 DEF _get_or_link_partner
  <2>2. partner' \in [Partners -> PartnerRow] BY <1>3, <2>1 DEF TypeOK
  <2>3. partner[p].role = "customer" BY <1>1, <1>5 DEF RolesAgree
  <2> HIDE DEF row
  <2>4. \A y \in Partners : partner'[y] = IF y = p THEN row ELSE partner[y]
    BY <2>1 DEF TypeOK
  <2> QED BY <1>1, <1>2, <1>3, <1>5, <2>2, <2>3, <2>4
<1> QED BY <1>1, <1>4, <1>5

LEMMA SignInKeeps ==
    ASSUME AInv, NEW r \in Requests, login(r) \/ oauth_login(r) \/ verify_phone_otp(r)
    PROVE  AInv' /\ Final
<1> USE DEF AInv
<1>1. CASE login(r)
  <2>1. /\ Inserted(r) /\ Commit(r) /\ req[r].kind = "login"
        /\ UNCHANGED <<partner, identity, credential, overtaken, skewed, session, challenge>>
    BY <1>1 DEF login, accountVars
  <2> QED BY <2>1, CommitKeeps DEF TypeOK
<1>2. CASE Fails(r)
  <2>1. session' = session BY <1>2 DEF Fails, Rollback
  <2> QED BY <1>2, <2>1, RollbackKeeps DEF Fails, Final
<1>3. CASE oauth_login(r) /\ ~Fails(r)
  <2>1. req[r].kind = "oauth" /\ FinishSignIn(r) /\ UNCHANGED challenge
    BY <1>3 DEF oauth_login
  <2> QED BY <2>1, LinkKeepsRoles, CommitKeeps DEF FinishSignIn
<1>4. CASE verify_phone_otp(r) /\ ~Fails(r)
  <2>1. /\ req[r].kind = "otp" /\ FinishSignIn(r)
        /\ challenge' = [challenge EXCEPT ![req[r].challenge].attempts = @ + 1,
                                          ![req[r].challenge].consumed = TRUE]
    BY <1>4 DEF verify_phone_otp
  <2> QED BY <2>1, LinkKeepsRoles, CommitKeeps DEF FinishSignIn
<1> QED BY <1>1, <1>2, <1>3, <1>4

\* The one request that holds the session rotates its token, and gives it the role its
\* owner still has: a staff change of the owner waits for the session.
LEMMA RefreshKeeps ==
    ASSUME AInv, NEW r \in Requests, refresh(r)
    PROVE  AInv' /\ Final
<1> USE DEF AInv
<1> DEFINE s == req[r].session
           row == [session[s] EXCEPT !.token = req[r].seen + 1,
                                     !.rotations = session[s].rotations + 1,
                                     !.role = req[r].role]
<1>1. UNCHANGED <<partner, identity, credential, skewed, challenge>> /\ overtaken' = overtaken \ {s}
  BY DEF refresh
<1>2. /\ s \in Sessions /\ session[s].owner \in Partners /\ ~session[s].ended
      /\ session[s].token = req[r].seen /\ req[r].role = partner[session[s].owner].role
      /\ session[s].rotations = session[s].token /\ session[s] \in SessionRow
      /\ req[r].kind = "refresh"
  BY DEF refresh, Fits, SessionsAgree, TypeOK
<1>3. /\ row \in SessionRow /\ row.token = row.rotations /\ row.role = req[r].role
      /\ row.owner = session[s].owner /\ row.challenge = session[s].challenge
      /\ row.mfa = session[s].mfa /\ row.ended = session[s].ended
  <2>1. session[s].token \in Nat /\ req[r].role \in Roles
    BY <1>2 DEF SessionRow, TypeOK, Request
  <2>2. PICK n \in Nat : n = req[r].seen + 1 /\ n = session[s].rotations + 1 BY <1>2, <2>1
  <2>3. row = [session[s] EXCEPT !.token = n, !.rotations = n, !.role = req[r].role] BY <2>2
  <2> HIDE DEF row
  <2>4. row \in SessionRow BY <1>2, <2>1, <2>3 DEF SessionRow
  <2>5. /\ row.token = n /\ row.rotations = n /\ row.owner = session[s].owner
        /\ row.challenge = session[s].challenge /\ row.role = req[r].role
        /\ row.mfa = session[s].mfa /\ row.ended = session[s].ended
    BY <1>2, <2>3 DEF SessionRow
  <2> QED BY <2>4, <2>5
<1>4. session' = [session EXCEPT ![s] = row] BY <1>2 DEF refresh, TypeOK
<1> HIDE DEF row
<1>5. \A t \in Sessions : session'[t] = IF t = s THEN row ELSE session[t] BY <1>4 DEF TypeOK
<1>6. \A z \in Requests : req'[z] = IF z = r THEN NoRequest ELSE req[z]
  BY DEF refresh, Commit, Ended, TypeOK
<1>7. TypeOK'
  <2>1. session' \in [Sessions -> SessionRow] BY <1>3, <1>4 DEF TypeOK
  <2>2. req' \in [Requests -> Request] BY EmptyRows DEF refresh, Commit, Ended, TypeOK
  <2> QED BY <1>1, <2>1, <2>2 DEF TypeOK
<1>8. \A z \in Requests : Fits(req[z])'
  <2> SUFFICES ASSUME NEW z \in Requests, z # r PROVE Fits(req[z])' BY <1>6, IdleFits
  <2>1. req'[z] = req[z] /\ Fits(req[z]) /\ Apart(req[z], req[r]) BY <1>6 DEF Exclusive
  <2>2. req[z].kind = "refresh" => req[z].session # s BY <1>2, <2>1 DEF Apart
  <2>3. req[z].kind \in SignIns => SignInFits(req[z])'
    <3>1. \A t \in Sessions : /\ session'[t].challenge = session[t].challenge
                              /\ session'[t].owner = session[t].owner
                              /\ session'[t].ended = session[t].ended
      BY <1>3, <1>5
    <3> QED BY <1>1, <2>1, <3>1 DEF Fits, SignInFits
  <2> QED BY <1>1, <1>5, <2>1, <2>2, <2>3 DEF Fits, OtherAdmins, Admins
<1>9. Exclusive' BY <1>6, IdleFits DEF Exclusive
<1>10. SessionsAgree'
  <2>1. \A t \in Sessions : /\ session'[t].rotations = session'[t].token
                            /\ session'[t].challenge = session[t].challenge
                            /\ session'[t].mfa = session[t].mfa
                            /\ session'[t].owner = session[t].owner
    BY <1>3, <1>5 DEF SessionsAgree
  <2>2. \A c : ChallengeLocked(c) =>
           \E z \in Requests : req'[z].kind = "otp" /\ req'[z].challenge = c
    BY <1>2, <1>6 DEF ChallengeLocked
  <2>3. \A t \in Sessions : ChallengeLocked(session[t].challenge)
                               => ChallengeLocked(session[t].challenge)'
    BY <2>1, <2>2 DEF ChallengeLocked
  <2> QED BY <1>1, <2>1, <2>3 DEF SessionsAgree
<1>11. RolesAgree'
  <2>1. row.role = partner[row.owner].role BY <1>2, <1>3
  <2> QED BY <1>1, <1>5, <2>1 DEF RolesAgree
<1>12. AttemptsBounded' /\ AdminRemainsUnlessSkewed'
  BY <1>1 DEF AttemptsBounded, AdminRemainsUnlessSkewed, Admins
<1> QED BY <1>2, <1>5, <1>7, <1>8, <1>9, <1>10, <1>11, <1>12 DEF Final

\* A statement that ends committed sessions nobody holds, and changes nothing else of them.
EndsSome ==
    /\ session' \in [Sessions -> SessionRow]
    /\ \A s \in Sessions :
          \/ session'[s] = session[s]
          \/ /\ ~SessionLocked(s) /\ Live(s) /\ session'[s].ended = TRUE
             /\ session'[s].owner = session[s].owner /\ session'[s].token = session[s].token
             /\ session'[s].rotations = session[s].rotations /\ session'[s].mfa = session[s].mfa
             /\ session'[s].challenge = session[s].challenge /\ session'[s].role = session[s].role

LEMMA EndOne ==
    ASSUME TypeOK, NEW s \in Sessions, ~SessionLocked(s), Live(s),
           session' = [session EXCEPT ![s].ended = TRUE]
    PROVE  EndsSome
<1> DEFINE row == [session[s] EXCEPT !.ended = TRUE]
<1>1. session \in [Sessions -> SessionRow] /\ session[s] \in SessionRow BY DEF TypeOK
<1>2. row \in SessionRow BY <1>1 DEF SessionRow
<1>3. /\ row.ended = TRUE /\ row.owner = session[s].owner /\ row.token = session[s].token
      /\ row.rotations = session[s].rotations /\ row.mfa = session[s].mfa
      /\ row.challenge = session[s].challenge /\ row.role = session[s].role
  BY <1>1 DEF SessionRow
<1>4. session' = [session EXCEPT ![s] = row] OBVIOUS
<1> HIDE DEF row
<1> QED BY <1>1, <1>2, <1>3, <1>4 DEF EndsSome

\* The sessions of one account that the statement sees end.
LEMMA EndAll ==
    ASSUME TypeOK, NEW p \in Partners, RevokeAll(p)
    PROVE  EndsSome /\ \A s \in Of(p) : session'[s].ended
<1> DEFINE row(s) == [session[s] EXCEPT !.ended = session[s].ended \/ s \in Of(p)]
<1>1. session \in [Sessions -> SessionRow] BY DEF TypeOK
<1>2. ASSUME NEW s \in Sessions
      PROVE  /\ row(s) \in SessionRow
             /\ s \in Of(p) => row(s).ended = TRUE
             /\ row(s).owner = session[s].owner /\ row(s).token = session[s].token
             /\ row(s).rotations = session[s].rotations /\ row(s).mfa = session[s].mfa
             /\ row(s).challenge = session[s].challenge /\ row(s).role = session[s].role
             /\ s \notin Of(p) => row(s) = session[s]
  <2>1. session[s] \in SessionRow /\ session[s].ended \in BOOLEAN BY <1>1 DEF SessionRow
  <2>2. PICK b \in BOOLEAN : b = (session[s].ended \/ s \in Of(p)) BY <2>1
  <2>3. row(s) = [session[s] EXCEPT !.ended = b] BY <2>2
  <2> HIDE DEF row
  <2>4. /\ row(s) \in SessionRow
        /\ row(s).ended = b
        /\ row(s).owner = session[s].owner /\ row(s).token = session[s].token
        /\ row(s).rotations = session[s].rotations /\ row(s).mfa = session[s].mfa
        /\ row(s).challenge = session[s].challenge /\ row(s).role = session[s].role
    BY <2>1, <2>3 DEF SessionRow
  <2>5. s \in Of(p) => b = TRUE BY <2>2
  <2>6. ASSUME s \notin Of(p) PROVE row(s) = session[s]
    <3>1. b = session[s].ended BY <2>1, <2>2, <2>6
    <3> QED BY <2>1, <2>3, <3>1 DEF SessionRow
  <2> QED BY <2>4, <2>5, <2>6
<1>3. session' = [s \in Sessions |-> row(s)] BY DEF RevokeAll, Revoked
<1> HIDE DEF row
<1>4. \A s \in Sessions : session'[s] = row(s) BY <1>3
<1>5. \A s \in Of(p) : s \in Sessions /\ ~SessionLocked(s) /\ Live(s) BY DEF RevokeAll, Of
<1>6. session' \in [Sessions -> SessionRow] BY <1>2, <1>3
<1>7. ASSUME NEW s \in Sessions
      PROVE  \/ session'[s] = session[s]
             \/ /\ ~SessionLocked(s) /\ Live(s) /\ session'[s].ended = TRUE
                /\ session'[s].owner = session[s].owner /\ session'[s].token = session[s].token
                /\ session'[s].rotations = session[s].rotations /\ session'[s].mfa = session[s].mfa
                /\ session'[s].challenge = session[s].challenge
                /\ session'[s].role = session[s].role
  BY <1>2, <1>4, <1>5
<1> QED BY <1>2, <1>4, <1>5, <1>6, <1>7 DEF EndsSome

\* A staff change has ended every session of p and marked every sign-in of p in flight.
Cleared(p) ==
    /\ partner[p].exists
    /\ \A s \in Sessions : session[s].owner = p => session'[s].ended
    /\ \A z \in Requests : req[z].kind \in SignIns /\ req[z].session = NoOne /\ req[z].who = p
                              => req'[z].late

\* What the other requests have read survives the end of sessions, also when the role
\* of an account changes whose sessions have all ended.
LEMMA EndKeeps ==
    ASSUME AInv, EndsSome, UNCHANGED <<identity, challenge, credential, overtaken>>,
           partner' \in [Partners -> PartnerRow], skewed' \in BOOLEAN,
           AdminRemainsUnlessSkewed', req' \in [Requests -> Request],
           \A p \in Partners : /\ partner'[p].exists = partner[p].exists
                               /\ partner'[p].role = partner[p].role \/ Cleared(p),
           \A z \in Requests :
              \/ req'[z] = NoRequest /\ req[z].kind \in {"recover", "access"}
              \/ /\ req'[z] \in {req[z], [req[z] EXCEPT !.late = TRUE]}
                 /\ Admins' = Admins \/ req[z].kind # "access" \/ req'[z].late
    PROVE  AInv' /\ Final
<1> USE DEF AInv
<1>1. \A s \in Sessions : /\ session'[s].challenge = session[s].challenge
                          /\ session'[s].rotations = session[s].rotations
                          /\ session'[s].token = session[s].token
                          /\ session'[s].mfa = session[s].mfa
                          /\ session'[s].owner = session[s].owner
                          /\ session'[s].role = session[s].role
                          /\ session[s].ended => session'[s].ended
  BY DEF EndsSome
<1>2. \A z \in Requests : req[z].kind = "refresh" \/ Inserted(z)
                             => session'[req[z].session] = session[req[z].session]
  BY DEF EndsSome, SessionLocked, Live, Fits, SignInFits, Inserted
<1>3. TypeOK' BY DEF TypeOK, EndsSome
<1>4. ASSUME NEW z \in Requests, req'[z] # NoRequest
      PROVE  /\ req'[z].kind = req[z].kind /\ req'[z].who = req[z].who
             /\ req'[z].session = req[z].session /\ req'[z].challenge = req[z].challenge
             /\ req'[z].subject = req[z].subject /\ req'[z].seen = req[z].seen
             /\ req'[z].new = req[z].new /\ req'[z].role = req[z].role
             /\ req[z].late => req'[z].late
             /\ Admins' = Admins \/ req[z].kind # "access" \/ req'[z].late
  <2>1. req[z] \in Request BY DEF TypeOK
  <2>2. req'[z] = req[z] \/ req'[z] = [req[z] EXCEPT !.late = TRUE] BY <1>4
  <2> QED BY <1>4, <2>1, <2>2 DEF Request
<1>5. \A z \in Requests : Fits(req[z])'
  <2> SUFFICES ASSUME NEW z \in Requests, req'[z] # NoRequest PROVE Fits(req[z])'
    BY IdleFits
  <2>1. Fits(req[z]) OBVIOUS
  <2>2. ASSUME req[z].kind \in SignIns PROVE SignInFits(req[z])'
    <3>1. SignInFits(req[z]) /\ req[z].who \in Partners BY <2>1, <2>2 DEF Fits, SignInFits
    <3>2. req[z].session # NoOne => session'[req[z].session] = session[req[z].session]
      BY <1>2, <2>2 DEF Inserted
    <3>3. req[z].session = NoOne /\ ~req'[z].late =>
             partner'[req[z].who].role = partner[req[z].who].role
      BY <2>2, <3>1 DEF Cleared
    <3> QED BY <1>1, <1>4, <3>1, <3>2, <3>3 DEF SignInFits
  <2>3. req[z].kind = "refresh" =>
          /\ session'[req[z].session] = session[req[z].session]
          /\ LET p == session[req[z].session].owner IN partner'[p].role = partner[p].role
    BY <1>2, <2>1 DEF Fits, Cleared
  <2> QED BY <1>4, <2>1, <2>2, <2>3 DEF Fits, OtherAdmins
<1>6. Exclusive'
  <2> SUFFICES ASSUME NEW r \in Requests, NEW z \in Requests, r # z
               PROVE  Apart(req[r], req[z])'
    BY DEF Exclusive
  <2>1. CASE req'[r] # NoRequest /\ req'[z] # NoRequest
    <3>1. Apart(req[r], req[z]) BY DEF Exclusive
    <3> QED BY <1>4, <2>1, <3>1 DEF Apart, Unsaved
  <2>2. CASE req'[r] = NoRequest \/ req'[z] = NoRequest
    BY <2>2 DEF Apart, Unsaved, NoRequest, SignIns
  <2> QED BY <2>1, <2>2
<1>7. SessionsAgree'
  <2>1. \A z \in Requests : req[z].kind = "otp" => /\ req'[z].kind = "otp"
                                                   /\ req'[z].challenge = req[z].challenge
    <3> TAKE z \in Requests
    <3>1. req[z] \in Request BY DEF TypeOK
    <3>2. req'[z] = NoRequest => req[z].kind # "otp" BY <3>1, IdleFits DEF Request
    <3> QED BY <1>4, <3>2
  <2>2. \A s \in Sessions : ChallengeLocked(session[s].challenge)
                               => ChallengeLocked(session[s].challenge)'
    BY <1>1, <2>1 DEF ChallengeLocked
  <2> QED BY <1>1, <2>2 DEF SessionsAgree
<1>8. RolesAgree'
  <2>1. \A s \in Sessions : session[s].owner \in Partners \cup {NoOne} BY DEF TypeOK, SessionRow
  <2> QED BY <1>1, <2>1 DEF RolesAgree, Cleared
<1>9. AttemptsBounded' BY DEF AttemptsBounded
<1>10. Final BY <1>1 DEF Final
<1> QED BY <1>3, <1>5, <1>6, <1>7, <1>8, <1>9, <1>10

LEMMA RevocationsKeep ==
    ASSUME AInv,
           \/ \E s \in Sessions : ReplayedRefresh(s) \/ revoke_session(s) \/ logout_all(s)
           \/ \E r \in Requests : recover(r) \/ replace_staff_access(r)
    PROVE  AInv' /\ Final
<1> USE DEF AInv
<1>1. ASSUME NEW s \in Sessions, ReplayedRefresh(s) \/ revoke_session(s) PROVE AInv' /\ Final
  <2>1. EndsSome BY <1>1, EndOne DEF ReplayedRefresh, revoke_session
  <2>2. UNCHANGED <<partner, identity, challenge, credential, req, overtaken, skewed>>
    BY <1>1 DEF ReplayedRefresh, revoke_session, accountVars
  <2>3. Admins' = Admins BY <2>2 DEF Admins
  <2> QED BY <2>1, <2>2, <2>3, EndKeeps DEF TypeOK, AdminRemainsUnlessSkewed
<1>2. ASSUME NEW s \in Sessions, logout_all(s) PROVE AInv' /\ Final
  <2>1. session[s].owner \in Partners BY <1>2 DEF logout_all, Live, TypeOK, SessionRow
  <2>2. EndsSome BY <1>2, <2>1, EndAll DEF logout_all
  <2>3. UNCHANGED <<partner, identity, challenge, credential, req, overtaken, skewed>>
    BY <1>2 DEF logout_all, accountVars
  <2>4. Admins' = Admins BY <2>3 DEF Admins
  <2> QED BY <2>2, <2>3, <2>4, EndKeeps DEF TypeOK, AdminRemainsUnlessSkewed
<1>3. ASSUME NEW r \in Requests, recover(r) PROVE AInv' /\ Final
  <2> DEFINE p == req[r].who
             row == [partner[p] EXCEPT !.password = TRUE]
  <2>1. p \in Partners BY <1>3 DEF recover, Fits
  <2>2. EndsSome BY <1>3, <2>1, EndAll DEF recover
  <2>3. partner[p] \in PartnerRow BY <2>1 DEF TypeOK
  <2>4. /\ row \in PartnerRow /\ row.role = partner[p].role /\ row.exists = partner[p].exists
    BY <2>3 DEF PartnerRow
  <2>5. partner' = [partner EXCEPT ![p] = row] BY <1>3 DEF recover
  <2> HIDE DEF row
  <2>6. partner' \in [Partners -> PartnerRow] BY <2>4, <2>5 DEF TypeOK
  <2>7. \A x \in Partners : /\ partner'[x].role = partner[x].role
                            /\ partner'[x].exists = partner[x].exists
    BY <2>4, <2>5 DEF TypeOK
  <2>8. Admins' = Admins BY <2>7 DEF Admins
  <2>9. UNCHANGED <<identity, challenge, credential, overtaken, skewed>> BY <1>3 DEF recover
  <2>10. /\ req' \in [Requests -> Request]
         /\ \A z \in Requests : req'[z] = IF z = r THEN NoRequest ELSE req[z]
    BY <1>3, EmptyRows DEF recover, Commit, Ended, TypeOK
  <2>11. req[r].kind = "recover" BY <1>3 DEF recover
  <2>12. AdminRemainsUnlessSkewed' BY <2>8, <2>9 DEF AdminRemainsUnlessSkewed
  <2> QED BY <2>2, <2>6, <2>7, <2>8, <2>9, <2>10, <2>11, <2>12, EndKeeps DEF TypeOK
<1>4. ASSUME NEW r \in Requests, replace_staff_access(r) PROVE AInv' /\ Final
  <2> DEFINE p == req[r].who
             row == [partner[p] EXCEPT !.role = req[r].role]
  <2>1. p \in Partners /\ req[r] \in Request /\ partner[p].exists /\ req[r].kind = "access"
    BY <1>4 DEF replace_staff_access, Fits, TypeOK
  <2>2. EndsSome /\ \A s \in Of(p) : session'[s].ended
    BY <1>4, <2>1, EndAll DEF replace_staff_access
  <2>3. partner[p] \in PartnerRow /\ req[r].role \in Roles BY <2>1 DEF TypeOK, Request
  <2>4. row \in PartnerRow /\ row.role = req[r].role /\ row.exists = partner[p].exists
    BY <2>3 DEF PartnerRow
  <2>5. partner' = [partner EXCEPT ![p] = row] BY <1>4 DEF replace_staff_access
  <2> HIDE DEF row
  <2>6. /\ partner' \in [Partners -> PartnerRow]
        /\ \A x \in Partners : partner'[x] = IF x = p THEN row ELSE partner[x]
    BY <2>4, <2>5 DEF TypeOK
  <2>7. /\ skewed' = (skewed \/ req[r].late)
        /\ UNCHANGED <<identity, challenge, credential, overtaken>>
    BY <1>4 DEF replace_staff_access
  <2>8. skewed' \in BOOLEAN BY <2>7
  <2>9. AdminRemainsUnlessSkewed'
    <3> SUFFICES ASSUME ~skewed, ~req[r].late PROVE Admins' # {}
      BY <2>7 DEF AdminRemainsUnlessSkewed
    <3>1. PICK a \in Admins : TRUE BY DEF AdminRemainsUnlessSkewed
    <3>2. CASE req[r].role # "system_admin" /\ p \in Admins
      <4>1. PICK b \in Admins : b # p
        BY <1>4, <3>2 DEF Fits, OtherAdmins, replace_staff_access
      <4> QED BY <2>6, <4>1 DEF Admins
    <3>3. CASE req[r].role = "system_admin" BY <2>4, <2>6, <3>1, <3>3 DEF Admins
    <3>4. CASE p \notin Admins BY <2>6, <3>1, <3>4 DEF Admins
    <3> QED BY <3>2, <3>3, <3>4
  <2> DEFINE marked(z) == [req[z] EXCEPT !.late = TRUE]
  <2>10. \A z \in Requests :
           req'[z] = IF z = r THEN NoRequest
                     ELSE IF \/ req[z].kind = "access"
                             \/ req[z].kind \in SignIns /\ ~Inserted(z) /\ req[z].who = p
                          THEN marked(z) ELSE req[z]
    BY <1>4 DEF replace_staff_access, Outdated
  <2>11. \A z \in Requests : marked(z) \in Request /\ marked(z).late = TRUE
    <3> TAKE z \in Requests
    <3>1. req[z] \in Request BY DEF TypeOK
    <3> QED BY <3>1 DEF Request
  <2>12. req' \in [Requests -> Request]
    <3> HIDE DEF marked
    <3>1. req' = [z \in Requests |-> req'[z]] BY <1>4 DEF replace_staff_access, Outdated
    <3>2. \A z \in Requests : req'[z] \in Request BY <2>10, <2>11, EmptyRows DEF TypeOK
    <3> QED BY <3>1, <3>2
  <2>13. Cleared(p)
    <3>1. ~KeyShared(p) BY <2>1 DEF KeyShared, Exclusive, Apart, Inserted, Unsaved, SignIns
    <3>2. ASSUME NEW s \in Sessions, session[s].owner = p PROVE session'[s].ended
      <4>1. \A z \in Requests : Inserted(z) => req[z].session # s
        BY <3>1, <3>2 DEF KeyShared, Fits, SignInFits, Inserted
      <4>2. p # NoOne BY <2>1, AccountsAssumption
      <4>3. session[s].ended => session'[s].ended BY <2>2 DEF EndsSome
      <4> QED BY <2>2, <3>2, <4>1, <4>2, <4>3 DEF Of, Live
    <3> HIDE DEF marked
    <3>3. ASSUME NEW z \in Requests, req[z].kind \in SignIns, req[z].session = NoOne, req[z].who = p
          PROVE  req'[z].late
      BY <2>1, <2>10, <2>11, <3>3 DEF Inserted, SignIns
    <3> QED BY <2>1, <3>2, <3>3 DEF Cleared
  <2>14. \A x \in Partners : /\ partner'[x].exists = partner[x].exists
                             /\ partner'[x].role = partner[x].role \/ Cleared(x)
    BY <2>4, <2>6, <2>13
  <2>15. \A z \in Requests :
           \/ req'[z] = NoRequest /\ req[z].kind \in {"recover", "access"}
           \/ /\ req'[z] \in {req[z], [req[z] EXCEPT !.late = TRUE]}
              /\ Admins' = Admins \/ req[z].kind # "access" \/ req'[z].late
    BY <2>1, <2>10, <2>11
  <2> QED BY <2>2, <2>6, <2>7, <2>8, <2>9, <2>12, <2>14, <2>15, EndKeeps
<1> QED BY <1>1, <1>2, <1>3, <1>4

\* A second factor is verified: only mfa of a session nobody holds is set, and the
\* credential of its owner is enabled.
LEMMA VerificationKeeps ==
    ASSUME AInv, NEW s \in Sessions, confirm_enrollment(s) \/ verify(s)
    PROVE  AInv' /\ Final
<1> USE DEF AInv
<1> DEFINE p == session[s].owner
           row == [session[s] EXCEPT !.mfa = TRUE]
<1>1. /\ UNCHANGED <<partner, identity, challenge, req, overtaken, skewed>>
      /\ Live(s) /\ ~SessionLocked(s) /\ session' = [session EXCEPT ![s] = row]
  BY DEF confirm_enrollment, verify, accountVars
<1>2. session[s] \in SessionRow /\ p \in Partners BY <1>1 DEF TypeOK, Live, SessionRow
<1>3. /\ credential' \in [Partners -> Credentials] /\ credential'[p] = "enabled"
      /\ \A x \in Partners : credential[x] = "enabled" => credential'[x] = "enabled"
  BY <1>2 DEF confirm_enrollment, verify, accountVars, TypeOK, Credentials
<1>4. /\ row \in SessionRow /\ row.mfa = TRUE /\ row.owner = p
      /\ row.token = session[s].token /\ row.rotations = session[s].rotations
      /\ row.challenge = session[s].challenge /\ row.ended = session[s].ended
      /\ row.role = session[s].role
  BY <1>2 DEF SessionRow
<1> HIDE DEF row
<1>5. /\ session' \in [Sessions -> SessionRow]
      /\ \A t \in Sessions : session'[t] = IF t = s THEN row ELSE session[t]
  BY <1>1, <1>4 DEF TypeOK
<1>6. TypeOK' BY <1>1, <1>3, <1>5 DEF TypeOK
<1>7. \A r \in Requests : Fits(req[r])'
  <2> SUFFICES ASSUME NEW r \in Requests PROVE Fits(req[r])' OBVIOUS
  <2>1. req'[r] = req[r] /\ Fits(req[r]) BY <1>1
  <2>2. req[r].kind = "refresh" => req[r].session # s BY <1>1 DEF SessionLocked
  <2>3. \A t \in Sessions : /\ session'[t].challenge = session[t].challenge
                            /\ session'[t].owner = session[t].owner
                            /\ session'[t].ended = session[t].ended
    BY <1>4, <1>5
  <2>4. req[r].kind \in SignIns => SignInFits(req[r])'
    BY <1>1, <2>1, <2>3 DEF Fits, SignInFits
  <2> QED BY <1>1, <1>5, <2>1, <2>2, <2>4 DEF Fits, OtherAdmins, Admins
<1>8. Exclusive' BY <1>1 DEF Exclusive
<1>9. SessionsAgree'
  <2>1. \A t \in Sessions : /\ session'[t].rotations = session'[t].token
                            /\ session'[t].challenge = session[t].challenge
                            /\ session'[t].owner = session[t].owner
                            /\ session'[t].mfa => t = s \/ session[t].mfa
    BY <1>4, <1>5 DEF SessionsAgree
  <2>2. \A c : ChallengeLocked(c)' <=> ChallengeLocked(c) BY <1>1 DEF ChallengeLocked
  <2> QED BY <1>1, <1>2, <1>3, <2>1, <2>2 DEF SessionsAgree
<1>10. RolesAgree' BY <1>1, <1>2, <1>4, <1>5 DEF RolesAgree
<1>11. AttemptsBounded' /\ AdminRemainsUnlessSkewed'
  BY <1>1 DEF AttemptsBounded, AdminRemainsUnlessSkewed, Admins
<1> QED BY <1>4, <1>5, <1>6, <1>7, <1>8, <1>9, <1>10, <1>11 DEF Final

\* An enrolment in flight replaces a credential that was not enabled when it was
\* read, so a verified session keeps its enabled one.
LEMMA EnrolmentKeeps ==
    ASSUME AInv, NEW r \in Requests, begin_enrollment(r)
    PROVE  AInv'
<1> USE DEF AInv
<1>1. /\ UNCHANGED <<partner, identity, session, challenge, overtaken, skewed>>
      /\ req[r].who \in Partners /\ req[r].new # "enabled"
  BY DEF begin_enrollment, Fits
<1>2. /\ credential' \in [Partners -> Credentials]
      /\ \A p \in Partners : credential[p] = "enabled" => credential'[p] = "enabled"
  BY <1>1 DEF begin_enrollment, TypeOK, Credentials
<1>3. \A z \in Requests : req'[z] = IF z = r THEN NoRequest ELSE req[z]
  BY DEF begin_enrollment, Commit, Ended, TypeOK
<1>4. TypeOK'
  <2>1. req' \in [Requests -> Request]
    BY EmptyRows DEF begin_enrollment, Commit, Ended, TypeOK
  <2> QED BY <1>1, <1>2, <2>1 DEF TypeOK
<1>5. \A z \in Requests : Fits(req[z])'
  BY <1>1, <1>3, IdleFits DEF Fits, SignInFits, Admins, OtherAdmins
<1>6. Exclusive' BY <1>3, IdleFits DEF Exclusive
<1>7. SessionsAgree'
  <2>1. req[r].kind = "enroll" BY DEF begin_enrollment
  <2>2. \A c : ChallengeLocked(c) => ChallengeLocked(c)' BY <1>3, <2>1 DEF ChallengeLocked
  <2> QED BY <1>1, <1>2, <2>2 DEF SessionsAgree
<1>8. RolesAgree' /\ AttemptsBounded' /\ AdminRemainsUnlessSkewed'
  BY <1>1 DEF RolesAgree, AttemptsBounded, AdminRemainsUnlessSkewed, Admins
<1> QED BY <1>4, <1>5, <1>6, <1>7, <1>8

\* A code is asked for, expires, or is answered wrongly while nobody verifies it.
LEMMA ChallengesKeep ==
    ASSUME AInv, NEW c \in Challenges, request_phone_otp(c) \/ OtpExpires(c) \/ WrongOtp(c)
    PROVE  AInv'
<1> USE DEF AInv
<1>1. UNCHANGED <<partner, identity, credential, overtaken, skewed, session, req>>
  BY DEF request_phone_otp, OtpExpires, WrongOtp, accountVars
<1>2. challenge[c] \in ChallengeRow BY DEF TypeOK
<1>3. PICK row \in ChallengeRow :
        /\ challenge' = [challenge EXCEPT ![c] = row]
        /\ row.attempts <= OTP_MAX_ATTEMPTS
        /\ challenge[c].mobile # NoOne => row.mobile # NoOne
        /\ challenge[c].consumed => row.consumed
        /\ ChallengeLocked(c) => row.attempts = challenge[c].attempts
  <2>1. CASE request_phone_otp(c)
    <3>1. PICK m \in Mobiles : challenge' = [challenge EXCEPT ![c].mobile = m]
      BY <2>1 DEF request_phone_otp
    <3> DEFINE row == [challenge[c] EXCEPT !.mobile = m]
    <3>2. /\ row \in ChallengeRow /\ row.mobile = m /\ row.attempts = challenge[c].attempts
          /\ row.consumed = challenge[c].consumed
      BY <1>2 DEF ChallengeRow
    <3>3. challenge' = [challenge EXCEPT ![c] = row] BY <3>1
    <3>4. m # NoOne BY AccountsAssumption DEF Subjects
    <3>5. challenge[c].attempts <= OTP_MAX_ATTEMPTS BY DEF AttemptsBounded
    <3> HIDE DEF row
    <3> QED BY <3>2, <3>3, <3>4, <3>5
  <2>2. CASE OtpExpires(c)
    <3> DEFINE row == [challenge[c] EXCEPT !.consumed = TRUE]
    <3>1. /\ row \in ChallengeRow /\ row.mobile = challenge[c].mobile
          /\ row.attempts = challenge[c].attempts /\ row.consumed = TRUE
      BY <1>2 DEF ChallengeRow
    <3>2. challenge' = [challenge EXCEPT ![c] = row] BY <2>2 DEF OtpExpires
    <3>3. challenge[c].attempts <= OTP_MAX_ATTEMPTS BY DEF AttemptsBounded
    <3> HIDE DEF row
    <3> QED BY <3>1, <3>2, <3>3
  <2>3. CASE WrongOtp(c)
    <3>1. challenge[c].attempts \in Nat /\ challenge[c].consumed \in BOOLEAN
      BY <1>2 DEF ChallengeRow
    <3>2. PICK n \in Nat : n = challenge[c].attempts + 1 BY <3>1
    <3>3. n <= OTP_MAX_ATTEMPTS /\ ~ChallengeLocked(c)
      BY <2>3, <3>1, <3>2, AccountsAssumption DEF WrongOtp, Answerable
    <3> DEFINE done == challenge[c].consumed \/ n >= OTP_MAX_ATTEMPTS
               row == [challenge[c] EXCEPT !.attempts = n, !.consumed = done]
    <3>4. challenge' = [challenge EXCEPT ![c] = row] BY <2>3, <3>2 DEF WrongOtp
    <3>5. done \in BOOLEAN /\ (challenge[c].consumed => done) BY <3>1
    <3> HIDE DEF done
    <3>6. /\ row \in ChallengeRow /\ row.mobile = challenge[c].mobile
          /\ row.attempts = n /\ row.consumed = done
      BY <1>2, <3>2, <3>5 DEF ChallengeRow
    <3> HIDE DEF row
    <3> QED BY <3>3, <3>4, <3>5, <3>6
  <2> QED BY <2>1, <2>2, <2>3
<1>4. \A d \in Challenges : challenge'[d] = IF d = c THEN row ELSE challenge[d]
  BY <1>3 DEF TypeOK
<1>5. TypeOK' BY <1>1, <1>3 DEF TypeOK
<1>6. \A z \in Requests : Fits(req[z])'
  <2> SUFFICES ASSUME NEW z \in Requests PROVE Fits(req[z])' OBVIOUS
  <2>1. req'[z] = req[z] /\ Fits(req[z]) BY <1>1
  <2>2. req[z].kind = "otp" =>
          /\ req[z].challenge \in Challenges
          /\ challenge'[req[z].challenge].mobile # NoOne
          /\ challenge'[req[z].challenge].attempts = challenge[req[z].challenge].attempts
    BY <1>3, <1>4, <2>1 DEF Fits, SignInFits, SignIns, ChallengeLocked
  <2>3. req[z].kind \in SignIns => SignInFits(req[z])'
    BY <1>1, <2>1, <2>2 DEF Fits, SignInFits
  <2> QED BY <1>1, <2>1, <2>3 DEF Fits, Admins, OtherAdmins
<1>7. Exclusive' BY <1>1 DEF Exclusive
<1>8. SessionsAgree'
  <2>1. \A d \in Challenges : /\ challenge[d].mobile # NoOne => challenge'[d].mobile # NoOne
                              /\ challenge[d].consumed => challenge'[d].consumed
    BY <1>3, <1>4
  <2>2. \A s \in Sessions : session[s].challenge \in Challenges \cup {NoOne}
    BY DEF TypeOK, SessionRow
  <2>3. \A d : ChallengeLocked(d)' <=> ChallengeLocked(d) BY <1>1 DEF ChallengeLocked
  <2> QED BY <1>1, <2>1, <2>2, <2>3 DEF SessionsAgree
<1>9. AttemptsBounded' BY <1>3, <1>4 DEF AttemptsBounded
<1>10. RolesAgree' /\ AdminRemainsUnlessSkewed'
  BY <1>1 DEF RolesAgree, AdminRemainsUnlessSkewed, Admins
<1> QED BY <1>5, <1>6, <1>7, <1>8, <1>9, <1>10

\* A new account is a customer's.
LEMMA RegisterKeeps ==
    ASSUME AInv, NEW p \in Partners, register(p)
    PROVE  AInv'
<1> USE DEF AInv
<1>1. UNCHANGED <<identity, session, challenge, credential, req, overtaken, skewed>>
  BY DEF register
<1>2. PICK m \in Mobiles \cup {NoOne} :
        partner' = [partner EXCEPT ![p] =
                       [NoPartner EXCEPT !.exists = TRUE, !.password = TRUE, !.phone = m]]
  BY DEF register
<1> DEFINE row == [NoPartner EXCEPT !.exists = TRUE, !.password = TRUE, !.phone = m]
<1>3. row \in PartnerRow /\ row.role = "customer" BY DEF NoPartner, PartnerRow, Roles
<1> HIDE DEF row
<1>4. /\ partner' \in [Partners -> PartnerRow]
      /\ \A x \in Partners : partner'[x] = IF x = p THEN row ELSE partner[x]
  BY <1>2, <1>3 DEF TypeOK, row
<1>5. \A x \in Partners : /\ partner'[x].role = partner[x].role
                          /\ partner[x].exists => partner'[x].exists
                          /\ ~partner'[x].exists => ~partner[x].exists
  BY <1>3, <1>4 DEF register, RolesAgree, row
<1>6. Admins' = Admins BY <1>3, <1>4 DEF Admins, register
<1>7. TypeOK' BY <1>1, <1>4 DEF TypeOK
<1>8. \A z \in Requests : Fits(req[z])'
  <2> SUFFICES ASSUME NEW z \in Requests PROVE Fits(req[z])' OBVIOUS
  <2>1. req'[z] = req[z] /\ Fits(req[z]) BY <1>1
  <2>2. Inserted(z) => req[z].who # p BY DEF register, KeyShared
  <2>3. req[z].kind \in SignIns => SignInFits(req[z])'
    BY <1>1, <1>4, <1>5, <2>1, <2>2 DEF Fits, SignInFits, Inserted
  <2> QED BY <1>1, <1>5, <1>6, <2>1, <2>3 DEF Fits, OtherAdmins
<1>9. RolesAgree'
  <2>1. \A s \in Sessions : session[s].owner \in Partners \cup {NoOne} BY DEF TypeOK, SessionRow
  <2> QED BY <1>1, <1>5, <2>1 DEF RolesAgree
<1>10. SessionsAgree'
  <2>1. \A c : ChallengeLocked(c)' <=> ChallengeLocked(c) BY <1>1 DEF ChallengeLocked
  <2> QED BY <1>1, <2>1 DEF SessionsAgree
<1>11. Exclusive' /\ AttemptsBounded' /\ AdminRemainsUnlessSkewed'
  BY <1>1, <1>6 DEF Exclusive, AttemptsBounded, AdminRemainsUnlessSkewed
<1> QED BY <1>7, <1>8, <1>9, <1>10, <1>11

-------------------------------------------------------------------------------
(* Every step *)

LEMMA StepHolds == AInv /\ [Next]_vars => AInv' /\ Final
<1> SUFFICES ASSUME AInv, [Next]_vars PROVE AInv' /\ Final OBVIOUS
<1>1. CASE UNCHANGED vars
  <2>1. UNCHANGED <<partner, identity, session, challenge, credential, req, overtaken, skewed>>
    BY <1>1 DEF vars
  <2>2. \A r \in Requests : Fits(req[r])'
    BY <2>1 DEF AInv, Fits, SignInFits, OtherAdmins, Admins
  <2>3. \A c : ChallengeLocked(c)' <=> ChallengeLocked(c) BY <2>1 DEF ChallengeLocked
  <2>4. SessionsAgree' BY <2>1, <2>3 DEF AInv, SessionsAgree
  <2> QED BY <2>1, <2>2, <2>4 DEF AInv, TypeOK, Exclusive, RolesAgree, AttemptsBounded, Final,
                                 AdminRemainsUnlessSkewed, Admins
<1>2. ASSUME NEW r \in Requests, SignIn(r) PROVE AInv' /\ Final
  <2>1. CASE login(r) \/ oauth_login(r) \/ verify_phone_otp(r)
    BY <2>1, SignInKeeps
  <2>2. CASE \/ \E p \in Partners : BeginLogin(r, p)
             \/ \E x \in Subjects : BeginOauth(r, x)
             \/ \E c \in Challenges : BeginVerifyOtp(r, c)
    <3>1. session' = session
      BY <2>2 DEF BeginLogin, BeginOauth, BeginVerifyOtp, BeginSignIn
    <3>2. Final BY <3>1, Zenon DEF Final
    <3>3. AInv' BY <2>2, BeginsKeep, Zenon
    <3> QED BY <3>2, <3>3
  <2>3. CASE _issue_tokens(r) BY <2>3, InsertKeeps
  <2> QED BY <1>2, <2>1, <2>2, <2>3 DEF SignIn
<1>3. ASSUME NEW r \in Requests, Maintain(r) PROVE AInv' /\ Final
  <2>1. CASE refresh(r) BY <2>1, RefreshKeeps DEF Final
  <2>2. CASE recover(r) BY <2>2, RevocationsKeep DEF Final
  <2>3. CASE begin_enrollment(r)
    BY <2>3, EnrolmentKeeps DEF Final, begin_enrollment
  <2>4. CASE \E s \in Sessions : BeginRefresh(r, s) \/ BeginRecover(r, s) \/ BeginEnrollment(r, s)
    <3>1. session' = session BY <2>4 DEF BeginRefresh, BeginRecover, BeginEnrollment
    <3> QED BY <2>4, <3>1, BeginsKeep DEF Final
  <2> QED BY <1>3, <2>1, <2>2, <2>3, <2>4 DEF Maintain
<1>4. ASSUME NEW r \in Requests, Manage(r) PROVE AInv' /\ Final
  <2>1. CASE replace_staff_access(r) BY <2>1, RevocationsKeep DEF Final
  <2>2. CASE \E s \in Sessions, p \in Partners, role \in GrantedRoles : BeginAccess(r, s, p, role)
    <3>1. session' = session BY <2>2 DEF BeginAccess
    <3> QED BY <2>2, <3>1, BeginsKeep DEF Final
  <2> QED BY <1>4, <2>1, <2>2 DEF Manage
<1>5. ASSUME NEW p \in Partners, register(p) PROVE AInv' /\ Final
  BY <1>5, RegisterKeeps DEF Final, register
<1>6. ASSUME NEW c \in Challenges, request_phone_otp(c) \/ OtpExpires(c) \/ WrongOtp(c)
      PROVE  AInv' /\ Final
  BY <1>6, ChallengesKeep DEF Final, request_phone_otp, OtpExpires, WrongOtp
<1>7. ASSUME NEW s \in Sessions, ReplayedRefresh(s) \/ revoke_session(s) \/ logout_all(s)
      PROVE  AInv' /\ Final
  BY <1>7, RevocationsKeep DEF Final
<1>8. ASSUME NEW s \in Sessions, confirm_enrollment(s) \/ verify(s) PROVE AInv' /\ Final
  BY <1>8, VerificationKeeps DEF Final
<1> QED BY <1>1, <1>2, <1>3, <1>4, <1>5, <1>6, <1>7, <1>8 DEF Next

-------------------------------------------------------------------------------
(* Theorems *)

\* auth/service.py, access_service.py and mfa_service.py: what a request has read or
\* locked still holds when it writes.
THEOREM AccountsInvariant == Spec => []AInv
  BY InitHolds, StepHolds, PTL DEF Spec

\* Rows and requests have the shapes of the tables and of the code.
THEOREM AccountsTypes == Spec => []TypeOK
  BY AccountsInvariant, PTL DEF AInv

\* auth/router.py:177: a session has been rotated as often as its token has changed,
\* however many refreshes race.
THEOREM RefreshTokensAreUsedOnce == Spec => []RefreshOnce
<1>1. AInv => RefreshOnce BY DEF AInv, SessionsAgree, RefreshOnce
<1> QED BY <1>1, AccountsInvariant, PTL

\* auth/service.py:216: a code signs in at most once and takes a bounded number of
\* answers.
THEOREM CodesSignInOnce == Spec => []OtpSignsInOnce
<1>1. AInv => OtpSignsInOnce BY DEF AInv, SessionsAgree, AttemptsBounded, OtpSignsInOnce
<1> QED BY <1>1, AccountsInvariant, PTL

\* access_service.py:237: whichever sign-ins and refreshes a staff change meets, the
\* sessions it leaves carry their owner's role, but for a sign-in that read the role
\* before it and inserted its session after it.
THEOREM StaffChangesReachSessions == Spec => []RolesAreCurrent
<1>1. AInv => RolesAreCurrent BY DEF AInv, RolesAgree, RolesAreCurrent, Live
<1> QED BY <1>1, AccountsInvariant, PTL

\* mfa_service.py:118: a verified session belongs to an enabled credential, whatever
\* enrolments were begun before it was verified.
THEOREM VerifiedSessionsAreEnrolled == Spec => []VerifiedIsEnrolled
<1>1. AInv => VerifiedIsEnrolled BY DEF AInv, SessionsAgree, VerifiedIsEnrolled
<1> QED BY <1>1, AccountsInvariant, PTL

\* access_service.py:209: an administrator remains unless a change was committed on
\* an overtaken count.
THEOREM AnAdminRemains == Spec => []AdminRemainsUnlessSkewed
  BY AccountsInvariant, PTL DEF AInv

\* auth/service.py:330: a revoked session never comes back, and its token is never
\* rotated again.
THEOREM EndedSessionsStayEnded == Spec => RevokedIsFinal
<1>1. AInv /\ [Next]_vars =>
        [\A s \in Sessions : session[s].ended => /\ session'[s].ended
                                                 /\ session'[s].token = session[s].token]_vars
  BY StepHolds DEF Final
<1> QED BY <1>1, AccountsInvariant, PTL DEF Spec, RevokedIsFinal
===============================================================================
