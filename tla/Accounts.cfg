CONSTANTS
    p1 = p1
    p2 = p2
    m1 = m1
    g1 = g1
    s1 = s1
    s2 = s2
    c1 = c1
    r1 = r1
    r2 = r2
    NoOne = NoOne
    Partners = {p1, p2}
    FirstAdmin = p1
    Mobiles = {m1}
    OauthSubjects = {g1}
    EmailOf <- Emails
    Sessions = {s1, s2}
    Challenges = {c1}
    Requests = {r1, r2}
    OTP_MAX_ATTEMPTS = 2
    MaxTokens = 1
    GrantedRoles = {"manager", "system_admin"}
SPECIFICATION Spec
INVARIANTS RefreshOnce OtpSignsInOnce RolesAreCurrent VerifiedIsEnrolled AdminRemainsUnlessSkewed
SYMMETRY Symmetry
CHECK_DEADLOCK FALSE
CONSTRAINT SomeSessionIsLeft
VIEW Readable
