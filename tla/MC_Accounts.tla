------------------------------ MODULE MC_Accounts ------------------------------
(* A staff account and the one a phone number or an OAuth subject may create. *)
EXTENDS Accounts, TLC
CONSTANTS p1, p2, m1, g1, s1, s2, c1, r1, r2
Emails == m1 :> p2 @@ g1 :> p2
AnyRequest == Permutations(Requests)
AnySession == Permutations(Sessions)
Symmetry == AnyRequest \cup AnySession

\* Once both sessions have ended no one can sign in again or act.
SomeSessionIsLeft == \E s \in Sessions : ~session[s].ended

\* What a request can still read: no one reads the token or the role of a session that has
\* ended, the answers to a code that is consumed, the phone numbers once the subject is
\* linked, or the role a sign-in gave to its session.
Readable == <<
    [p \in Partners |-> IF \A m \in Mobiles : identity[m] # NoOne
                        THEN [partner[p] EXCEPT !.phone = NoOne] ELSE partner[p]],
    identity,
    [s \in Sessions |-> IF session[s].ended
                        THEN [NoSession EXCEPT !.owner = session[s].owner, !.ended = TRUE,
                                               !.challenge = session[s].challenge,
                                               !.mfa = session[s].mfa]
                        ELSE session[s]],
    [c \in Challenges |-> IF /\ challenge[c].consumed /\ ~ChallengeLocked(c)
                             /\ challenge[c].attempts <= OTP_MAX_ATTEMPTS
                          THEN [challenge[c] EXCEPT !.attempts = 0] ELSE challenge[c]],
    credential,
    [r \in Requests |-> IF Inserted(r) THEN [req[r] EXCEPT !.role = "customer", !.late = FALSE]
                                       ELSE req[r]],
    {s \in overtaken : ~session[s].ended}, skewed>>
===============================================================================
