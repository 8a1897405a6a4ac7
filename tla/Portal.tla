-------------------------------- MODULE Portal --------------------------------
(***************************************************************************)
(* The signed-in customer's account portal: address book, wishlist and     *)
(* profile.                                                                *)
(*                                                                         *)
(* Nothing is locked.  A request reads rows (Begin), the requests on the   *)
(* address book read once more (Second), and all write and commit at the   *)
(* end.  What the ORM writes is what differs from what the request read,   *)
(* and writing a row that has gone is an error that rolls everything back. *)
(* Every query is limited to the customer's own rows, so one customer's    *)
(* address book and wishlist stand for all; two accounts share the mailbox *)
(* names.                                                                  *)
(***************************************************************************)
EXTENDS Naturals, FiniteSets, FiniteSetsExt

CONSTANTS
    Requests,       \* requests in flight at once
    MaxAddresses,   \* bound on the addresses ever inserted
    Products,
    Partners,       \* accounts that compete for an email
    Emails          \* the mailboxes they may name

ASSUME PortalAssumption == MaxAddresses \in Nat /\ Partners # {}

AddressIds == 1..MaxAddresses

VARIABLES
    desk,       \* which part of the portal the behaviour is about
    book,       \* elitedom_customer_address: unused, plain, default or deleted
    wishlist,   \* elitedom_wishlist_item
    on_sale,    \* products with is_active
    profile,    \* partner -> email, email_verified
    identities, \* elitedom_auth_identity of one provider: <<partner, email>>
    req,        \* the requests in flight and what each has read
    raced,      \* history: two requests were in flight at once
    failed      \* history: a request ended in an unexpected database error

vars == <<desk, book, wishlist, on_sale, profile, identities, req, raced, failed>>
rows == <<book, wishlist, on_sale, profile, identities>>

Free == [op |-> "none"]

Init ==
    /\ desk \in {"addresses", "wishlist", "profile"}
    /\ book = [i \in AddressIds |-> "unused"]
    /\ wishlist = {}
    /\ on_sale = Products
    /\ profile \in [Partners -> [email : Emails, verified : {FALSE}]]
    /\ \A p, q \in Partners : profile[p].email = profile[q].email => p = q
    /\ identities = {}
    /\ req = [r \in Requests |-> Free]
    /\ raced = FALSE /\ failed = FALSE

-------------------------------------------------------------------------------
(* Requests                                                                    *)

Begin(r, topic, what) ==
    /\ desk = topic /\ req[r] = Free
    /\ req' = [req EXCEPT ![r] = what]
    /\ raced' = (raced \/ \E z \in Requests : req[z] # Free)
    /\ UNCHANGED <<desk, rows, failed>>

End(r) == req' = [req EXCEPT ![r] = Free] /\ UNCHANGED <<desk, raced>>

\* IntegrityError or StaleDataError: get_db rolls back.
Fail(r) == End(r) /\ failed' = TRUE /\ UNCHANGED rows

\* The connection drops, or PostgreSQL picks this request to break a deadlock.
Abort(r) == req[r] # Free /\ End(r) /\ UNCHANGED <<rows, failed>>

-------------------------------------------------------------------------------
(* Addresses.  A definition named faulty_* is no part of the code: it is the   *)
(* one after it with a plausible slip, used to see that the properties notice. *)

Addresses == {i \in AddressIds : book[i] \in {"plain", "default"}}
Defaults  == {i \in AddressIds : book[i] = "default"}
Unused    == {i \in AddressIds : book[i] = "unused"}

\* The newest other address, 0 when there is none.
_get_replacement_address(excluded) == Max((Addresses \ {excluded}) \cup {0})

\* pc: "read" after the first query, "second" after the next one.
Work(op, i, is_default) ==
    [op |-> op, pc |-> "read", id |-> i, is_default |-> is_default,
     clear |-> {}, other |-> 0, other_was_default |-> FALSE]

\* The first address becomes the default one.
BeginAddAddress(r, is_default) ==
    Begin(r, "addresses", Work("add", 0, is_default \/ Addresses = {}))

\* PUT .../default, and PUT with is_default true; the third argument is what was read.
BeginSetDefault(r, i) ==
    i \in Addresses /\ Begin(r, "addresses", Work("set", i, i \in Defaults))

\* PUT with is_default false: nothing to do unless the address is the default.
BeginUnsetDefault(r, i) == i \in Defaults /\ Begin(r, "addresses", Work("unset", i, TRUE))

BeginDeleteAddress(r, i) ==
    i \in Addresses /\ Begin(r, "addresses", Work("delete", i, i \in Defaults))

\* A deletion holds its row until it commits, and whoever writes that row waits.
Held(i) == \E z \in Requests : req[z].op = "delete" /\ req[z].pc = "second" /\ req[z].id = i

\* Rows that _clear_other_default_addresses will clear.
Cleared(q) == IF q.op = "set" \/ (q.op = "add" /\ q.is_default) THEN Defaults \ {q.id} ELSE {}

faulty_Replacement(q) == IF q.op = "unset" THEN _get_replacement_address(q.id) ELSE 0

Replacement(q) ==
    IF q.op = "unset" \/ (q.op = "delete" /\ q.is_default) THEN _get_replacement_address(q.id) ELSE 0

Second(r) ==
    LET q == req[r] IN
    /\ desk = "addresses" /\ q # Free /\ q.pc = "read"
    /\ q.op = "delete" => ~Held(q.id)
    /\ IF q.op = "unset" /\ Replacement(q) = 0
       THEN End(r)                                \* refused: it must remain the default
       ELSE /\ req' = [req EXCEPT ![r] =
                 [q EXCEPT !.pc = "second", !.clear = Cleared(q), !.other = Replacement(q),
                           !.other_was_default = Replacement(q) \in Defaults]]
            /\ UNCHANGED <<desk, raced>>
    /\ UNCHANGED <<rows, failed>>

Promoted(q) == IF q.other = 0 \/ q.other_was_default THEN {} ELSE {q.other}

\* The rows of the request are written: default, plain or deleted.
Saved(q, i) ==
    CASE i \in Promoted(q) -> "default"
      [] i = q.id /\ q.op = "delete" -> "deleted"
      [] i = q.id /\ q.op = "unset" -> "plain"
      [] i = q.id /\ q.op = "set" -> IF q.is_default THEN book[i] ELSE "default"
      [] i \in q.clear /\ book[i] = "default" -> "plain"
      [] OTHER -> book[i]

add_address(r) ==
    LET q == req[r] IN
    /\ q.op = "add" /\ q.pc = "second" /\ Unused # {}
    /\ \A i \in q.clear : ~Held(i)
    /\ book' = [i \in AddressIds |->
         IF i = Min(Unused) THEN IF q.is_default THEN "default" ELSE "plain" ELSE Saved(q, i)]
    /\ End(r) /\ UNCHANGED <<wishlist, on_sale, profile, identities, failed>>

\* update_address, set_default_address and delete_address.  Deleting a row that
\* has gone is only a warning.
change_address(r) ==
    LET q == req[r]
        needed == Promoted(q) \cup (IF q.op = "delete" THEN {} ELSE {q.id})
    IN
    /\ q.op \in {"set", "unset", "delete"} /\ q.pc = "second"
    /\ \A i \in q.clear \cup needed : ~Held(i)
    /\ IF needed \subseteq Addresses
       THEN /\ book' = [i \in AddressIds |-> Saved(q, i)]
            /\ End(r) /\ UNCHANGED <<wishlist, on_sale, profile, identities, failed>>
       ELSE Fail(r)

-------------------------------------------------------------------------------
(* Wishlist                                                                    *)

\* A product that is already there is returned as it is; another must be active.
BeginAddWish(r, p) ==
    /\ p \notin wishlist
    /\ p \in on_sale
    /\ Begin(r, "wishlist", [op |-> "wish", product |-> p])

BeginRemoveWish(r, p) ==
    p \in wishlist /\ Begin(r, "wishlist", [op |-> "unwish", product |-> p])

\* uq_elitedom_wishlist_item_partner_product refuses a second row.
add_wishlist_item(r) ==
    /\ req[r].op = "wish"
    /\ IF req[r].product \in wishlist THEN Fail(r)
       ELSE /\ wishlist' = wishlist \cup {req[r].product}
            /\ End(r) /\ UNCHANGED <<book, on_sale, profile, identities, failed>>

remove_wishlist_item(r) ==
    /\ req[r].op = "unwish"
    /\ wishlist' = wishlist \ {req[r].product}
    /\ End(r) /\ UNCHANGED <<book, on_sale, profile, identities, failed>>

\* The catalogue activates and deactivates products (Catalogue).
SetActive(p) ==
    /\ desk = "wishlist"
    /\ on_sale' = IF p \in on_sale THEN on_sale \ {p} ELSE on_sale \cup {p}
    /\ UNCHANGED <<desk, book, wishlist, profile, identities, req, raced, failed>>

-------------------------------------------------------------------------------
(* Profile, and the sign-in that links a provider's identity to it.            *)

Taken(p, e) == \E q \in Partners \ {p} : profile[q].email = e

BeginUpdateProfile(r, p, e) ==
    /\ ~Taken(p, e)
    /\ Begin(r, "profile", [op |-> "profile", partner |-> p, email |-> e, seen |-> profile[p]])

faulty_NewProfile(q, current) ==
    IF q.email = q.seen.email THEN current ELSE [current EXCEPT !.email = q.email]

\* A new email is unverified, and the flag is written only if it was read as set.
NewProfile(q, current) ==
    IF q.email = q.seen.email THEN current
    ELSE [email |-> q.email, verified |-> IF q.seen.verified THEN FALSE ELSE current.verified]

update_profile(r) ==
    LET q == req[r] IN
    /\ q.op = "profile"
    /\ IF q.email # q.seen.email /\ Taken(q.partner, q.email) THEN Fail(r)
       ELSE /\ profile' = [profile EXCEPT ![q.partner] = NewProfile(q, @)]
            /\ End(r) /\ UNCHANGED <<book, wishlist, on_sale, identities, failed>>

Linked(p, e) == \E x \in identities : x[1] = p \/ x[2] = e

\* The provider vouches for e, and no account has signed in with it yet.
BeginLink(r, p, e) ==
    /\ profile[p].email = e /\ ~Linked(p, e)
    /\ Begin(r, "profile", [op |-> "link", partner |-> p, email |-> e])

_get_or_link_oauth_partner(r) ==
    LET q == req[r] IN
    /\ q.op = "link"
    /\ IF Linked(q.partner, q.email) THEN Fail(r)
       ELSE /\ profile' = [profile EXCEPT ![q.partner].verified = TRUE]
            /\ identities' = identities \cup {<<q.partner, q.email>>}
            /\ End(r) /\ UNCHANGED <<book, wishlist, on_sale, failed>>

-------------------------------------------------------------------------------
Next ==
    \E r \in Requests :
      \/ \E is_default \in BOOLEAN : BeginAddAddress(r, is_default)
      \/ \E i \in AddressIds : \/ BeginSetDefault(r, i) \/ BeginUnsetDefault(r, i)
                               \/ BeginDeleteAddress(r, i)
      \/ Second(r) \/ add_address(r) \/ change_address(r)
      \/ \E p \in Products : BeginAddWish(r, p) \/ BeginRemoveWish(r, p)
      \/ add_wishlist_item(r) \/ remove_wishlist_item(r)
      \/ \E p \in Products : SetActive(p)
      \/ \E p \in Partners, e \in Emails : BeginUpdateProfile(r, p, e) \/ BeginLink(r, p, e)
      \/ update_profile(r) \/ _get_or_link_oauth_partner(r)
      \/ Abort(r)

Spec == Init /\ [][Next]_vars

-------------------------------------------------------------------------------
(* Properties *)

\* "At least one shipping address must remain the default"
\* (customers/service.py:110): through any sequence of additions, changes and
\* deletions exactly one address is the default while there is any, unless two
\* requests overlapped, since none of them locks what it reads.
DefaultRemains == raced \/ Addresses = {} \/ Cardinality(Defaults) = 1

\* A verified email is one a provider vouched for, for that account: changing the
\* email withdraws the mark (customers/service.py:49), unless the change read the
\* account before a sign-in verified the old email.
VerifiedEmailIsProven ==
    raced \/ \A p \in Partners : profile[p].verified => <<p, profile[p].email>> \in identities

\* "duplicate adds are idempotent" (customers/router.py:120): a request fails on a
\* constraint of the database only when it overlapped another.
OnlyRacesFail == failed => raced
===============================================================================
