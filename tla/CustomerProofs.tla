----------------------------- MODULE CustomerProofs -----------------------------
(***************************************************************************)
(* What a customer does besides buying: the account portal, and loyalty,   *)
(* Stripe payments and warranty after an order, for any number of          *)
(* addresses, orders, claims, points, events and requests.  The two        *)
(* components share no name.                                               *)
(*                                                                         *)
(* Portal.  As long as no two requests overlapped, there is one default    *)
(* address, a verified email is proven, and no request fails on a          *)
(* constraint of the database.                                             *)
(*                                                                         *)
(* AfterSales.  A redemption and a review write what an earlier read       *)
(* allowed, so AfterInv says that it is still so: LoyaltyInv because the   *)
(* customer's row is locked, ClaimInv as long as no two warranty requests  *)
(* on the order overlapped.  StripeInv ties the unit an order withholds to *)
(* its reservation row.                                                    *)
(***************************************************************************)
EXTENDS Portal, AfterSales, UnitSums, TLAPS

-------------------------------------------------------------------------------
(* Portal: helpers                                                             *)

\* What a request remembers of a mark is TRUE or FALSE.
LEMMA TruthIsBoolean ==
    ASSUME NEW x, NEW S
    PROVE  \E b \in BOOLEAN : b = (x \in S)
<1>1. CASE x \in S
  <2>1. TRUE = (x \in S) BY <1>1
  <2> QED BY <2>1, Zenon
<1>2. CASE x \notin S
  <2>1. FALSE = (x \in S) BY <1>2
  <2> QED BY <2>1, Zenon
<1> QED BY <1>1, <1>2

\* The address that is promoted is another one, and there is one to promote
\* whenever there is another one.
LEMMA ReplacementIsAnother ==
    ASSUME NEW x
    PROVE  /\ _get_replacement_address(x) \in AddressIds \cup {0}
           /\ _get_replacement_address(x) # 0 => _get_replacement_address(x) \in Addresses \ {x}
           /\ _get_replacement_address(x) = 0 => Addresses \subseteq {x}
<1> DEFINE S == (Addresses \ {x}) \cup {0}
<1>1. S \in SUBSET Nat /\ S # {} /\ (\A y \in S : y <= MaxAddresses) /\ MaxAddresses \in Nat
  BY PortalAssumption DEF Addresses, AddressIds
<1>2. Max(S) \in S /\ \A y \in S : Max(S) >= y
  <2> HIDE DEF S
  <2> QED BY <1>1, GreatestOfNaturals
<1>3. _get_replacement_address(x) = Max(S) BY DEF _get_replacement_address
<1>4. Addresses \subseteq AddressIds /\ \A y \in AddressIds : y \in Nat /\ y > 0
  BY PortalAssumption DEF Addresses, AddressIds
<1>5. ASSUME Max(S) = 0 PROVE Addresses \subseteq {x} BY <1>2, <1>4, <1>5
<1> QED BY <1>2, <1>3, <1>4, <1>5

-------------------------------------------------------------------------------
(* Portal: the inductive invariant                                             *)

AddressRequest ==
    [op : {"add", "set", "unset", "delete"}, pc : {"read", "second"}, id : AddressIds \cup {0},
     is_default : BOOLEAN, clear : SUBSET AddressIds, other : AddressIds \cup {0},
     other_was_default : BOOLEAN]

\* What the only request on the address book has read is still so.
AddressFits(q) ==
    /\ desk = "addresses" /\ q \in AddressRequest
    /\ IF q.op = "add" THEN q.id = 0 /\ (q.is_default \/ Addresses # {})
       ELSE q.id \in Addresses /\ q.is_default = (q.id \in Defaults)
    /\ q.op = "unset" => q.is_default
    /\ q.pc = "second" => /\ q.clear = Cleared(q) /\ q.other = Replacement(q)
                          /\ q.other_was_default = (q.other \in Defaults)
                          /\ q.op = "unset" => q.other # 0

\* So is what the others have read.
WishFits(q) == /\ desk = "wishlist" /\ q.op \in {"wish", "unwish"} /\ q.product \in Products
               /\ q.op = "wish" => q.product \notin wishlist

ProfileFits(q) ==
    /\ desk = "profile" /\ q.op = "profile" /\ q.partner \in Partners /\ q.email \in Emails
    /\ q.seen = profile[q.partner] /\ ~Taken(q.partner, q.email)

LinkFits(q) == /\ desk = "profile" /\ q.op = "link" /\ q.partner \in Partners
               /\ profile[q.partner].email = q.email /\ ~Linked(q.partner, q.email)

Fits(q) == q = Free \/ AddressFits(q) \/ WishFits(q) \/ ProfileFits(q) \/ LinkFits(q)

OneDefault == Addresses = {} \/ \E d \in AddressIds : Defaults = {d}
Proven == \A p \in Partners : profile[p].verified = TRUE => <<p, profile[p].email>> \in identities

Rows == /\ book \in [AddressIds -> {"unused", "plain", "default", "deleted"}]
        /\ profile \in [Partners -> [email : Emails, verified : BOOLEAN]]
        /\ OneDefault /\ Proven

\* One request at a time.
Alone == /\ req = [r \in Requests |-> req[r]]
         /\ \A r, z \in Requests : r # z => req[r] = Free \/ req[z] = Free

PInv == raced \/ (Rows /\ Alone /\ ~failed /\ \A r \in Requests : Fits(req[r]))

LEMMA InitHolds == Init => PInv
<1> SUFFICES ASSUME Init PROVE PInv OBVIOUS
<1>1. Addresses = {} BY DEF Init, Addresses
<1>2. profile \in [Partners -> [email : Emails, verified : BOOLEAN]] BY DEF Init
<1>3. \A p \in Partners : profile[p].verified = FALSE BY DEF Init
<1> QED BY <1>1, <1>2, <1>3 DEF Init, PInv, Rows, OneDefault, Proven, Alone, Fits

-------------------------------------------------------------------------------
(* Portal: a request begins or ends                                            *)

LEMMA BeginKeeps ==
    ASSUME PInv, ~raced', NEW r \in Requests, NEW topic, NEW q, Begin(r, topic, q), Fits(q),
           desk = topic
    PROVE  PInv'
<1>1. /\ ~raced /\ \A z \in Requests : req[z] = Free
      /\ UNCHANGED <<desk, book, wishlist, on_sale, profile, identities, failed>>
  BY DEF Begin, rows
<1>2. Alone' /\ \A z \in Requests : req'[z] = IF z = r THEN q ELSE Free
  BY <1>1 DEF Begin, Alone, PInv
<1>3. Fits(q)'
  BY <1>1 DEF Fits, AddressFits, WishFits, ProfileFits, LinkFits, Addresses, Defaults, Cleared,
              Replacement, _get_replacement_address, Taken, Linked
<1> QED BY <1>1, <1>2, <1>3
        DEF PInv, Rows, OneDefault, Proven, Addresses, Defaults, Fits

\* The only request ends: whatever it wrote, nobody has read it.
LEMMA EndKeeps ==
    ASSUME PInv, ~raced, NEW r \in Requests, req[r] # Free, End(r), Rows', UNCHANGED failed
    PROVE  PInv'
<1>1. \A z \in Requests : req'[z] = Free BY DEF End, PInv, Alone
<1>2. req' = [z \in Requests |-> req'[z]] BY DEF End, PInv, Alone
<1> QED BY <1>1, <1>2 DEF PInv, Alone, Fits

\* A read on the address book leaves the rest of the request as it was.
LEMMA SecondKeeps ==
    ASSUME PInv, ~raced', NEW r \in Requests, Second(r)
    PROVE  PInv'
<1> DEFINE q == req[r]
<1>1. ~raced /\ q # Free /\ UNCHANGED <<rows, failed>> BY DEF Second, End
<1>2. AddressFits(q)
  BY <1>1 DEF Second, PInv, Fits, WishFits, ProfileFits, LinkFits
<1>3. Rows' BY <1>1 DEF PInv, Rows, OneDefault, Proven, Addresses, Defaults, rows
<1>4. CASE q.op = "unset" /\ Replacement(q) = 0
  BY <1>1, <1>3, <1>4, EndKeeps DEF Second
<1>5. CASE ~(q.op = "unset" /\ Replacement(q) = 0)
  <2>0. PICK was \in BOOLEAN : was = (Replacement(q) \in Defaults) BY TruthIsBoolean
  <2>1. PICK s : /\ s = [q EXCEPT !.pc = "second", !.clear = Cleared(q), !.other = Replacement(q),
                                  !.other_was_default = was]
                 /\ req' = [req EXCEPT ![r] = s] /\ UNCHANGED <<desk, raced>>
    BY <1>5, <2>0 DEF Second
  <2>2. q \in AddressRequest BY <1>2 DEF AddressFits
  <2>3. Replacement(q) \in AddressIds \cup {0} BY ReplacementIsAnother DEF Replacement
  <2>4. Cleared(q) \in SUBSET AddressIds BY DEF Cleared, Defaults
  <2>5. /\ s \in AddressRequest /\ s.op = q.op /\ s.id = q.id /\ s.is_default = q.is_default
        /\ s.pc = "second" /\ s.clear = Cleared(q) /\ s.other = Replacement(q)
        /\ s.other_was_default = was
    BY <2>1, <2>2, <2>3, <2>4 DEF AddressRequest
  <2>6. Cleared(s) = Cleared(q) /\ Replacement(s) = Replacement(q)
    BY <2>5 DEF Cleared, Replacement
  <2>7. AddressFits(s) BY <1>2, <1>5, <2>0, <2>5, <2>6 DEF AddressFits
  <2>8. AddressFits(s)'
    BY <1>1, <2>1, <2>7 DEF AddressFits, Addresses, Defaults, Cleared, Replacement,
                            _get_replacement_address, rows
  <2>9. Alone' /\ \A z \in Requests : req'[z] = IF z = r THEN s ELSE Free
    BY <1>1, <2>1 DEF Alone, PInv
  <2> QED BY <1>1, <1>3, <2>1, <2>8, <2>9 DEF PInv, Fits
<1> QED BY <1>4, <1>5

\* A new address takes the mark from the one it read, or leaves it there.
LEMMA AddKeeps ==
    ASSUME PInv, ~raced', NEW r \in Requests, add_address(r)
    PROVE  PInv'
<1> DEFINE q == req[r]
           n == Min(Unused)
<1>1. ~raced /\ q # Free /\ End(r) /\ UNCHANGED <<profile, identities, failed>>
  BY DEF add_address, End, Free
<1>2. AddressFits(q)
  BY <1>1 DEF add_address, PInv, Fits, WishFits, ProfileFits, LinkFits
<1>3. n \in AddressIds /\ book[n] = "unused"
  <2>1. Unused \in SUBSET Nat /\ Unused # {} BY PortalAssumption DEF add_address, Unused, AddressIds
  <2>2. n \in Unused BY <2>1, LeastOfNaturals
  <2> QED BY <2>2 DEF Unused
<1>4. /\ q.id = 0 /\ q.op = "add" /\ q.pc = "second" /\ q.other = 0 /\ q.is_default \in BOOLEAN
      /\ q.clear = IF q.is_default THEN Defaults ELSE {}
      /\ q.is_default \/ Addresses # {}
  <2>1. q.op = "add" /\ q.pc = "second" /\ 0 \notin AddressIds
    BY PortalAssumption DEF add_address, AddressIds
  <2>2. /\ q \in AddressRequest /\ q.id = 0 /\ (q.is_default \/ Addresses # {})
        /\ q.clear = Cleared(q) /\ q.other = Replacement(q)
    BY <1>2, <2>1 DEF AddressFits
  <2>3. q.is_default \in BOOLEAN BY <2>2 DEF AddressRequest
  <2>4. q.other = 0 /\ q.clear = IF q.is_default THEN Defaults \ {0} ELSE {}
    BY <2>1, <2>2 DEF Cleared, Replacement
  <2>5. Defaults \ {0} = Defaults BY <2>1 DEF Defaults
  <2> QED BY <2>1, <2>2, <2>3, <2>4, <2>5
<1>5. \A i \in AddressIds : Saved(q, i) = IF i \in q.clear /\ book[i] = "default" THEN "plain"
                                         ELSE book[i]
  BY <1>4, PortalAssumption DEF Saved, Promoted, AddressIds
<1>6. /\ book' \in [AddressIds -> {"unused", "plain", "default", "deleted"}]
      /\ \A i \in AddressIds :
           book'[i] = IF i = n THEN IF q.is_default THEN "default" ELSE "plain"
                      ELSE IF i \in q.clear /\ book[i] = "default" THEN "plain" ELSE book[i]
  BY <1>1, <1>5 DEF add_address, PInv, Rows
<1>7. OneDefault'
  <2>1. CASE q.is_default
    <3>1. Defaults' = {n} BY <1>3, <1>4, <1>6, <2>1 DEF Defaults
    <3> QED BY <1>3, <3>1 DEF OneDefault
  <2>2. CASE ~q.is_default
    <3>1. PICK d \in AddressIds : Defaults = {d} BY <1>1, <1>4, <2>2 DEF PInv, Rows, OneDefault
    <3>2. Defaults' = {d} BY <1>3, <1>4, <1>6, <2>2, <3>1 DEF Defaults
    <3> QED BY <3>2 DEF OneDefault
  <2> QED BY <2>1, <2>2
<1>8. Rows' BY <1>1, <1>6, <1>7 DEF PInv, Rows, Proven
<1> QED BY <1>1, <1>8, EndKeeps

\* A change of one address: the marks before and after.
LEMMA ChangeKeeps ==
    ASSUME PInv, ~raced', NEW r \in Requests, change_address(r)
    PROVE  PInv'
<1> DEFINE q == req[r]
           needed == Promoted(q) \cup (IF q.op = "delete" THEN {} ELSE {q.id})
<1>1. /\ ~raced /\ q # Free /\ End(r)
      /\ q.op \in {"set", "unset", "delete"} /\ q.pc = "second"
  BY DEF change_address, End, Fail, Free
<1>2. AddressFits(q)
  BY <1>1 DEF PInv, Fits, WishFits, ProfileFits, LinkFits
<1>3. /\ q \in AddressRequest /\ q.id \in Addresses /\ q.is_default = (q.id \in Defaults)
      /\ q.clear = Cleared(q) /\ q.other = Replacement(q)
      /\ q.other_was_default = (q.other \in Defaults)
      /\ q.op = "unset" => q.is_default /\ q.other # 0
  BY <1>1, <1>2 DEF AddressFits
<1>4. PICK d \in AddressIds : Defaults = {d} BY <1>1, <1>3 DEF PInv, Rows, OneDefault
<1>5. d \in Addresses /\ Addresses \subseteq AddressIds /\ 0 \notin AddressIds /\ d # 0
  BY <1>4, PortalAssumption DEF Addresses, Defaults, AddressIds
<1>6. q.other # 0 => q.other \in Addresses \ {q.id}
  BY <1>3, ReplacementIsAnother DEF Replacement
<1>7. Promoted(q) \subseteq Addresses BY <1>6 DEF Promoted
<1>8. /\ book' = [i \in AddressIds |-> Saved(q, i)]
      /\ UNCHANGED <<profile, identities, failed>>
  BY <1>3, <1>7 DEF change_address
<1>9. \A i \in AddressIds : book[i] \in {"unused", "plain", "default", "deleted"}
  BY <1>1 DEF PInv, Rows
<1>10. OneDefault' /\ \A i \in AddressIds : book'[i] \in {"unused", "plain", "default", "deleted"}
  <2>1. CASE q.op = "set"
    <3>1. q.other = 0 /\ q.clear = Defaults \ {q.id} BY <1>3, <2>1 DEF Replacement, Cleared
    <3>2. \A i \in AddressIds : Saved(q, i) = IF i = q.id THEN "default"
                                             ELSE IF book[i] = "default" THEN "plain" ELSE book[i]
      BY <1>3, <2>1, <3>1 DEF Saved, Promoted, Defaults
    <3>3. Defaults' = {q.id} BY <1>3, <1>5, <1>8, <3>2 DEF Defaults
    <3> QED BY <1>3, <1>5, <1>8, <1>9, <3>2, <3>3 DEF OneDefault
  <2>2. CASE q.op = "unset"
    <3>1. q.id = d /\ q.other \in Addresses \ {d} /\ q.clear = {}
      BY <1>3, <1>4, <1>6, <2>2 DEF Cleared
    <3>2. Promoted(q) = {q.other} BY <1>3, <1>4, <3>1, <2>2 DEF Promoted
    <3>3. \A i \in AddressIds : Saved(q, i) = IF i = q.other THEN "default"
                                             ELSE IF i = d THEN "plain" ELSE book[i]
      BY <2>2, <3>1, <3>2 DEF Saved
    <3>4. Defaults' = {q.other} BY <1>4, <1>5, <1>8, <3>1, <3>3 DEF Defaults
    <3> QED BY <1>5, <1>8, <1>9, <3>1, <3>3, <3>4 DEF OneDefault
  <2>3. CASE q.op = "delete" /\ q.other # 0
    <3>1. q.id = d /\ q.other \in Addresses \ {d} /\ q.clear = {}
      BY <1>3, <1>4, <1>6, <2>3 DEF Cleared, Replacement
    <3>2. Promoted(q) = {q.other} BY <1>3, <1>4, <3>1, <2>3 DEF Promoted
    <3>3. \A i \in AddressIds : Saved(q, i) = IF i = q.other THEN "default"
                                             ELSE IF i = d THEN "deleted" ELSE book[i]
      BY <2>3, <3>1, <3>2 DEF Saved
    <3>4. Defaults' = {q.other} BY <1>4, <1>5, <1>8, <3>1, <3>3 DEF Defaults
    <3> QED BY <1>5, <1>8, <1>9, <3>1, <3>3, <3>4 DEF OneDefault
  <2>4. CASE q.op = "delete" /\ q.other = 0
    <3>1. Promoted(q) = {} /\ q.clear = {} BY <1>3, <2>4 DEF Promoted, Cleared
    <3>2. \A i \in AddressIds : Saved(q, i) = IF i = q.id THEN "deleted" ELSE book[i]
      BY <2>4, <3>1 DEF Saved
    <3>3. CASE q.is_default
      <4>1. Addresses \subseteq {q.id}
        BY <1>3, <2>4, <3>3, ReplacementIsAnother DEF Replacement
      <4>2. Addresses' = {} BY <1>8, <3>2, <4>1 DEF Addresses
      <4> QED BY <1>8, <1>9, <3>2, <4>2 DEF OneDefault
    <3>4. CASE ~q.is_default
      <4>1. Defaults' = {d} BY <1>3, <1>4, <1>8, <3>2, <3>4 DEF Defaults
      <4> QED BY <1>8, <1>9, <3>2, <4>1 DEF OneDefault
    <3> QED BY <3>3, <3>4
  <2> QED BY <1>1, <2>1, <2>2, <2>3, <2>4
<1>11. book' \in [AddressIds -> {"unused", "plain", "default", "deleted"}] BY <1>8, <1>10
<1>12. Rows' BY <1>1, <1>8, <1>10, <1>11 DEF PInv, Rows, Proven
<1> QED BY <1>1, <1>8, <1>12, EndKeeps

\* A change of the profile or a sign-in that links an identity.
LEMMA ProfileKeeps ==
    ASSUME PInv, ~raced', NEW r \in Requests, update_profile(r) \/ _get_or_link_oauth_partner(r)
    PROVE  PInv'
<1> DEFINE q == req[r]
<1>1. /\ ~raced /\ q # Free /\ End(r) /\ q.op \in {"profile", "link"}
  BY DEF update_profile, _get_or_link_oauth_partner, End, Fail, Free
<1>2. CASE update_profile(r)
  <2>1. ProfileFits(q)
    BY <1>1, <1>2 DEF update_profile, PInv, Fits, AddressFits, AddressRequest, WishFits, LinkFits
  <2>2. /\ profile' = [profile EXCEPT ![q.partner] = NewProfile(q, @)]
        /\ UNCHANGED <<book, identities, failed>>
    BY <1>2, <2>1 DEF update_profile, ProfileFits
  <2>3. /\ q.partner \in Partners /\ q.email \in Emails /\ q.seen = profile[q.partner]
        /\ q.seen \in [email : Emails, verified : BOOLEAN]
    BY <1>1, <2>1 DEF ProfileFits, PInv, Rows
  <2>4. /\ NewProfile(q, profile[q.partner]) \in [email : Emails, verified : BOOLEAN]
        /\ \/ NewProfile(q, profile[q.partner]) = profile[q.partner]
           \/ NewProfile(q, profile[q.partner]).verified = FALSE
    BY <2>3 DEF NewProfile
  <2>5. Rows'
    BY <1>1, <2>2, <2>3, <2>4 DEF PInv, Rows, OneDefault, Proven, Addresses, Defaults
  <2> QED BY <1>1, <2>2, <2>5, EndKeeps
<1>3. CASE _get_or_link_oauth_partner(r)
  <2>1. LinkFits(q)
    BY <1>1, <1>3
       DEF _get_or_link_oauth_partner, PInv, Fits, AddressFits, AddressRequest, WishFits, ProfileFits
  <2>2. /\ profile' = [profile EXCEPT ![q.partner].verified = TRUE]
        /\ identities' = identities \cup {<<q.partner, q.email>>}
        /\ UNCHANGED <<book, failed>>
    BY <1>3, <2>1 DEF _get_or_link_oauth_partner, LinkFits
  <2>3. q.partner \in Partners /\ profile[q.partner].email = q.email BY <2>1 DEF LinkFits
  <2>4. Rows'
    BY <1>1, <2>2, <2>3 DEF PInv, Rows, OneDefault, Proven, Addresses, Defaults
  <2> QED BY <1>1, <2>2, <2>4, EndKeeps
<1> QED BY <1>2, <1>3

\* A change of the wishlist, and a request that gives up.
LEMMA WishOrAbortKeeps ==
    ASSUME PInv, ~raced', NEW r \in Requests,
           add_wishlist_item(r) \/ remove_wishlist_item(r) \/ Abort(r)
    PROVE  PInv'
<1>1. ~raced /\ req[r] # Free /\ End(r)
  BY DEF add_wishlist_item, remove_wishlist_item, Abort, End, Fail, Free
<1>2. UNCHANGED <<book, profile, identities, failed>>
  BY <1>1 DEF add_wishlist_item, remove_wishlist_item, Abort, rows, PInv, Fits, AddressFits,
              AddressRequest, WishFits, ProfileFits, LinkFits
<1>3. Rows' BY <1>1, <1>2 DEF PInv, Rows, OneDefault, Proven, Addresses, Defaults
<1> QED BY <1>1, <1>2, <1>3, EndKeeps

\* Neither a stutter nor the catalogue changes anything that a request relies on.
LEMMA UnreadKeeps ==
    ASSUME PInv, UNCHANGED <<desk, book, wishlist, profile, identities, req, raced, failed>>
    PROVE  PInv'
<1>1. \A q : Fits(q) => Fits(q)'
  BY DEF Fits, AddressFits, WishFits, ProfileFits, LinkFits, Addresses, Defaults, Cleared,
         Replacement, _get_replacement_address, Taken, Linked
<1> QED BY <1>1 DEF PInv, Rows, OneDefault, Proven, Alone, Addresses, Defaults

\* The first query of each request.
LEMMA FirstReadKeeps ==
    ASSUME PInv, ~raced', NEW r \in Requests,
           \/ \E is_default \in BOOLEAN : BeginAddAddress(r, is_default)
           \/ \E i \in AddressIds : \/ BeginSetDefault(r, i) \/ BeginUnsetDefault(r, i)
                                    \/ BeginDeleteAddress(r, i)
           \/ \E p \in Products : BeginAddWish(r, p) \/ BeginRemoveWish(r, p)
           \/ \E p \in Partners, e \in Emails : BeginUpdateProfile(r, p, e) \/ BeginLink(r, p, e)
    PROVE  PInv'
<1>1. ASSUME NEW topic, NEW q, Begin(r, topic, q), desk = topic, Fits(q) PROVE PInv'
  BY <1>1, BeginKeeps
<1>2. ASSUME NEW op \in {"add", "set", "unset", "delete"}, NEW i \in AddressIds \cup {0},
             NEW b \in BOOLEAN
      PROVE  /\ Work(op, i, b) \in AddressRequest /\ Work(op, i, b).pc = "read"
             /\ Work(op, i, b).op = op /\ Work(op, i, b).id = i /\ Work(op, i, b).is_default = b
  BY DEF Work, AddressRequest
<1>3. ASSUME NEW is_default \in BOOLEAN, BeginAddAddress(r, is_default) PROVE PInv'
  <2>1. PICK b \in BOOLEAN : /\ b = (is_default \/ Addresses = {})
                             /\ Begin(r, "addresses", Work("add", 0, b))
    BY <1>3 DEF BeginAddAddress
  <2> DEFINE q == Work("add", 0, b)
  <2>2. AddressFits(q)
    <3>1. desk = "addresses" BY <2>1 DEF Begin
    <3>2. q \in AddressRequest /\ q.pc = "read" /\ q.op = "add" /\ q.id = 0 /\ q.is_default = b
      BY <1>2
    <3> HIDE DEF q
    <3> QED BY <2>1, <3>1, <3>2 DEF AddressFits
  <2> QED BY <1>1, <2>1, <2>2 DEF Fits, Begin
<1>4. ASSUME NEW i \in AddressIds,
             BeginSetDefault(r, i) \/ BeginUnsetDefault(r, i) \/ BeginDeleteAddress(r, i)
      PROVE  PInv'
  <2>1. PICK b \in BOOLEAN : b = (i \in Defaults) BY TruthIsBoolean
  <2>2. PICK op \in {"set", "unset", "delete"} :
          /\ i \in Addresses /\ (op = "unset" => b) /\ Begin(r, "addresses", Work(op, i, b))
    <3>1. CASE BeginSetDefault(r, i) BY <2>1, <3>1 DEF BeginSetDefault
    <3>2. CASE BeginDeleteAddress(r, i) BY <2>1, <3>2 DEF BeginDeleteAddress
    <3>3. CASE BeginUnsetDefault(r, i)
      BY <2>1, <3>3 DEF BeginUnsetDefault, Addresses, Defaults
    <3> QED BY <1>4, <3>1, <3>2, <3>3
  <2> DEFINE q == Work(op, i, b)
  <2>3. AddressFits(q)
    <3>1. desk = "addresses" BY <2>2 DEF Begin
    <3>2. q \in AddressRequest /\ q.pc = "read" /\ q.op = op /\ q.id = i /\ q.is_default = b
      BY <1>2
    <3> HIDE DEF q
    <3> QED BY <2>1, <2>2, <3>1, <3>2 DEF AddressFits
  <2> QED BY <1>1, <2>2, <2>3 DEF Fits, Begin
<1>5. ASSUME NEW p \in Products, BeginAddWish(r, p) \/ BeginRemoveWish(r, p) PROVE PInv'
  <2>1. PICK q : /\ Begin(r, "wishlist", q) /\ q.op \in {"wish", "unwish"} /\ q.product \in Products
                 /\ (q.op = "wish" => q.product \notin wishlist)
    BY <1>5 DEF BeginAddWish, BeginRemoveWish
  <2> QED BY <1>1, <2>1 DEF Begin, Fits, WishFits
<1>6. ASSUME NEW p \in Partners, NEW e \in Emails, BeginUpdateProfile(r, p, e) \/ BeginLink(r, p, e)
      PROVE  PInv'
  <2>1. CASE BeginUpdateProfile(r, p, e)
    <3> DEFINE q == [op |-> "profile", partner |-> p, email |-> e, seen |-> profile[p]]
    <3>1. Begin(r, "profile", q) /\ desk = "profile" /\ ProfileFits(q)
      BY <2>1 DEF BeginUpdateProfile, Begin, ProfileFits
    <3> QED BY <1>1, <3>1 DEF Fits
  <2>2. CASE BeginLink(r, p, e)
    <3> DEFINE q == [op |-> "link", partner |-> p, email |-> e]
    <3>1. Begin(r, "profile", q) /\ desk = "profile" /\ LinkFits(q)
      BY <2>2 DEF BeginLink, Begin, LinkFits
    <3> QED BY <1>1, <3>1 DEF Fits
  <2> QED BY <1>6, <2>1, <2>2
<1> QED BY <1>3, <1>4, <1>5, <1>6

-------------------------------------------------------------------------------
(* Portal: the theorems                                                        *)

LEMMA NextKeeps ==
    ASSUME PInv, [Next]_vars
    PROVE  PInv'
<1>1. CASE raced'  BY <1>1 DEF PInv
<1>2. CASE ~raced' /\ Next
  <2>1. PICK r \in Requests :
          \/ \E is_default \in BOOLEAN : BeginAddAddress(r, is_default)
          \/ \E i \in AddressIds : \/ BeginSetDefault(r, i) \/ BeginUnsetDefault(r, i)
                                   \/ BeginDeleteAddress(r, i)
          \/ Second(r) \/ add_address(r) \/ change_address(r)
          \/ \E p \in Products : BeginAddWish(r, p) \/ BeginRemoveWish(r, p)
          \/ add_wishlist_item(r) \/ remove_wishlist_item(r)
          \/ \E p \in Products : SetActive(p)
          \/ \E p \in Partners, e \in Emails : BeginUpdateProfile(r, p, e) \/ BeginLink(r, p, e)
          \/ update_profile(r) \/ _get_or_link_oauth_partner(r)
          \/ Abort(r)
    BY <1>2 DEF Next
  <2>2. ASSUME NEW p \in Products, SetActive(p) PROVE PInv'
    BY <2>2, UnreadKeeps DEF SetActive
  <2> QED BY <1>2, <2>1, <2>2, SecondKeeps, AddKeeps, ChangeKeeps, ProfileKeeps, WishOrAbortKeeps,
             FirstReadKeeps
<1>3. CASE UNCHANGED vars
  <2>1. UNCHANGED <<desk, book, wishlist, profile, identities, req, raced, failed>>
    BY <1>3 DEF vars
  <2> QED BY <2>1, UnreadKeeps
<1> QED BY <1>1, <1>2, <1>3

\* As long as no two requests overlapped, what the one in flight has read is
\* still so when it writes (customers/service.py: nothing is locked).
THEOREM PortalInvariant == Spec => []PInv
<1> QED BY InitHolds, NextKeeps, PTL DEF Spec

\* Without overlap there is one default address while there is any address,
\* through any sequence of additions, changes and deletions
\* (customers/service.py:110).
THEOREM OneDefaultRemains == Spec => []DefaultRemains
<1>1. PInv => DefaultRemains
  <2>1. \A d : Cardinality({d}) = 1 BY FS_Singleton
  <2> QED BY <2>1 DEF PInv, Rows, OneDefault, DefaultRemains
<1> QED BY <1>1, PortalInvariant, PTL

\* Without overlap the verified mark goes with an identity that a provider
\* vouched for (customers/service.py:49, auth/router.py).
THEOREM VerifiedEmailsAreProven == Spec => []VerifiedEmailIsProven
<1>1. PInv => VerifiedEmailIsProven
  BY DEF PInv, Rows, Proven, VerifiedEmailIsProven
<1> QED BY <1>1, PortalInvariant, PTL

\* A request fails on a constraint of the database only when it overlapped
\* another (customers/router.py:120).
THEOREM FailuresAreRaces == Spec => []OnlyRacesFail
<1>1. PInv => OnlyRacesFail BY DEF PInv, OnlyRacesFail
<1> QED BY <1>1, PortalInvariant, PTL

-------------------------------------------------------------------------------
(* AfterSales: types                                                           *)

SaleOrder ==
    [state       : {"draft", "sent", "sale", "done", "cancel"},
     payment     : {"pending", "paid", "failed", "refund_requested", "refunded"},
     subtotal    : Nat,
     lifecycle   : {"payment_pending", "confirmed", "delivered", "payment_failed", "cancelled"},
     released    : BOOLEAN,
     reservation : {"reserved", "released"}]

Entry == [delta : Int, type : {"purchase_earn", "order_redemption"}, order : Orders \cup {"none"}]

Statuses == {"pending_review", "approved", "rejected", "completed"}
Claim    == [order : Orders, status : Statuses]

RedeemRequest == {r \in [op : {"redeem"}, order : Web, points : 1..Price, subtotal : Nat] :
                    r.points <= r.subtotal}
ClaimRequest  == [op : {"claim"}, order : Orders]
ReviewRequest == [op : {"review"}, order : Orders, claim : ClaimIds, target : Statuses]

AfterTypes ==
    /\ Orders \in Placed
    /\ orders \in [Orders -> SaleOrder]
    /\ ledger \in Seq(Entry) /\ Len(ledger) \in 1..MaxLedger
    /\ stock \in Nat /\ sold \in Nat
    /\ claims \in [ClaimIds -> Claim \cup {NoClaim}]
    /\ sess \in [Sessions -> RedeemRequest \cup ClaimRequest \cup ReviewRequest \cup {NoRequest}]

\* The kinds of request are told apart by what they do.
LEMMA RequestKinds ==
    ASSUME AfterTypes, NEW s \in Sessions
    PROVE  /\ sess[s].op = "redeem" => sess[s] \in RedeemRequest
           /\ sess[s].op = "claim"  => sess[s] \in ClaimRequest
           /\ sess[s].op = "review" => sess[s] \in ReviewRequest
<1>1. sess[s] \in RedeemRequest \cup ClaimRequest \cup ReviewRequest \cup {NoRequest}
  BY DEF AfterTypes
<1> QED BY <1>1 DEF RedeemRequest, ClaimRequest, ReviewRequest, NoRequest

\* A claim in the table is one that was submitted.
LEMMA SubmittedClaims ==
    ASSUME AfterTypes, NEW i \in ClaimIds
    PROVE  /\ claims[i] # NoClaim => claims[i] \in Claim
           /\ claims[i].status # "none" => claims[i] \in Claim
           /\ claims[i].status \in Statuses \cup {"none"}
  BY DEF AfterTypes, Claim, NoClaim, Statuses

LEMMA AfterTypesInit == AfterSalesInit => AfterTypes
<1> SUFFICES ASSUME AfterSalesInit PROVE AfterTypes OBVIOUS
<1>1. PICK placed \in Placed : orders = [o \in placed |->
         [state |-> "draft", payment |-> "pending", subtotal |-> Price,
          lifecycle |-> "payment_pending", released |-> FALSE, reservation |-> "reserved"]]
  BY DEF AfterSalesInit
<1>2. Orders \in Placed /\ orders \in [Orders -> SaleOrder]
  BY <1>1, AfterSalesAssumption DEF Orders, SaleOrder
<1>3. ledger \in Seq(Entry) /\ Len(ledger) \in 1..MaxLedger
  <2> DEFINE x == [delta |-> OpeningPoints, type |-> "purchase_earn", order |-> "none"]
  <2>1. x \in Entry BY AfterSalesAssumption DEF Entry
  <2>2. ledger = <<x>> BY DEF AfterSalesInit
  <2> HIDE DEF x
  <2> QED BY <2>1, <2>2, AfterSalesAssumption
<1>4. claims \in [ClaimIds -> Claim \cup {NoClaim}] BY DEF AfterSalesInit
<1>5. sess \in [Sessions -> RedeemRequest \cup ClaimRequest \cup ReviewRequest \cup {NoRequest}]
  BY DEF AfterSalesInit
<1>6. stock \in Nat /\ sold \in Nat BY AfterSalesAssumption DEF AfterSalesInit
<1> QED BY <1>2, <1>3, <1>4, <1>5, <1>6 DEF AfterTypes

-------------------------------------------------------------------------------
(* AfterSales: the kinds of step                                               *)

LoyaltyStep ==
    \/ \E s \in Sessions, o \in Orders, points \in 1..Price : BeginRedeem(s, o, points)
    \/ \E s \in Sessions : redeem_for_order(s)
    \/ \E points \in 1..Price : redeem_points(points)
    \/ \E o \in Orders : earn_points_for_order(o)

WarrantyStep ==
    \/ \E s \in Sessions, o \in Orders : BeginClaim(s, o)
    \/ \E s \in Sessions, i \in ClaimIds, target \in {"approved", "rejected", "completed"} :
          BeginReview(s, i, target)
    \/ \E s \in Sessions : submit_claim(s) \/ review_claim(s)

PaymentStep == \E o \in Orders : Complete(o) \/ PaymobSucceeded(o) \/ PaymobFailed(o)

LEMMA StepKinds ==
    ASSUME [AfterSalesNext]_afterSalesVars
    PROVE  \/ LoyaltyStep \/ WarrantyStep \/ PaymentStep \/ Sell \/ UNCHANGED afterSalesVars
           \/ \E o \in Orders : cancel(o)
           \/ \E e \in Events : process_stripe_event(e)
  BY DEF AfterSalesNext, LoyaltyStep, WarrantyStep, PaymentStep

-------------------------------------------------------------------------------
(* AfterSales: every step keeps the types                                      *)

\* What a step does to the orders.
OrdersKept == Orders' = Orders /\ orders' \in [Orders -> SaleOrder]

\* Changing one order to an order.
LEMMA OrderChanged ==
    ASSUME AfterTypes, NEW o \in Orders, NEW q \in SaleOrder, orders' = [orders EXCEPT ![o] = q]
    PROVE  OrdersKept
  BY DEF AfterTypes, OrdersKept, Orders

\* The requests stay of their kinds when one of them is replaced.
SessionsKept == sess' \in [Sessions -> RedeemRequest \cup ClaimRequest \cup ReviewRequest
                                         \cup {NoRequest}]

LEMMA RequestPut ==
    ASSUME AfterTypes, NEW s \in Sessions,
           NEW r \in RedeemRequest \cup ClaimRequest \cup ReviewRequest \cup {NoRequest},
           sess' = [sess EXCEPT ![s] = r]
    PROVE  SessionsKept
  BY DEF AfterTypes, SessionsKept

LedgerKept == ledger' \in Seq(Entry) /\ Len(ledger') \in 1..MaxLedger

LEMMA EntryAppended ==
    ASSUME AfterTypes, NEW delta \in Int, NEW o \in Orders \cup {"none"},
           NEW type \in {"purchase_earn", "order_redemption"}, Append1(delta, type, o)
    PROVE  LedgerKept
<1>1. [delta |-> delta, type |-> type, order |-> o] \in Entry BY DEF Entry
<1>2. ledger \in Seq(Entry) /\ Len(ledger) \in 1..MaxLedger /\ MaxLedger \in Nat
  BY AfterSalesAssumption DEF AfterTypes
<1>3. Len(ledger) < MaxLedger
      /\ ledger' = Append(ledger, [delta |-> delta, type |-> type, order |-> o])
  BY DEF Append1
<1> HIDE DEF Entry
<1>4. ledger' \in Seq(Entry) /\ Len(ledger') = Len(ledger) + 1 BY <1>1, <1>2, <1>3
<1> QED BY <1>2, <1>3, <1>4 DEF LedgerKept

\* Types survive when each part does.
LEMMA TypesFromParts ==
    ASSUME AfterTypes, OrdersKept, SessionsKept, LedgerKept, stock' \in Nat, sold' \in Nat,
           claims' \in [ClaimIds -> Claim \cup {NoClaim}]
    PROVE  AfterTypes'
<1>1. Orders' = Orders BY DEF OrdersKept
<1>2. Entry' = Entry BY <1>1 DEF Entry
<1>3. Claim' = Claim BY <1>1 DEF Claim
<1>4. RedeemRequest' = RedeemRequest /\ ClaimRequest' = ClaimRequest
      /\ ReviewRequest' = ReviewRequest
  BY <1>1 DEF RedeemRequest, ClaimRequest, ReviewRequest, Web
<1> QED
  BY <1>1, <1>2, <1>3, <1>4 DEF AfterTypes, OrdersKept, SessionsKept, LedgerKept

\* What a step leaves alone keeps its types.
LEMMA PartsKept ==
    ASSUME AfterTypes
    PROVE  /\ orders' = orders => OrdersKept
           /\ sess' = sess => SessionsKept
           /\ ledger' = ledger => LedgerKept
  BY DEF AfterTypes, OrdersKept, SessionsKept, LedgerKept, Orders

LEMMA LoyaltyTypes == ASSUME AfterTypes, LoyaltyStep PROVE AfterTypes'
<1>1. ASSUME NEW s \in Sessions, NEW o \in Orders, NEW points \in 1..Price,
             BeginRedeem(s, o, points)
      PROVE  AfterTypes'
  <2>1. orders[o] \in SaleOrder /\ o \in Web
    BY <1>1 DEF AfterTypes, BeginRedeem, Refused, Redeemable
  <2>4. points <= orders[o].subtotal
    BY <1>1, <2>1, AfterSalesAssumption DEF BeginRedeem, Refused, SaleOrder
  <2>2. [op |-> "redeem", order |-> o, points |-> points, subtotal |-> orders[o].subtotal]
          \in RedeemRequest
    BY <2>1, <2>4 DEF RedeemRequest, SaleOrder
  <2>3. SessionsKept BY <1>1, <2>2, RequestPut DEF BeginRedeem
  <2> QED BY <1>1, <2>3, PartsKept, TypesFromParts DEF BeginRedeem, AfterTypes, stripeVars
<1>2. ASSUME NEW s \in Sessions, redeem_for_order(s) PROVE AfterTypes'
  <2> DEFINE r == sess[s]
  <2>1. r \in RedeemRequest BY <1>2, RequestKinds DEF redeem_for_order
  <2>2. /\ r.order \in Web /\ r.points \in 1..Price /\ r.subtotal \in Nat
    BY <2>1 DEF RedeemRequest
  <2>3. r.subtotal - r.points \in Nat BY <2>1, AfterSalesAssumption DEF RedeemRequest
  <2>4. OrdersKept
    <3> DEFINE q == [orders[r.order] EXCEPT !.subtotal = r.subtotal - r.points]
    <3>1. r.order \in Orders /\ orders[r.order] \in SaleOrder BY <2>2 DEF AfterTypes, Web
    <3>2. q \in SaleOrder BY <2>3, <3>1 DEF SaleOrder
    <3>3. orders' = [orders EXCEPT ![r.order] = q] BY <1>2 DEF redeem_for_order
    <3> HIDE DEF q, r
    <3> QED BY <3>1, <3>2, <3>3, OrderChanged
  <2>5. LedgerKept
    <3>1. Append1(-r.points, "order_redemption", r.order) BY <1>2 DEF redeem_for_order
    <3>2. -r.points \in Int /\ r.order \in Orders BY <2>2, AfterSalesAssumption DEF Web
    <3> HIDE DEF r
    <3> QED BY <3>1, <3>2, EntryAppended
  <2>6. SessionsKept BY <1>2, RequestPut DEF redeem_for_order, Commit
  <2>7. UNCHANGED <<claims, stock, sold>> BY <1>2 DEF redeem_for_order, stripeVars
  <2> QED BY <2>4, <2>5, <2>6, <2>7, TypesFromParts DEF AfterTypes
<1>3. CASE \/ \E points \in 1..Price : redeem_points(points)
           \/ \E o \in Orders : earn_points_for_order(o)
  <2>1. LedgerKept
    <3>1. \A points \in 1..Price : -points \in Int BY AfterSalesAssumption
    <3> QED BY <1>3, <3>1, EntryAppended DEF redeem_points, earn_points_for_order
  <2>2. UNCHANGED <<orders, claims, sess, stock, sold>>
    BY <1>3 DEF redeem_points, earn_points_for_order, stripeVars
  <2> QED BY <2>1, <2>2, PartsKept, TypesFromParts DEF AfterTypes
<1> QED BY <1>1, <1>2, <1>3 DEF LoyaltyStep

\* An order with another payment and state is an order.
LEMMA OrderCancelled ==
    ASSUME NEW q \in SaleOrder,
           NEW p \in {"pending", "paid", "failed", "refund_requested", "refunded"}
    PROVE  [q EXCEPT !.state = "cancel", !.lifecycle = "cancelled", !.released = TRUE,
                     !.reservation = "released", !.payment = p] \in SaleOrder
  BY DEF SaleOrder

LEMMA OrderPaid ==
    ASSUME NEW q \in SaleOrder, NEW st \in {"draft", "sent", "sale", "done", "cancel"}
    PROVE  [q EXCEPT !.payment = "paid", !.released = FALSE, !.state = st] \in SaleOrder
  BY DEF SaleOrder

\* The steps that change an order and nothing else of those named here.
LEMMA OrderTypes ==
    ASSUME AfterTypes, NEW o \in Orders,
           cancel(o) \/ Complete(o) \/ PaymobSucceeded(o) \/ PaymobFailed(o)
    PROVE  AfterTypes'
<1> DEFINE q == orders[o]
<1>0. q \in SaleOrder BY DEF AfterTypes
<1>1. stock' \in Nat BY DEF AfterTypes, cancel, Complete, PaymobSucceeded, PaymobFailed, stripeVars
<1>2. OrdersKept
  <2>1. CASE cancel(o)
    <3> DEFINE p == IF q.payment = "paid" THEN "refund_requested" ELSE q.payment
               n == [q EXCEPT !.state = "cancel", !.lifecycle = "cancelled", !.released = TRUE,
                              !.reservation = "released", !.payment = p]
    <3>0. p \in {"pending", "paid", "failed", "refund_requested", "refunded"}
      BY <1>0 DEF SaleOrder
    <3>1. n \in SaleOrder
      <4> HIDE DEF p, q
      <4> QED BY <1>0, <3>0, OrderCancelled
    <3>2. orders' = [orders EXCEPT ![o] = n] BY <2>1 DEF cancel
    <3> HIDE DEF n, q
    <3> QED BY <3>1, <3>2, OrderChanged
  <2>2. CASE Complete(o)
    <3> DEFINE n == [q EXCEPT !.state = "done", !.lifecycle = "delivered"]
    <3>1. n \in SaleOrder BY <1>0 DEF SaleOrder
    <3>2. orders' = [orders EXCEPT ![o] = n] BY <2>2 DEF Complete
    <3> HIDE DEF n, q
    <3> QED BY <3>1, <3>2, OrderChanged
  <2>3. CASE PaymobSucceeded(o)
    <3> DEFINE n == IF q.lifecycle = "cancelled" THEN [q EXCEPT !.payment = "refund_requested"]
                    ELSE [q EXCEPT !.payment = "paid", !.state = "sale", !.lifecycle = "confirmed"]
    <3>1. n \in SaleOrder BY <1>0 DEF SaleOrder
    <3>2. orders' = [orders EXCEPT ![o] = n] BY <2>3 DEF PaymobSucceeded
    <3> HIDE DEF n, q
    <3> QED BY <3>1, <3>2, OrderChanged
  <2>4. CASE PaymobFailed(o)
    <3> DEFINE n == [q EXCEPT !.payment = "failed", !.state = "cancel",
                              !.lifecycle = "payment_failed"]
    <3>1. n \in SaleOrder BY <1>0 DEF SaleOrder
    <3>2. orders' = [orders EXCEPT ![o] = n] BY <2>4 DEF PaymobFailed
    <3> HIDE DEF n, q
    <3> QED BY <3>1, <3>2, OrderChanged
  <2> QED BY <2>1, <2>2, <2>3, <2>4
<1>3. UNCHANGED <<ledger, claims, sess, sold>>
  BY DEF cancel, Complete, PaymobSucceeded, PaymobFailed, stripeVars
<1> QED BY <1>1, <1>2, <1>3, PartsKept, TypesFromParts DEF AfterTypes

\* What a Stripe event does to its order and to the shelf.
Pays(o) ==
    /\ orders[o].payment \notin {"refunded", "paid"}
    /\ orders[o].released => stock >= 1
    /\ stock' = IF orders[o].released THEN stock - 1 ELSE stock
    /\ orders' = [orders EXCEPT ![o] =
         [@ EXCEPT !.payment = "paid", !.released = FALSE,
                   !.state = IF orders[o].state \in {"draft", "sent", "cancel"} THEN "sale"
                             ELSE orders[o].state]]

Fails(o) ==
    /\ orders[o].payment \notin {"paid", "refunded", "failed"} /\ ~orders[o].released
    /\ stock' = stock + 1
    /\ orders' = [orders EXCEPT ![o] = [@ EXCEPT !.payment = "failed",
                                                 !.state = "cancel", !.released = TRUE]]

LEMMA EventEffect ==
    ASSUME NEW e \in Events, process_stripe_event(e)
    PROVE  /\ e.order \in Stripe
           /\ UNCHANGED <<ledger, claims, sess, sold, contested>>
           /\ \/ UNCHANGED <<orders, stock>>
              \/ Pays(e.order)
              \/ Fails(e.order)
<1>1. e.order \in Stripe
  BY AfterSalesAssumption DEF process_stripe_event, _find_order_for_event, Stripe
<1>2. UNCHANGED <<ledger, claims, sess, sold, contested>> BY DEF process_stripe_event
<1>3. CASE e.type = "failure"
  BY <1>1, <1>2, <1>3
  DEF process_stripe_event, _mark_payment_failed, _release_order_stock, Fails
<1>4. CASE e.type # "failure"
  <2>1. \/ UNCHANGED <<orders, collected, stock>>
        \/ _mark_payment_succeeded(e)
    BY <1>4 DEF process_stripe_event
  <2> QED BY <1>1, <1>2, <2>1 DEF _mark_payment_succeeded, Pays
<1> QED BY <1>3, <1>4

LEMMA StripeTypes ==
    ASSUME AfterTypes, Sell \/ \E e \in Events : process_stripe_event(e)
    PROVE  AfterTypes'
<1>1. CASE Sell
  <2>1. stock' \in Nat /\ sold' \in Nat BY <1>1 DEF Sell, AfterTypes
  <2>2. UNCHANGED <<orders, ledger, claims, sess>> BY <1>1 DEF Sell
  <2> QED BY <2>1, <2>2, PartsKept, TypesFromParts DEF AfterTypes
<1>2. ASSUME NEW e \in Events, process_stripe_event(e) PROVE AfterTypes'
  <2> DEFINE o == e.order
             q == orders[o]
  <2>1. o \in Orders /\ q \in SaleOrder BY <1>2, EventEffect DEF Stripe, AfterTypes
  <2>2. UNCHANGED <<ledger, claims, sess, sold>> BY <1>2, EventEffect
  <2>3. CASE UNCHANGED <<orders, stock>>
    BY <2>2, <2>3, PartsKept, TypesFromParts DEF AfterTypes
  <2>4. CASE Pays(o)
    <3> DEFINE st == IF q.state \in {"draft", "sent", "cancel"} THEN "sale" ELSE q.state
               n == [q EXCEPT !.payment = "paid", !.released = FALSE, !.state = st]
    <3>0. st \in {"draft", "sent", "sale", "done", "cancel"} BY <2>1 DEF SaleOrder
    <3>1. n \in SaleOrder
      <4> HIDE DEF st, q
      <4> QED BY <2>1, <3>0, OrderPaid
    <3>2. orders' = [orders EXCEPT ![o] = n] BY <2>4 DEF Pays
    <3>3. stock' \in Nat BY <2>4 DEF Pays, AfterTypes
    <3>4. OrdersKept
      <4> HIDE DEF n, o
      <4> QED BY <2>1, <3>1, <3>2, OrderChanged
    <3> QED BY <2>2, <3>3, <3>4, PartsKept, TypesFromParts DEF AfterTypes
  <2>5. CASE Fails(o)
    <3> DEFINE n == [q EXCEPT !.payment = "failed", !.state = "cancel", !.released = TRUE]
    <3>1. n \in SaleOrder BY <2>1 DEF SaleOrder
    <3>2. orders' = [orders EXCEPT ![o] = n] BY <2>5 DEF Fails
    <3>3. stock' \in Nat BY <2>5 DEF Fails, AfterTypes
    <3>4. OrdersKept
      <4> HIDE DEF n, o
      <4> QED BY <2>1, <3>1, <3>2, OrderChanged
    <3> QED BY <2>2, <3>3, <3>4, PartsKept, TypesFromParts DEF AfterTypes
  <2> QED BY <1>2, <2>3, <2>4, <2>5, EventEffect
<1> QED BY <1>1, <1>2

\* A claim gets the least id that is free.
LEMMA NextClaimIsFree ==
    ASSUME \E i \in ClaimIds : claims[i] = NoClaim
    PROVE  NextClaim \in ClaimIds /\ claims[NextClaim] = NoClaim
<1> DEFINE D == {i \in ClaimIds : claims[i] = NoClaim}
<1>1. D # {} /\ D \subseteq Nat BY DEF ClaimIds
<1>2. PICK n \in D : \A k \in D : n <= k
  <2> HIDE DEF D
  <2> QED BY <1>1, LeastNatural
<1>3. \A j \in ClaimIds : claims[j] = NoClaim => n <= j BY <1>2
<1> QED BY <1>2, <1>3 DEF NextClaim

\* The claim under review is one of the order's.
ReviewsAreOfClaims ==
    \A s \in Sessions : sess[s].op = "review" =>
        claims[sess[s].claim] \in Claim /\ claims[sess[s].claim].order = sess[s].order

\* A warranty request replaces no other one.
LEMMA WarrantyTypes ==
    ASSUME AfterTypes, ReviewsAreOfClaims, WarrantyStep
    PROVE  AfterTypes'
<1>1. ASSUME NEW s \in Sessions, NEW o \in Orders, BeginClaim(s, o) PROVE AfterTypes'
  <2>1. [op |-> "claim", order |-> o] \in ClaimRequest BY DEF ClaimRequest
  <2>2. SessionsKept BY <1>1, <2>1, RequestPut DEF BeginClaim, BeginWarranty
  <2> QED
    BY <1>1, <2>2, PartsKept, TypesFromParts
    DEF BeginClaim, BeginWarranty, AfterTypes, stripeVars
<1>2. ASSUME NEW s \in Sessions, NEW i \in ClaimIds,
             NEW target \in {"approved", "rejected", "completed"}, BeginReview(s, i, target)
      PROVE  AfterTypes'
  <2>1. claims[i].status # "none" BY <1>2 DEF BeginReview, _RMA_TRANSITIONS
  <2>2. claims[i] \in Claim BY <2>1, SubmittedClaims
  <2>3. [op |-> "review", order |-> claims[i].order, claim |-> i, target |-> target]
          \in ReviewRequest
    BY <2>2 DEF ReviewRequest, Claim, Statuses
  <2>4. SessionsKept BY <1>2, <2>3, RequestPut DEF BeginReview, BeginWarranty
  <2> QED
    BY <1>2, <2>4, PartsKept, TypesFromParts
    DEF BeginReview, BeginWarranty, AfterTypes, stripeVars
<1>3. ASSUME NEW s \in Sessions, submit_claim(s) PROVE AfterTypes'
  <2>1. sess[s].order \in Orders
    BY <1>3, RequestKinds DEF submit_claim, ClaimRequest
  <2>2. NextClaim \in ClaimIds BY <1>3, NextClaimIsFree DEF submit_claim
  <2>3. [order |-> sess[s].order, status |-> "pending_review"] \in Claim
    BY <2>1 DEF Claim, Statuses
  <2>4. claims' \in [ClaimIds -> Claim \cup {NoClaim}]
    BY <1>3, <2>2, <2>3 DEF submit_claim, AfterTypes
  <2>5. SessionsKept BY <1>3, RequestPut DEF submit_claim, Commit
  <2> QED
    BY <1>3, <2>4, <2>5, PartsKept, TypesFromParts DEF submit_claim, AfterTypes, stripeVars
<1>4. ASSUME NEW s \in Sessions, review_claim(s) PROVE AfterTypes'
  <2> DEFINE k == sess[s].claim
  <2>1. k \in ClaimIds /\ sess[s].target \in Statuses
    BY <1>4, RequestKinds DEF review_claim, ReviewRequest
  <2>2. claims[k] \in Claim BY <1>4 DEF review_claim, ReviewsAreOfClaims
  <2>3. [claims[k] EXCEPT !.status = sess[s].target] \in Claim
    BY <2>1, <2>2 DEF Claim
  <2>4. claims' \in [ClaimIds -> Claim \cup {NoClaim}]
    BY <1>4, <2>1, <2>3 DEF review_claim, AfterTypes
  <2>5. SessionsKept BY <1>4, RequestPut DEF review_claim, Commit
  <2> QED
    BY <1>4, <2>4, <2>5, PartsKept, TypesFromParts DEF review_claim, AfterTypes, stripeVars
<1> QED BY <1>1, <1>2, <1>3, <1>4 DEF WarrantyStep

-------------------------------------------------------------------------------
(* AfterSales: the units of the Stripe orders                                  *)

Withheld == {o \in Stripe : ~orders[o].released}

\* A reservation row is only let go with its order, so a cancellation puts back the
\* unit of an order that still withholds one.
StripeInv ==
    /\ \A o \in Stripe : orders[o].lifecycle # "cancelled" => orders[o].reservation = "reserved"
    /\ contested \cap Stripe = {} =>
         stock + sold + Cardinality(Withheld) = LocalStock + Cardinality(Stripe)

LEMMA StripeFinite ==
    /\ IsFiniteSet(Stripe) /\ IsFiniteSet(Withheld)
    /\ Cardinality(Stripe) \in Nat /\ Cardinality(Withheld) \in Nat
<1>1. Stripe \subseteq StripeOrders /\ Withheld \subseteq StripeOrders BY DEF Stripe, Withheld
<1> QED BY <1>1, AfterSalesAssumption, FS_Subset, FS_CardinalityType

LEMMA StripeInit == AfterSalesInit => StripeInv
<1> SUFFICES ASSUME AfterSalesInit PROVE StripeInv OBVIOUS
<1>1. \A o \in Orders : orders[o].reservation = "reserved" /\ orders[o].released = FALSE
  BY DEF AfterSalesInit, Orders
<1>2. Withheld = Stripe BY <1>1 DEF Withheld, Stripe
<1>3. stock = LocalStock /\ sold = 0 BY DEF AfterSalesInit
<1> QED
  BY <1>1, <1>2, <1>3, StripeFinite, AfterSalesAssumption DEF StripeInv, Stripe

\* What the steps of the other parts leave alone.
StripeAside ==
    /\ Orders' = Orders /\ stock' = stock /\ sold' = sold /\ contested \subseteq contested'
    /\ \A o \in Stripe : /\ orders'[o].lifecycle = orders[o].lifecycle
                         /\ orders'[o].reservation = orders[o].reservation
                         /\ orders'[o].released = orders[o].released

LEMMA StripeLeftAlone ==
    ASSUME StripeInv, StripeAside
    PROVE  StripeInv'
<1>1. Stripe' = Stripe BY DEF StripeAside, Stripe
<1>2. Withheld' = Withheld BY <1>1 DEF StripeAside, Withheld
<1>3. Cardinality(Withheld)' = Cardinality(Withheld) /\ Cardinality(Stripe)' = Cardinality(Stripe)
  BY <1>1, <1>2
<1>4. contested' \cap Stripe = {} => contested \cap Stripe = {} BY DEF StripeAside
<1> QED BY <1>1, <1>3, <1>4 DEF StripeInv, StripeAside

\* An order gives its unit up, or takes one.
LEMMA WithheldLess ==
    ASSUME AfterTypes, NEW o \in Stripe, ~orders[o].released, orders'[o].released,
           orders' = [orders EXCEPT ![o] = orders'[o]], Orders' = Orders
    PROVE  Cardinality(Withheld') = Cardinality(Withheld) - 1
<1>1. o \in Withheld /\ Withheld' = Withheld \ {o}
  <2>1. \A z \in Stripe : z # o => orders'[z] = orders[z] BY DEF AfterTypes, Stripe
  <2> QED BY <2>1 DEF Withheld, Stripe
<1> QED BY <1>1, StripeFinite, FS_RemoveElement

LEMMA WithheldMore ==
    ASSUME AfterTypes, NEW o \in Stripe, orders[o].released, ~orders'[o].released,
           orders' = [orders EXCEPT ![o] = orders'[o]], Orders' = Orders
    PROVE  Cardinality(Withheld') = Cardinality(Withheld) + 1
<1>1. o \notin Withheld /\ Withheld' = Withheld \cup {o}
  <2>1. \A z \in Stripe : z # o => orders'[z] = orders[z] BY DEF AfterTypes, Stripe
  <2> QED BY <2>1 DEF Withheld, Stripe
<1> QED BY <1>1, StripeFinite, FS_AddElement

LEMMA WithheldSame ==
    ASSUME AfterTypes, NEW o \in Stripe, orders[o].released <=> orders'[o].released,
           orders' = [orders EXCEPT ![o] = orders'[o]], Orders' = Orders
    PROVE  Cardinality(Withheld') = Cardinality(Withheld)
<1>1. Withheld' = Withheld
  <2>1. \A z \in Stripe : z # o => orders'[z] = orders[z] BY DEF AfterTypes, Stripe
  <2> QED BY <2>1 DEF Withheld, Stripe
<1> QED BY <1>1

\* A step of one Stripe order: the row stays unless the order is cancelled, and the
\* shelf gains what the order gives up, unless staff and Stripe both acted on it.
UnitMoves(o) ==
    /\ o \in Stripe /\ Orders' = Orders /\ sold' = sold /\ contested \subseteq contested'
    /\ orders' = [orders EXCEPT ![o] = orders'[o]]
    /\ orders'[o].lifecycle # "cancelled" =>
         /\ orders[o].lifecycle # "cancelled"
         /\ orders'[o].reservation = orders[o].reservation
    /\ \/ o \in contested'
       \/ (orders[o].released <=> orders'[o].released) /\ stock' = stock
       \/ (~orders[o].released /\ orders'[o].released /\ stock' = stock + 1)
       \/ (orders[o].released /\ ~orders'[o].released /\ stock' = stock - 1)

LEMMA UnitMovesKeeps ==
    ASSUME AfterTypes, StripeInv, NEW o, UnitMoves(o)
    PROVE  StripeInv'
<1>0. o \in Stripe /\ Orders' = Orders /\ orders' = [orders EXCEPT ![o] = orders'[o]]
  BY DEF UnitMoves
<1>1. Stripe' = Stripe BY <1>0 DEF Stripe
<1>2. \A z \in Stripe : z # o => orders'[z] = orders[z] BY <1>0 DEF AfterTypes, Stripe
<1>3. \A z \in Stripe : orders'[z].lifecycle # "cancelled" => orders'[z].reservation = "reserved"
  BY <1>2 DEF UnitMoves, StripeInv
<1>4. ASSUME contested' \cap Stripe = {}
      PROVE  stock' + sold' + Cardinality(Withheld') = LocalStock + Cardinality(Stripe)
  <2>1. stock + sold + Cardinality(Withheld) = LocalStock + Cardinality(Stripe)
    BY <1>4 DEF UnitMoves, StripeInv
  <2>2. /\ stock \in Nat /\ sold \in Nat /\ sold' = sold /\ Cardinality(Withheld) \in Nat
        /\ LocalStock + Cardinality(Stripe) \in Int
    BY StripeFinite, AfterSalesAssumption DEF AfterTypes, UnitMoves
  <2>3. o \notin contested' BY <1>0, <1>4
  <2>4. CASE (orders[o].released <=> orders'[o].released) /\ stock' = stock
    <3>1. Cardinality(Withheld') = Cardinality(Withheld) BY <1>0, <2>4, WithheldSame
    <3> QED BY <2>1, <2>2, <2>4, <3>1
  <2>5. CASE ~orders[o].released /\ orders'[o].released /\ stock' = stock + 1
    <3>1. Cardinality(Withheld') = Cardinality(Withheld) - 1 BY <1>0, <2>5, WithheldLess
    <3> QED BY <2>1, <2>2, <2>5, <3>1
  <2>6. CASE orders[o].released /\ ~orders'[o].released /\ stock' = stock - 1
    <3>1. Cardinality(Withheld') = Cardinality(Withheld) + 1 BY <1>0, <2>6, WithheldMore
    <3> QED BY <2>1, <2>2, <2>6, <3>1
  <2> QED BY <2>3, <2>4, <2>5, <2>6 DEF UnitMoves
<1>5. Cardinality(Withheld)' = Cardinality(Withheld') OBVIOUS
<1> QED BY <1>1, <1>3, <1>4, <1>5 DEF StripeInv

\* A web order is none of Stripe's.
LEMMA WebIsNotStripe == ASSUME NEW o \in Web PROVE o \in Orders /\ o \notin Stripe
  BY AfterSalesAssumption DEF Web, Stripe

\* A step that changes at most a web order.
LEMMA WebOrderOnly ==
    ASSUME AfterTypes, NEW o \in Orders, o \notin Stripe, NEW q, orders' = [orders EXCEPT ![o] = q],
           UNCHANGED <<stock, sold, contested>>
    PROVE  StripeAside
<1>1. Orders' = Orders BY DEF AfterTypes, Orders
<1>2. \A z \in Stripe : orders'[z] = orders[z] BY DEF AfterTypes, Stripe
<1> QED BY <1>1, <1>2 DEF StripeAside

\* Nor does a step that leaves the orders and the shelf alone matter.
LEMMA OrdersAside ==
    ASSUME UNCHANGED <<orders, stock, sold>>, contested \subseteq contested'
    PROVE  StripeAside
  BY DEF StripeAside, Orders

LEMMA cancelKeepsStripe ==
    ASSUME AfterTypes, StripeInv, NEW o \in Orders, cancel(o)
    PROVE  StripeInv'
<1> DEFINE q == orders[o]
           n == orders'[o]
<1>1. CASE o \notin Stripe
  <2>1. \E z : orders' = [orders EXCEPT ![o] = z] BY DEF cancel
  <2>2. UNCHANGED <<stock, sold, contested>> BY <1>1 DEF cancel
  <2> QED BY <1>1, <2>1, <2>2, WebOrderOnly, StripeLeftAlone
<1>2. CASE o \in Stripe
  <2>1. n.lifecycle = "cancelled" /\ n.released /\ q.lifecycle # "cancelled"
    BY DEF cancel, AfterTypes, SaleOrder
  <2>2. Orders' = Orders /\ orders' = [orders EXCEPT ![o] = n]
    BY DEF cancel, AfterTypes, Orders
  <2>3. sold' = sold BY DEF cancel
  <2>4. contested \subseteq contested' /\ (q.released => o \in contested')
    BY <1>2 DEF cancel, Race
  <2>5. ~q.released => stock' = stock + 1
    BY <1>2, <2>1 DEF cancel, Holding, StripeInv
  <2> HIDE DEF q, n
  <2>6. UnitMoves(o) BY <1>2, <2>1, <2>2, <2>3, <2>4, <2>5 DEF UnitMoves, q, n
  <2> QED BY <2>6, UnitMovesKeeps
<1> QED BY <1>1, <1>2

LEMMA eventKeepsStripe ==
    ASSUME AfterTypes, StripeInv, NEW e \in Events, process_stripe_event(e)
    PROVE  StripeInv'
<1> DEFINE o == e.order
           q == orders[o]
           n == orders'[o]
<1>1. o \in Stripe /\ UNCHANGED <<sold, contested>> BY EventEffect
<1>2. o \in Orders /\ q \in SaleOrder BY <1>1 DEF Stripe, AfterTypes
<1>3. CASE UNCHANGED <<orders, stock>> BY <1>1, <1>3, OrdersAside, StripeLeftAlone
<1>4. CASE Pays(o)
  <2>1. /\ n.lifecycle = q.lifecycle /\ n.reservation = q.reservation /\ ~n.released
        /\ Orders' = Orders /\ orders' = [orders EXCEPT ![o] = n]
    BY <1>2, <1>4 DEF Pays, AfterTypes, SaleOrder, Orders
  <2>2. stock' = IF q.released THEN stock - 1 ELSE stock BY <1>4 DEF Pays
  <2>3. q.released \in BOOLEAN BY <1>2 DEF SaleOrder
  <2> HIDE DEF n, q, o
  <2>4. UnitMoves(o) BY <1>1, <2>1, <2>2, <2>3 DEF UnitMoves, n, q
  <2> QED BY <2>4, UnitMovesKeeps
<1>5. CASE Fails(o)
  <2>1. /\ n.lifecycle = q.lifecycle /\ n.reservation = q.reservation /\ n.released
        /\ Orders' = Orders /\ orders' = [orders EXCEPT ![o] = n]
    BY <1>2, <1>5 DEF Fails, AfterTypes, SaleOrder, Orders
  <2>2. stock' = stock + 1 /\ ~q.released BY <1>5 DEF Fails
  <2> HIDE DEF n, q, o
  <2>3. UnitMoves(o) BY <1>1, <2>1, <2>2 DEF UnitMoves, n, q
  <2> QED BY <2>3, UnitMovesKeeps
<1> QED BY <1>3, <1>4, <1>5, EventEffect

LEMMA SellKeepsStripe == ASSUME AfterTypes, StripeInv, Sell PROVE StripeInv'
<1>1. UNCHANGED <<orders, contested>> /\ stock' = stock - 1 /\ sold' = sold + 1 BY DEF Sell
<1>2. Stripe' = Stripe /\ Withheld' = Withheld BY <1>1 DEF Stripe, Withheld, Orders
<1>3. /\ stock \in Nat /\ sold \in Nat /\ Cardinality(Withheld) \in Nat
      /\ stock' + sold' + Cardinality(Withheld) = stock + sold + Cardinality(Withheld)
  BY <1>1, StripeFinite DEF AfterTypes
<1>4. Cardinality(Withheld)' = Cardinality(Withheld) /\ Cardinality(Stripe)' = Cardinality(Stripe)
  BY <1>2
<1> QED BY <1>1, <1>2, <1>3, <1>4 DEF StripeInv

\* The steps of the other parts.
LEMMA othersAreAside ==
    ASSUME AfterTypes, LoyaltyStep \/ WarrantyStep \/ PaymentStep \/ UNCHANGED afterSalesVars
    PROVE  StripeAside
<1>1. ASSUME NEW s \in Sessions, redeem_for_order(s) PROVE StripeAside
  <2>1. sess[s].order \in Web BY <1>1, RequestKinds DEF redeem_for_order, RedeemRequest
  <2>2. \E q : orders' = [orders EXCEPT ![sess[s].order] = q] BY <1>1 DEF redeem_for_order
  <2>3. UNCHANGED <<stock, sold, contested>> BY <1>1 DEF redeem_for_order, stripeVars
  <2> QED BY <2>1, <2>2, <2>3, WebIsNotStripe, WebOrderOnly
<1>2. CASE PaymentStep
  <2>1. PICK o \in Orders : Complete(o) \/ PaymobSucceeded(o) \/ PaymobFailed(o)
    BY <1>2 DEF PaymentStep
  <2>2. o \in Web BY <2>1 DEF Complete, PaymobSucceeded, PaymobFailed
  <2>3. \E q : orders' = [orders EXCEPT ![o] = q]
    BY <2>1 DEF Complete, PaymobSucceeded, PaymobFailed
  <2>4. UNCHANGED <<stock, sold, contested>>
    BY <2>1 DEF Complete, PaymobSucceeded, PaymobFailed, stripeVars
  <2> QED BY <2>2, <2>3, <2>4, WebIsNotStripe, WebOrderOnly
<1>3. CASE WarrantyStep
  <2>1. UNCHANGED <<orders, stock, sold>> /\ contested \subseteq contested'
    BY <1>3 DEF WarrantyStep, BeginClaim, BeginReview, BeginWarranty, Race, submit_claim,
                review_claim, stripeVars
  <2> QED BY <2>1, OrdersAside
<1>4. CASE UNCHANGED afterSalesVars
  <2>1. UNCHANGED <<orders, stock, sold, contested>> BY <1>4 DEF afterSalesVars
  <2> QED BY <2>1, OrdersAside
<1>5. ASSUME LoyaltyStep, ~ \E s \in Sessions : redeem_for_order(s) PROVE StripeAside
  <2>1. UNCHANGED <<orders, stock, sold, contested>>
    BY <1>5 DEF LoyaltyStep, BeginRedeem, redeem_points, earn_points_for_order, stripeVars
  <2> QED BY <2>1, OrdersAside
<1> QED BY <1>1, <1>2, <1>3, <1>4, <1>5

-------------------------------------------------------------------------------
(* AfterSales: the claims of an order                                          *)

\* The request s works on a warranty of order o.
OnWarranty(s, o) == sess[s].op \in {"claim", "review"} /\ sess[s].order = o

\* While no two requests have overlapped on it, an order has one active claim and one
\* request at most, and what that request has read is still so.
OneAtATime(o) ==
    /\ \A i, j \in Active(o) : i = j
    /\ \A s, z \in Sessions : OnWarranty(s, o) /\ OnWarranty(z, o) => s = z
    /\ \A s \in Sessions : sess[s].op = "claim" /\ sess[s].order = o => Active(o) = {}
    /\ \A s \in Sessions : sess[s].op = "review" /\ sess[s].order = o =>
          sess[s].target \in _RMA_TRANSITIONS[claims[sess[s].claim].status]

ClaimInv == ReviewsAreOfClaims /\ \A o \in Orders \ contested : OneAtATime(o)

LEMMA ClaimInit == AfterSalesInit => ClaimInv
<1> SUFFICES ASSUME AfterSalesInit PROVE ClaimInv OBVIOUS
<1>1. \A s \in Sessions : sess[s].op = "none" BY DEF AfterSalesInit, NoRequest
<1>2. \A o : Active(o) = {} BY DEF AfterSalesInit, Active, NoClaim
<1> QED BY <1>1, <1>2 DEF ClaimInv, ReviewsAreOfClaims, OneAtATime, OnWarranty

\* What the steps of the other parts leave alone.
ClaimsAside ==
    /\ Orders' = Orders /\ claims' = claims /\ contested \subseteq contested'
    /\ \A s \in Sessions : sess'[s].op \in {"claim", "review"} => sess'[s] = sess[s]

LEMMA ClaimsLeftAlone == ASSUME ClaimInv, ClaimsAside PROVE ClaimInv'
<1>1. /\ Orders' = Orders /\ claims' = claims /\ contested \subseteq contested'
      /\ \A s \in Sessions : sess'[s].op \in {"claim", "review"} => sess'[s] = sess[s]
  BY DEF ClaimsAside
<1>2. Claim' = Claim /\ \A o : Active(o)' = Active(o) BY <1>1 DEF Claim, Active
<1>3. ReviewsAreOfClaims' BY <1>1, <1>2 DEF ClaimInv, ReviewsAreOfClaims
<1>4. ASSUME NEW o \in Orders, o \notin contested' PROVE OneAtATime(o)'
  <2>1. OneAtATime(o) BY <1>1, <1>4 DEF ClaimInv
  <2>2. \A s \in Sessions : OnWarranty(s, o)' => OnWarranty(s, o) BY <1>1 DEF OnWarranty
  <2> QED BY <1>1, <1>2, <2>1, <2>2 DEF OneAtATime
<1> QED BY <1>1, <1>3, <1>4 DEF ClaimInv

\* What a warranty request has found.
ReadJustNow(r) ==
    \/ r.op = "claim" /\ Active(r.order) = {}
    \/ /\ r.op = "review" /\ claims[r.claim] \in Claim /\ claims[r.claim].order = r.order
       /\ r.target \in _RMA_TRANSITIONS[claims[r.claim].status]

\* A request that has just read what it relies on, when no other one is at work.
LEMMA BeginKeepsClaims ==
    ASSUME AfterTypes, ClaimInv, NEW s \in Sessions,
           \/ \E o \in Orders : BeginClaim(s, o)
           \/ \E i \in ClaimIds, target \in {"approved", "rejected", "completed"} :
                BeginReview(s, i, target)
    PROVE  ClaimInv'
<1> DEFINE r == sess'[s]
<1>1. \E op : BeginWarranty(s, op, r.order, r)
  <2>1. ASSUME NEW o \in Orders, BeginClaim(s, o) PROVE \E op : BeginWarranty(s, op, r.order, r)
    <3>1. r = [op |-> "claim", order |-> o]
      BY <2>1 DEF BeginClaim, BeginWarranty, AfterTypes
    <3> QED BY <2>1, <3>1 DEF BeginClaim
  <2>2. ASSUME NEW i \in ClaimIds, NEW target, BeginReview(s, i, target)
        PROVE  \E op : BeginWarranty(s, op, r.order, r)
    <3>1. r = [op |-> "review", order |-> claims[i].order, claim |-> i, target |-> target]
      BY <2>2 DEF BeginReview, BeginWarranty, AfterTypes
    <3> QED BY <2>2, <3>1 DEF BeginReview
  <2> QED BY <2>1, <2>2
<1>2. /\ sess[s] = NoRequest /\ Orders' = Orders /\ claims' = claims
      /\ contested \subseteq contested'
      /\ \A z \in Sessions : z # s => sess'[z] = sess[z]
      /\ r.order \notin contested' => Working("claim", r.order) \cup Working("review", r.order) = {}
  BY <1>1 DEF BeginWarranty, Race, Orders, AfterTypes
<1>3. ReadJustNow(r)
  <2>1. ASSUME NEW o \in Orders, BeginClaim(s, o) PROVE ReadJustNow(r)
    BY <2>1 DEF BeginClaim, BeginWarranty, AfterTypes, ReadJustNow
  <2>2. ASSUME NEW i \in ClaimIds, NEW target, BeginReview(s, i, target) PROVE ReadJustNow(r)
    <3>1. r = [op |-> "review", order |-> claims[i].order, claim |-> i, target |-> target]
          /\ target \in _RMA_TRANSITIONS[claims[i].status]
      BY <2>2 DEF BeginReview, BeginWarranty, AfterTypes
    <3>2. claims[i].status # "none" BY <3>1 DEF _RMA_TRANSITIONS
    <3>3. claims[i] \in Claim BY <3>2, SubmittedClaims
    <3> QED BY <3>1, <3>3 DEF ReadJustNow
  <2> QED BY <2>1, <2>2
<1>4. Claim' = Claim /\ \A q : Active(q)' = Active(q) BY <1>2 DEF Claim, Active
<1>5. ReviewsAreOfClaims'
  BY <1>2, <1>3, <1>4 DEF ClaimInv, ReviewsAreOfClaims, ReadJustNow
<1>6. ASSUME NEW q \in Orders, q \notin contested' PROVE OneAtATime(q)'
  <2>1. OneAtATime(q) BY <1>2, <1>6 DEF ClaimInv
  <2>2. \A z \in Sessions : z # s => (OnWarranty(z, q)' <=> OnWarranty(z, q))
    BY <1>2 DEF OnWarranty
  <2>3. r.order = q => \A z \in Sessions : ~OnWarranty(z, q)
    BY <1>2, <1>6 DEF Working, OnWarranty
  <2>4. \A y, z \in Sessions : OnWarranty(y, q)' /\ OnWarranty(z, q)' => y = z
    BY <2>1, <2>2, <2>3 DEF OneAtATime, OnWarranty
  <2> QED BY <1>2, <1>3, <1>4, <2>1, <2>4 DEF OneAtATime, ReadJustNow
<1> QED BY <1>2, <1>5, <1>6 DEF ClaimInv

\* What a claim or a review writes, seen from any order.
LEMMA SubmitKeepsClaims ==
    ASSUME AfterTypes, ClaimInv, NEW s \in Sessions, submit_claim(s)
    PROVE  ClaimInv'
<1> DEFINE n == NextClaim
<1>0. PICK o : o = sess[s].order OBVIOUS
<1>1. /\ n \in ClaimIds /\ claims[n] = NoClaim
      /\ sess[s].op = "claim"
      /\ claims' = [claims EXCEPT ![n] = [order |-> o, status |-> "pending_review"]]
      /\ UNCHANGED <<orders, contested>> /\ Orders' = Orders
      /\ sess' = [sess EXCEPT ![s] = NoRequest]
  BY <1>0, NextClaimIsFree DEF submit_claim, Commit, Orders
<1>2. sess'[s].op = "none" /\ \A z \in Sessions : z # s => sess'[z] = sess[z]
  BY <1>1 DEF AfterTypes, NoRequest
<1>3. claims'[n] = [order |-> o, status |-> "pending_review"]
      /\ \A i \in ClaimIds : i # n => claims'[i] = claims[i]
  BY <1>1 DEF AfterTypes
<1>4. Claim' = Claim BY <1>1 DEF Claim
<1> HIDE DEF n
<1>5. /\ Active(o)' = Active(o) \cup {n}
      /\ \A q : q # o => Active(q)' = Active(q)
  <2>1. claims[n].status = "none" BY <1>1 DEF NoClaim
  <2>2. ASSUME NEW q, NEW i \in ClaimIds
        PROVE  i \in Active(q)' <=> (i \in Active(q) \/ (i = n /\ q = o))
    BY <1>1, <1>3, <2>1, <2>2 DEF Active
  <2>3. \A q : Active(q) \subseteq ClaimIds /\ Active(q)' \subseteq ClaimIds BY DEF Active
  <2> QED BY <1>1, <2>2, <2>3
<1>6. \A z \in Sessions : sess[z].op = "review" => sess[z].claim \in ClaimIds /\ sess[z].claim # n
  BY <1>1, RequestKinds DEF ClaimInv, ReviewsAreOfClaims, ReviewRequest, Claim, NoClaim, Statuses
<1>7. ReviewsAreOfClaims'
  BY <1>2, <1>3, <1>4, <1>6 DEF ClaimInv, ReviewsAreOfClaims
<1>8. ASSUME NEW q \in Orders, q \notin contested' PROVE OneAtATime(q)'
  <2>1. OneAtATime(q) BY <1>1, <1>8 DEF ClaimInv
  <2>2. \A z \in Sessions : OnWarranty(z, q)' => z # s /\ OnWarranty(z, q)
    BY <1>2 DEF OnWarranty
  <2>3. CASE q = o
    <3>1. OnWarranty(s, o) BY <1>0, <1>1 DEF OnWarranty
    <3>2. \A z \in Sessions : ~OnWarranty(z, q)' BY <2>1, <2>2, <2>3, <3>1 DEF OneAtATime
    <3>3. Active(q)' = {n} BY <1>0, <1>1, <1>5, <2>1, <2>3 DEF OneAtATime
    <3> QED BY <3>2, <3>3 DEF OneAtATime, OnWarranty
  <2>4. CASE q # o
    <3>1. Active(q)' = Active(q) BY <1>5, <2>4
    <3> QED BY <1>2, <1>3, <1>6, <2>1, <2>2, <3>1 DEF OneAtATime
  <2> QED BY <2>3, <2>4
<1> QED BY <1>1, <1>7, <1>8 DEF ClaimInv

LEMMA ReviewKeepsClaims ==
    ASSUME AfterTypes, ClaimInv, NEW s \in Sessions, review_claim(s)
    PROVE  ClaimInv'
<1>0. PICK o, n, target : o = sess[s].order /\ n = sess[s].claim /\ target = sess[s].target
  OBVIOUS
<1>1. /\ sess[s].op = "review"
      /\ claims' = [claims EXCEPT ![n].status = target]
      /\ UNCHANGED <<orders, contested>> /\ Orders' = Orders
      /\ sess' = [sess EXCEPT ![s] = NoRequest]
  BY <1>0 DEF review_claim, Commit, Orders
<1>2. n \in ClaimIds /\ target \in Statuses /\ claims[n] \in Claim /\ claims[n].order = o
  BY <1>0, <1>1, RequestKinds DEF ClaimInv, ReviewsAreOfClaims, ReviewRequest
<1>3. sess'[s].op = "none" /\ \A z \in Sessions : z # s => sess'[z] = sess[z]
  BY <1>1 DEF AfterTypes, NoRequest
<1>4. /\ claims'[n] = [claims[n] EXCEPT !.status = target]
      /\ \A i \in ClaimIds : i # n => claims'[i] = claims[i]
  BY <1>1, <1>2 DEF AfterTypes
<1>5. claims'[n] \in Claim /\ claims'[n].order = o /\ claims'[n].status = target
  BY <1>2, <1>4 DEF Claim
<1>6. Claim' = Claim BY <1>1 DEF Claim
<1>7. \A q : q # o => Active(q)' = Active(q)
  BY <1>2, <1>4, <1>5 DEF Active
<1>8. ReviewsAreOfClaims'
  <2>1. \A z \in Sessions : sess[z].op = "review" => sess[z].claim \in ClaimIds
    BY RequestKinds DEF ReviewRequest
  <2>2. ASSUME NEW z \in Sessions, sess'[z].op = "review"
        PROVE  claims'[sess'[z].claim] \in Claim /\ claims'[sess'[z].claim].order = sess'[z].order
    <3>1. sess'[z] = sess[z] /\ sess[z].op = "review" BY <1>3, <2>2
    <3>2. claims[sess[z].claim] \in Claim /\ claims[sess[z].claim].order = sess[z].order
      BY <3>1 DEF ClaimInv, ReviewsAreOfClaims
    <3>3. CASE sess[z].claim = n BY <1>2, <1>5, <3>1, <3>2, <3>3
    <3>4. CASE sess[z].claim # n
      <4>1. claims'[sess[z].claim] = claims[sess[z].claim] BY <1>4, <2>1, <3>1, <3>4
      <4> QED BY <3>1, <3>2, <4>1
    <3> QED BY <3>3, <3>4
  <2> QED BY <1>6, <2>2 DEF ReviewsAreOfClaims
<1>9. ASSUME NEW q \in Orders, q \notin contested' PROVE OneAtATime(q)'
  <2>1. OneAtATime(q) BY <1>1, <1>9 DEF ClaimInv
  <2>2. \A z \in Sessions : OnWarranty(z, q)' => z # s /\ OnWarranty(z, q)
    BY <1>3 DEF OnWarranty
  <2>3. CASE q = o
    <3>1. OnWarranty(s, o) BY <1>0, <1>1 DEF OnWarranty
    <3>2. \A z \in Sessions : ~OnWarranty(z, q)' BY <2>1, <2>2, <2>3, <3>1 DEF OneAtATime
    <3>3. target \in _RMA_TRANSITIONS[claims[n].status] BY <1>0, <1>1, <2>1, <2>3 DEF OneAtATime
    <3>4. claims[n].status \in Statuses BY <1>2 DEF Claim
    <3>5. target \in {"pending_review", "approved"} => claims[n].status = "pending_review"
      BY <3>3, <3>4 DEF _RMA_TRANSITIONS, Statuses
    <3>6. Active(q)' \subseteq Active(q) BY <1>2, <1>4, <1>5, <2>3, <3>5 DEF Active
    <3> QED BY <2>1, <3>2, <3>6 DEF OneAtATime, OnWarranty
  <2>4. CASE q # o
    <3>1. Active(q)' = Active(q) BY <1>7, <2>4
    <3>2. \A z \in Sessions : sess[z].op = "review" /\ sess[z].order = q =>
            sess[z].claim # n /\ sess[z].claim \in ClaimIds
      BY <1>2, <2>4, RequestKinds DEF ClaimInv, ReviewsAreOfClaims, ReviewRequest
    <3> QED BY <1>3, <1>4, <2>1, <2>2, <3>1, <3>2 DEF OneAtATime
  <2> QED BY <2>3, <2>4
<1> QED BY <1>1, <1>8, <1>9 DEF ClaimInv

\* The steps of the other parts.
LEMMA othersLeaveClaims ==
    ASSUME AfterTypes, \/ LoyaltyStep \/ PaymentStep \/ Sell \/ UNCHANGED afterSalesVars
                       \/ \E o \in Orders : cancel(o)
                       \/ \E e \in Events : process_stripe_event(e)
    PROVE  ClaimsAside
<1>1. ASSUME NEW s \in Sessions, NEW o \in Orders, NEW points \in 1..Price,
             BeginRedeem(s, o, points)
      PROVE  ClaimsAside
  <2>1. sess'[s].op = "redeem" /\ \A z \in Sessions : z # s => sess'[z] = sess[z]
    BY <1>1 DEF BeginRedeem, AfterTypes
  <2> QED BY <1>1, <2>1 DEF BeginRedeem, ClaimsAside, Orders
<1>2. ASSUME NEW s \in Sessions, redeem_for_order(s) PROVE ClaimsAside
  <2>1. sess'[s].op = "none" /\ \A z \in Sessions : z # s => sess'[z] = sess[z]
    BY <1>2 DEF redeem_for_order, Commit, AfterTypes, NoRequest
  <2>2. Orders' = Orders BY <1>2 DEF redeem_for_order, Orders, AfterTypes
  <2> QED BY <1>2, <2>1, <2>2 DEF redeem_for_order, ClaimsAside
<1>3. CASE \/ \E points \in 1..Price : redeem_points(points)
           \/ \E o \in Orders : earn_points_for_order(o)
  <2>1. UNCHANGED <<orders, claims, sess, contested>>
    BY <1>3 DEF redeem_points, earn_points_for_order
  <2> QED BY <2>1 DEF ClaimsAside, Orders
<1>6. CASE PaymentStep
  <2>1. PICK o \in Orders : Complete(o) \/ PaymobSucceeded(o) \/ PaymobFailed(o)
    BY <1>6 DEF PaymentStep
  <2>2. /\ UNCHANGED <<claims, sess, contested>>
        /\ \E q : orders' = [orders EXCEPT ![o] = q]
    BY <2>1 DEF Complete, PaymobSucceeded, PaymobFailed
  <2>3. Orders' = Orders BY <2>2 DEF Orders
  <2> QED BY <2>2, <2>3 DEF ClaimsAside
<1>7. CASE UNCHANGED afterSalesVars \/ Sell
  <2>1. UNCHANGED <<orders, claims, sess, contested>> BY <1>7 DEF Sell, afterSalesVars
  <2> QED BY <2>1 DEF ClaimsAside, Orders
<1>4. ASSUME NEW o \in Orders, cancel(o) PROVE ClaimsAside
  <2>1. Orders' = Orders BY <1>4 DEF cancel, Orders, AfterTypes
  <2>2. UNCHANGED <<claims, sess>> /\ contested \subseteq contested' BY <1>4 DEF cancel, Race
  <2> QED BY <2>1, <2>2 DEF ClaimsAside
<1>5. ASSUME NEW e \in Events, process_stripe_event(e) PROVE ClaimsAside
  <2>1. UNCHANGED <<ledger, claims, sess, sold, contested>>
        /\ (UNCHANGED <<orders, stock>> \/ Pays(e.order) \/ Fails(e.order))
    BY <1>5, EventEffect
  <2>2. Orders' = Orders BY <2>1 DEF Pays, Fails, Orders, AfterTypes
  <2> QED BY <2>1, <2>2 DEF ClaimsAside
<1> QED BY <1>1, <1>2, <1>3, <1>4, <1>5, <1>6, <1>7 DEF LoyaltyStep

-------------------------------------------------------------------------------
(* AfterSales: the points ledger as sums over its rows                         *)

LedgerRows == 1..MaxLedger

\* The amounts of the ledger l, and those that redeem points against the order o, row
\* by row; rows not written yet count nothing.
Redeems(l, i, o) == i \in DOMAIN l /\ l[i].type = "order_redemption" /\ l[i].order = o
Deltas(l)       == [i \in LedgerRows |-> IF i \in DOMAIN l THEN l[i].delta ELSE 0]
Discounts(l, o) == [i \in LedgerRows |-> IF Redeems(l, i, o) THEN l[i].delta ELSE 0]

IsLedger(l, orderIds) ==
    /\ l \in Seq([delta : Int, type : {"purchase_earn", "order_redemption"}, order : orderIds])
    /\ Len(l) <= MaxLedger

LEMMA LedgerRowsFinite == IsFiniteSet(LedgerRows)
  BY AfterSalesAssumption, FS_Interval DEF LedgerRows

LEMMA LedgerTables ==
    ASSUME NEW S, NEW l, IsLedger(l, S), NEW o
    PROVE  /\ DOMAIN l \subseteq LedgerRows
           /\ \A i \in LedgerRows : Deltas(l)[i] \in Int /\ Discounts(l, o)[i] \in Int
<1>1. DOMAIN l = 1..Len(l) /\ Len(l) \in Nat /\ Len(l) <= MaxLedger BY DEF IsLedger
<1>2. \A i \in DOMAIN l : l[i].delta \in Int
  <2> DEFINE E == [delta : Int, type : {"purchase_earn", "order_redemption"}, order : S]
  <2>1. l \in Seq(E) BY DEF IsLedger
  <2>2. \A i \in DOMAIN l : l[i] \in E
    <3> HIDE DEF E
    <3> QED BY <1>1, <2>1
  <2> QED BY <2>2
<1>3. DOMAIN l \subseteq LedgerRows BY <1>1, AfterSalesAssumption DEF LedgerRows
<1>4. \A i \in LedgerRows : Deltas(l)[i] \in Int BY <1>2 DEF Deltas
<1>5. \A i \in LedgerRows : Discounts(l, o)[i] \in Int BY <1>2 DEF Discounts, Redeems
<1> QED BY <1>3, <1>4, <1>5

LEMMA RowSumIsInt ==
    ASSUME NEW h, \A i \in LedgerRows : h[i] \in Int
    PROVE  SumOf(h, LedgerRows) \in Int
<1> DEFINE c == [i \in LedgerRows |-> h[i] + h[i]]
<1>1. \A i \in LedgerRows : h[i] \in Int /\ h[i] \in Int /\ c[i] = h[i] + h[i] OBVIOUS
<1> HIDE DEF c
<1> QED BY <1>1, LedgerRowsFinite, SumAdds

\* A sum over some rows is one over all of them.
LEMMA RowSum ==
    ASSUME NEW T \in SUBSET LedgerRows, NEW h, NEW d,
           \A i \in LedgerRows : d[i] \in Int /\ h[i] \in Int,
           \A i \in T : h[i] = d[i], \A i \in LedgerRows \ T : h[i] = 0
    PROVE  SumOf(d, T) = SumOf(h, LedgerRows)
<1>1. SumOf(d, T) = SumOf(Only(d, T, LedgerRows), LedgerRows) BY LedgerRowsFinite, SumOfSubset
<1> DEFINE k == Only(d, T, LedgerRows)
<1>2. \A i \in LedgerRows : k[i] \in Int /\ h[i] \in Int /\ k[i] <= h[i] /\ h[i] <= k[i] BY DEF Only
<1>3. SumOf(k, LedgerRows) \in Int /\ SumOf(h, LedgerRows) \in Int
  <2> HIDE DEF k
  <2> QED BY <1>2, RowSumIsInt
<1> HIDE DEF k
<1>4. SumOf(k, LedgerRows) <= SumOf(h, LedgerRows) BY <1>2, LedgerRowsFinite, SumBounds
<1>5. SumOf(h, LedgerRows) <= SumOf(k, LedgerRows) BY <1>2, LedgerRowsFinite, SumBounds
<1> QED BY <1>1, <1>3, <1>4, <1>5 DEF k

\* The sum as the models write it.
LEMMA MapIsTable ==
    ASSUME NEW l, NEW T \in SUBSET LedgerRows, NEW h, \A i \in T : h[i] = l[i].delta
    PROVE  MapThenSumSet(LAMBDA i : l[i].delta, T) = SumOf(h, T)
<1>1. \A g : [s \in SUBSET T |-> IF s = {} THEN 0 ELSE l[Pick(s)].delta + g[s \ {Pick(s)}]]
           = [s \in SUBSET T |-> IF s = {} THEN 0 ELSE h[Pick(s)] + g[s \ {Pick(s)}]]
  <2>1. \A s \in SUBSET T : s # {} => l[Pick(s)].delta = h[Pick(s)] BY PickIn
  <2> QED BY <2>1
<1> DEFINE L(g) == [s \in SUBSET T |-> IF s = {} THEN 0 ELSE l[Pick(s)].delta + g[s \ {Pick(s)}]]
           H(g) == [s \in SUBSET T |-> IF s = {} THEN 0 ELSE h[Pick(s)] + g[s \ {Pick(s)}]]
<1>2. (CHOOSE g : g = L(g)) = (CHOOSE g : g = H(g))
  <2>1. \A g : L(g) = H(g) BY <1>1
  <2> HIDE DEF L, H
  <2> QED BY <2>1, Zenon
<1>3. MapThenSumSet(LAMBDA i : l[i].delta, T) = (CHOOSE g : g = L(g))[T]
  BY DEF MapThenSumSet, MapThenFoldSet, Pick
<1>4. SumOf(h, T) = (CHOOSE g : g = H(g))[T]
  BY DEF SumOf, MapThenSumSet, MapThenFoldSet, Pick
<1> QED BY <1>2, <1>3, <1>4

LEMMA TotalIsSum ==
    ASSUME NEW S, NEW l, IsLedger(l, S)
    PROVE  MapThenSumSet(LAMBDA i : l[i].delta, DOMAIN l) = SumOf(Deltas(l), LedgerRows)
<1> DEFINE T == DOMAIN l
           h == Deltas(l)
<1>1. T \in SUBSET LedgerRows /\ \A i \in LedgerRows : h[i] \in Int BY LedgerTables
<1>2. (\A i \in T : h[i] = l[i].delta) /\ (\A i \in LedgerRows \ T : h[i] = 0)
  BY <1>1 DEF Deltas
<1> HIDE DEF T, h
<1>3. MapThenSumSet(LAMBDA i : l[i].delta, T) = SumOf(h, T) BY <1>1, <1>2, MapIsTable
<1>4. SumOf(h, T) = SumOf(h, LedgerRows) BY <1>1, <1>2, RowSum
<1> QED BY <1>3, <1>4 DEF T, h

LEMMA DiscountIsSum ==
    ASSUME NEW S, NEW l, IsLedger(l, S), NEW o
    PROVE  MapThenSumSet(LAMBDA i : l[i].delta, {i \in DOMAIN l : Redeems(l, i, o)})
             = SumOf(Discounts(l, o), LedgerRows)
<1> DEFINE T == {i \in DOMAIN l : Redeems(l, i, o)}
           h == Discounts(l, o)
<1>1. T \in SUBSET LedgerRows /\ \A i \in LedgerRows : h[i] \in Int BY LedgerTables
<1>2. (\A i \in T : h[i] = l[i].delta) /\ (\A i \in LedgerRows \ T : h[i] = 0)
  BY <1>1 DEF Discounts, Redeems
<1> HIDE DEF T, h
<1>3. MapThenSumSet(LAMBDA i : l[i].delta, T) = SumOf(h, T) BY <1>1, <1>2, MapIsTable
<1>4. SumOf(h, T) = SumOf(h, LedgerRows) BY <1>1, <1>2, RowSum
<1> QED BY <1>3, <1>4 DEF T, h

Balance   == SumOf(Deltas(ledger), LedgerRows)
Discount(o) == SumOf(Discounts(ledger, o), LedgerRows)

LEMMA LedgerTyped ==
    ASSUME AfterTypes
    PROVE  /\ IsLedger(ledger, Orders \cup {"none"})
           /\ total_points = Balance /\ Balance \in Int
           /\ \A o : Discount(o) \in Int
<1>1. IsLedger(ledger, Orders \cup {"none"})
  BY AfterSalesAssumption DEF AfterTypes, IsLedger, Entry
<1>2. total_points = Balance BY <1>1, TotalIsSum DEF total_points, Balance
<1>3. Balance \in Int
  <2>1. \A i \in LedgerRows : Deltas(ledger)[i] \in Int BY <1>1, LedgerTables
  <2> QED BY <2>1, RowSumIsInt DEF Balance
<1>4. ASSUME NEW o PROVE Discount(o) \in Int
  <2>1. \A i \in LedgerRows : Discounts(ledger, o)[i] \in Int BY <1>1, LedgerTables
  <2> QED BY <2>1, RowSumIsInt DEF Discount
<1> QED BY <1>1, <1>2, <1>3, <1>4

\* Appending an entry.
RowAppended(n, e) ==
    /\ DOMAIN ledger' = DOMAIN ledger \cup {n} /\ n \notin DOMAIN ledger /\ n \in LedgerRows
    /\ ledger'[n] = e
    /\ \A i \in DOMAIN ledger : ledger'[i] = ledger[i]

LEMMA AppendedRow ==
    ASSUME AfterTypes, NEW delta \in Int, NEW type, NEW o, Append1(delta, type, o)
    PROVE  \E n : RowAppended(n, [delta |-> delta, type |-> type, order |-> o])
<1> DEFINE e == [delta |-> delta, type |-> type, order |-> o]
           n == Len(ledger) + 1
<1>1. ledger' = Append(ledger, e) /\ Len(ledger) < MaxLedger BY DEF Append1
<1>2. ledger \in Seq(Entry) /\ Len(ledger) \in Nat /\ MaxLedger \in Nat
  BY AfterSalesAssumption DEF AfterTypes
<1>3. n \in LedgerRows BY <1>1, <1>2 DEF LedgerRows
<1> HIDE DEF e
<1>4. /\ DOMAIN ledger' = DOMAIN ledger \cup {n} /\ n \notin DOMAIN ledger
      /\ ledger'[n] = e
      /\ \A i \in DOMAIN ledger : ledger'[i] = ledger[i]
  BY <1>1, <1>2
<1>5. RowAppended(n, e) BY <1>3, <1>4 DEF RowAppended
<1> QED BY <1>5 DEF e

\* It changes the balance by its amount, and the discount of its order if it redeems.
LEMMA AppendSums ==
    ASSUME AfterTypes, AfterTypes', NEW delta \in Int, NEW type, NEW o, Append1(delta, type, o)
    PROVE  /\ Balance' = Balance + delta
           /\ \A q : IF type = "order_redemption" /\ q = o
                     THEN /\ Discount(q)' = Discount(q) + delta
                          /\ \E n : Redemptions(q)' = Redemptions(q) \cup {n}
                     ELSE Discount(q)' = Discount(q) /\ Redemptions(q)' = Redemptions(q)
<1>0. PICK n : RowAppended(n, [delta |-> delta, type |-> type, order |-> o]) BY AppendedRow
<1>1. /\ DOMAIN ledger' = DOMAIN ledger \cup {n} /\ n \notin DOMAIN ledger /\ n \in LedgerRows
      /\ ledger'[n] = [delta |-> delta, type |-> type, order |-> o]
      /\ \A i \in DOMAIN ledger : ledger'[i] = ledger[i]
  BY <1>0 DEF RowAppended
<1>2. IsLedger(ledger, Orders \cup {"none"}) BY LedgerTyped
<1>3. IsLedger(ledger', Orders' \cup {"none"})
  BY AfterSalesAssumption DEF AfterTypes, IsLedger, Entry
<1>4. Balance' = Balance + delta
  <2> DEFINE a == Deltas(ledger)
             b == Deltas(ledger')
  <2>1. \A i \in LedgerRows : a[i] \in Int /\ b[i] \in Int BY <1>2, <1>3, LedgerTables
  <2>2. a[n] = 0 /\ b[n] = delta /\ \A i \in LedgerRows : i # n => b[i] = a[i] BY <1>1 DEF Deltas
  <2> HIDE DEF a, b
  <2>3. DifferAt(n, a, b, LedgerRows) BY <1>1, <2>1, <2>2 DEF DifferAt
  <2>4. SumOf(a, LedgerRows) \in Int /\ SumOf(b, LedgerRows) = SumOf(a, LedgerRows) + (b[n] - a[n])
    BY <2>3, LedgerRowsFinite, SumChanges
  <2>5. SumOf(b, LedgerRows) = SumOf(a, LedgerRows) + delta BY <2>2, <2>4
  <2> QED BY <2>5 DEF a, b, Balance
<1>5. ASSUME NEW q
      PROVE  IF type = "order_redemption" /\ q = o
             THEN Discount(q)' = Discount(q) + delta
             ELSE Discount(q)' = Discount(q)
  <2> DEFINE a == Discounts(ledger, q)
             b == Discounts(ledger', q)
             by == IF type = "order_redemption" /\ q = o THEN delta ELSE 0
  <2>1. \A i \in LedgerRows : a[i] \in Int /\ b[i] \in Int BY <1>2, <1>3, LedgerTables
  <2>2. a[n] = 0 /\ b[n] = by /\ \A i \in LedgerRows : i # n => b[i] = a[i]
    BY <1>1 DEF Discounts, Redeems
  <2> HIDE DEF a, b, by
  <2>3. DifferAt(n, a, b, LedgerRows) BY <1>1, <2>1, <2>2 DEF DifferAt
  <2>4. SumOf(a, LedgerRows) \in Int /\ SumOf(b, LedgerRows) = SumOf(a, LedgerRows) + (b[n] - a[n])
    BY <2>3, LedgerRowsFinite, SumChanges
  <2>5. by \in Int BY DEF by
  <2>6. SumOf(b, LedgerRows) = SumOf(a, LedgerRows) + by BY <2>2, <2>4, <2>5
  <2>7. Discount(q) = SumOf(a, LedgerRows) /\ Discount(q)' = SumOf(b, LedgerRows)
    BY DEF a, b, Discount
  <2> QED BY <2>4, <2>6, <2>7 DEF by
<1>6. ASSUME NEW q
      PROVE  IF type = "order_redemption" /\ q = o
             THEN Redemptions(q)' = Redemptions(q) \cup {n}
             ELSE Redemptions(q)' = Redemptions(q)
  BY <1>1 DEF Redemptions, Entries
<1>7. \A q : IF type = "order_redemption" /\ q = o
             THEN /\ Discount(q)' = Discount(q) + delta
                  /\ \E k : Redemptions(q)' = Redemptions(q) \cup {k}
             ELSE Discount(q)' = Discount(q) /\ Redemptions(q)' = Redemptions(q)
  BY <1>5, <1>6
<1> QED BY <1>4, <1>7

-------------------------------------------------------------------------------
(* AfterSales: points and discounts                                            *)

\* The customer's row is locked by one redemption at a time, and what it has read is
\* still so when it writes.
LoyaltyInv ==
    /\ Balance >= 0
    /\ \A s, z \in Sessions : sess[s].op = "redeem" /\ sess[z].op = "redeem" => s = z
    /\ \A s \in Sessions, o \in Web : sess[s].op = "redeem" /\ sess[s].order = o =>
         /\ Redemptions(o) = {} /\ Balance >= sess[s].points
         /\ sess[s].subtotal = orders[o].subtotal
    /\ \A o \in Web : /\ \A i, j \in Redemptions(o) : i = j
                      /\ orders[o].subtotal = Price + Discount(o)

LEMMA LoyaltyInit == AfterSalesInit => LoyaltyInv
<1> SUFFICES ASSUME AfterSalesInit PROVE LoyaltyInv OBVIOUS
<1>1. AfterTypes BY AfterTypesInit
<1>2. ledger = <<[delta |-> OpeningPoints, type |-> "purchase_earn", order |-> "none"]>>
  BY DEF AfterSalesInit
<1>3. DOMAIN ledger = {1} /\ ledger[1].delta = OpeningPoints /\ ledger[1].type = "purchase_earn"
  BY <1>2
<1>4. \A s \in Sessions : sess[s].op = "none" BY DEF AfterSalesInit, NoRequest
<1>5. Balance >= 0
  <2> DEFINE h == Deltas(ledger)
             z == [i \in LedgerRows |-> 0]
  <2>1. \A i \in LedgerRows : z[i] \in Int /\ h[i] \in Int /\ z[i] <= h[i] /\ z[i] = 0
    BY <1>3, AfterSalesAssumption DEF Deltas
  <2> HIDE DEF h, z
  <2>2. SumOf(z, LedgerRows) <= SumOf(h, LedgerRows) BY <2>1, LedgerRowsFinite, SumBounds
  <2>3. SumOf(z, LedgerRows) = 0 BY <2>1, LedgerRowsFinite, SumOfNothing
  <2> QED BY <1>1, <2>2, <2>3, LedgerTyped DEF Balance, h
<1>6. \A o : Redemptions(o) = {} BY <1>3 DEF Redemptions, Entries
<1>7. ASSUME NEW o PROVE Discount(o) = 0
  <2> DEFINE h == Discounts(ledger, o)
  <2>1. \A i \in LedgerRows : h[i] = 0 BY <1>3 DEF Discounts, Redeems
  <2> HIDE DEF h
  <2>2. SumOf(h, LedgerRows) = 0 BY <2>1, LedgerRowsFinite, SumOfNothing
  <2> QED BY <2>2 DEF Discount, h
<1>8. \A o \in Web : orders[o].subtotal = Price BY DEF AfterSalesInit, Web, Orders
<1> QED BY <1>4, <1>5, <1>6, <1>7, <1>8, AfterSalesAssumption DEF LoyaltyInv

\* What the steps of the other parts leave alone.
LoyaltyAside ==
    /\ Orders' = Orders /\ ledger' = ledger
    /\ \A o \in Orders : orders'[o].subtotal = orders[o].subtotal
    /\ \A s \in Sessions : sess'[s].op = "redeem" => sess'[s] = sess[s]

LEMMA LoyaltyLeftAlone == ASSUME AfterTypes, LoyaltyInv, LoyaltyAside PROVE LoyaltyInv'
<1>1. /\ Orders' = Orders /\ ledger' = ledger
      /\ \A o \in Orders : orders'[o].subtotal = orders[o].subtotal
      /\ \A s \in Sessions : sess'[s].op = "redeem" => sess'[s] = sess[s]
  BY DEF LoyaltyAside
<1>2. Balance' = Balance /\ \A o : Discount(o)' = Discount(o) /\ Redemptions(o)' = Redemptions(o)
  BY <1>1 DEF Balance, Discount, Redemptions, Entries
<1>3. Web' = Web /\ Web \subseteq Orders BY <1>1 DEF Web
<1>4. ASSUME NEW s \in Sessions, NEW o \in Web, sess'[s].op = "redeem", sess'[s].order = o
      PROVE  /\ Redemptions(o)' = {} /\ Balance' >= sess'[s].points
             /\ sess'[s].subtotal = orders'[o].subtotal
  <2>1. sess'[s] = sess[s] BY <1>1, <1>4
  <2>2. /\ Redemptions(o) = {} /\ Balance >= sess[s].points
        /\ sess[s].subtotal = orders[o].subtotal
    BY <1>4, <2>1 DEF LoyaltyInv
  <2> QED BY <1>1, <1>2, <1>3, <2>1, <2>2
<1> QED BY <1>1, <1>2, <1>3, <1>4 DEF LoyaltyInv

LEMMA BeginRedeemKeeps ==
    ASSUME AfterTypes, LoyaltyInv, NEW s \in Sessions, NEW o \in Orders, NEW points \in 1..Price,
           BeginRedeem(s, o, points)
    PROVE  LoyaltyInv'
<1> DEFINE r == [op |-> "redeem", order |-> o, points |-> points, subtotal |-> orders[o].subtotal]
<1>1. /\ sess'[s] = r /\ (\A z \in Sessions : z # s => sess'[z] = sess[z])
      /\ \A z \in Sessions : sess[z].op # "redeem"
  BY DEF BeginRedeem, AfterTypes, PartnerLocked
<1>2. /\ Redemptions(o) = {} /\ ~(get_balance < points)
  BY DEF BeginRedeem, Refused, Redemptions
<1>3. Balance >= points
  <2>1. total_points = Balance /\ Balance \in Int /\ points \in Int /\ points > 0
    BY LedgerTyped, AfterSalesAssumption
  <2> QED BY <1>2, <2>1 DEF get_balance
<1>4. UNCHANGED <<orders, ledger>> BY DEF BeginRedeem
<1>5. /\ Balance' = Balance /\ Web' = Web
      /\ \A q : Discount(q)' = Discount(q) /\ Redemptions(q)' = Redemptions(q)
  BY <1>4 DEF Balance, Discount, Redemptions, Entries, Web, Orders
<1>6. \A y, z \in Sessions : sess'[y].op = "redeem" /\ sess'[z].op = "redeem" => y = z
  BY <1>1
<1>7. ASSUME NEW z \in Sessions, NEW q \in Web, sess'[z].op = "redeem", sess'[z].order = q
      PROVE  /\ Redemptions(q)' = {} /\ Balance' >= sess'[z].points
             /\ sess'[z].subtotal = orders'[q].subtotal
  <2>1. z = s /\ q = o BY <1>1, <1>7
  <2> QED BY <1>1, <1>2, <1>3, <1>4, <1>5, <2>1
<1> QED BY <1>4, <1>5, <1>6, <1>7 DEF LoyaltyInv

LEMMA RedeemKeeps ==
    ASSUME AfterTypes, LoyaltyInv, NEW s \in Sessions, redeem_for_order(s), AfterTypes'
    PROVE  LoyaltyInv'
<1>0. PICK o, points : o = sess[s].order /\ points = sess[s].points OBVIOUS
<1>1. /\ o \in Web /\ points \in 1..Price /\ sess[s].subtotal \in Nat /\ sess[s].op = "redeem"
  BY <1>0, RequestKinds DEF redeem_for_order, RedeemRequest
<1>2. /\ Redemptions(o) = {} /\ Balance >= points /\ sess[s].subtotal = orders[o].subtotal
      /\ orders[o].subtotal = Price + Discount(o)
  BY <1>0, <1>1 DEF LoyaltyInv
<1>3. Append1(-points, "order_redemption", o) BY <1>0 DEF redeem_for_order
<1>4. -points \in Int /\ points \in Int BY <1>1, AfterSalesAssumption
<1>5. /\ Balance' = Balance + (-points)
      /\ Discount(o)' = Discount(o) + (-points)
      /\ \E n : Redemptions(o)' = Redemptions(o) \cup {n}
      /\ \A q : q # o => Discount(q)' = Discount(q) /\ Redemptions(q)' = Redemptions(q)
  BY <1>3, <1>4, AppendSums
<1>6. Balance' >= 0 BY <1>2, <1>4, <1>5, LedgerTyped
<1>7. \A z \in Sessions : sess'[z].op # "redeem"
  <2>1. sess'[s].op = "none" /\ \A z \in Sessions : z # s => sess'[z] = sess[z]
    BY DEF redeem_for_order, Commit, AfterTypes, NoRequest
  <2> QED BY <1>1, <2>1 DEF LoyaltyInv
<1>8. Web' = Web BY DEF redeem_for_order, Web, Orders, AfterTypes
<1>9. orders'[o].subtotal = orders[o].subtotal - points
  <2>1. o \in Orders /\ orders[o] \in SaleOrder BY <1>1 DEF Web, AfterTypes
  <2>2. orders'[o] = [orders[o] EXCEPT !.subtotal = sess[s].subtotal - points]
    BY <1>0, <2>1 DEF redeem_for_order, AfterTypes
  <2> QED BY <1>2, <2>1, <2>2 DEF SaleOrder
<1>10. \A q \in Web : q # o => orders'[q] = orders[q]
  BY <1>0, <1>1 DEF redeem_for_order, AfterTypes, Web
<1>11. ASSUME NEW q \in Web
       PROVE  /\ \A i, j \in Redemptions(q)' : i = j
              /\ orders'[q].subtotal = Price + Discount(q)'
  <2>1. CASE q = o
    <3>1. Discount(o) \in Int /\ Price \in Int BY LedgerTyped, AfterSalesAssumption
    <3>2. orders'[o].subtotal = Price + Discount(o)' BY <1>2, <1>4, <1>5, <1>9, <3>1
    <3> QED BY <1>2, <1>5, <2>1, <3>2
  <2>2. CASE q # o BY <1>5, <1>10, <2>2 DEF LoyaltyInv
  <2> QED BY <2>1, <2>2
<1> QED BY <1>6, <1>7, <1>8, <1>11 DEF LoyaltyInv

\* An entry that the points on the account cover and that discounts no web order.
Adds(delta, type, q) ==
    /\ delta \in Int /\ Append1(delta, type, q) /\ Balance + delta >= 0
    /\ type = "order_redemption" => q \notin Web
    /\ delta >= 0 \/ ~PartnerLocked

\* A voucher is only given while nobody redeems, points are earned at any time.
LEMMA PointsKeep ==
    ASSUME AfterTypes, LoyaltyInv, AfterTypes',
           \/ \E points \in 1..Price : redeem_points(points)
           \/ \E o \in Orders : earn_points_for_order(o)
    PROVE  LoyaltyInv'
<1>0. \E delta, type, q : Adds(delta, type, q)
  <2>1. total_points = Balance /\ Balance \in Int BY LedgerTyped
  <2>2. ASSUME NEW points \in 1..Price, redeem_points(points)
        PROVE  Adds(-points, "order_redemption", "none")
    <3>0. points \in Int BY AfterSalesAssumption
    <3>1. Append1(-points, "order_redemption", "none") /\ ~PartnerLocked /\ get_balance >= points
      BY <2>2 DEF redeem_points
    <3>2. -points \in Int /\ Balance + (-points) >= 0 BY <2>1, <3>0, <3>1 DEF get_balance
    <3>3. "none" \notin Web BY AfterSalesAssumption DEF Web
    <3> QED BY <3>1, <3>2, <3>3 DEF Adds
  <2>3. ASSUME NEW o \in Orders, earn_points_for_order(o) PROVE Adds(1, "purchase_earn", o)
    <3>1. Append1(1, "purchase_earn", o) BY <2>3 DEF earn_points_for_order
    <3>2. Balance + 1 >= 0 BY <2>1 DEF LoyaltyInv
    <3> QED BY <3>1, <3>2 DEF Adds
  <2> QED BY <2>2, <2>3
<1>1. PICK delta, type, q : Adds(delta, type, q) BY <1>0
<1>2. /\ Balance' = Balance + delta
      /\ \A z \in Web : Discount(z)' = Discount(z) /\ Redemptions(z)' = Redemptions(z)
  BY <1>1, AppendSums DEF Adds
<1>3. UNCHANGED <<orders, sess>> /\ Web' = Web
  BY DEF redeem_points, earn_points_for_order, Web, Orders
<1>4. ASSUME NEW s \in Sessions, NEW z \in Web, sess[s].op = "redeem", sess[s].order = z
      PROVE  Balance' >= sess[s].points
  <2>1. delta >= 0 BY <1>1, <1>4 DEF PartnerLocked, Adds
  <2>2. Balance >= sess[s].points /\ Balance \in Int BY <1>4, LedgerTyped DEF LoyaltyInv
  <2>3. sess[s].points \in Int BY <1>4, RequestKinds, AfterSalesAssumption DEF RedeemRequest
  <2> QED BY <1>1, <1>2, <2>1, <2>2, <2>3 DEF Adds
<1>5. Balance' >= 0 BY <1>1, <1>2 DEF Adds
<1>6. \A s, z \in Sessions : sess'[s].op = "redeem" /\ sess'[z].op = "redeem" => s = z
  BY <1>3 DEF LoyaltyInv
<1>7. ASSUME NEW s \in Sessions, NEW z \in Web, sess'[s].op = "redeem", sess'[s].order = z
      PROVE  /\ Redemptions(z)' = {} /\ Balance' >= sess'[s].points
             /\ sess'[s].subtotal = orders'[z].subtotal
  <2>1. Redemptions(z) = {} /\ sess[s].subtotal = orders[z].subtotal
    BY <1>3, <1>7 DEF LoyaltyInv
  <2> QED BY <1>2, <1>3, <1>4, <1>7, <2>1
<1>8. \A z \in Web : /\ \A i, j \in Redemptions(z)' : i = j
                     /\ orders'[z].subtotal = Price + Discount(z)'
  BY <1>2, <1>3 DEF LoyaltyInv
<1> QED BY <1>3, <1>5, <1>6, <1>7, <1>8 DEF LoyaltyInv

\* The steps of the other parts.
LEMMA othersLeaveLoyalty ==
    ASSUME AfterTypes, \/ WarrantyStep \/ PaymentStep \/ Sell \/ UNCHANGED afterSalesVars
                       \/ \E o \in Orders : cancel(o)
                       \/ \E e \in Events : process_stripe_event(e)
    PROVE  LoyaltyAside
<1>1. CASE UNCHANGED afterSalesVars \/ Sell
  BY <1>1 DEF Sell, afterSalesVars, LoyaltyAside, Orders
<1>2. ASSUME NEW o \in Orders,
             Complete(o) \/ PaymobSucceeded(o) \/ PaymobFailed(o) \/ cancel(o)
      PROVE  LoyaltyAside
  <2>1. orders[o] \in SaleOrder BY DEF AfterTypes
  <2>2. orders'[o].subtotal = orders[o].subtotal
    <3>1. CASE Complete(o) BY <2>1, <3>1 DEF Complete, AfterTypes, SaleOrder
    <3>2. CASE PaymobSucceeded(o) BY <2>1, <3>2 DEF PaymobSucceeded, AfterTypes, SaleOrder
    <3>3. CASE PaymobFailed(o) BY <2>1, <3>3 DEF PaymobFailed, AfterTypes, SaleOrder
    <3>4. CASE cancel(o) BY <2>1, <3>4 DEF cancel, AfterTypes, SaleOrder
    <3> QED BY <1>2, <3>1, <3>2, <3>3, <3>4
  <2>3. Orders' = Orders /\ \A z \in Orders : z # o => orders'[z] = orders[z]
    BY <1>2 DEF Complete, PaymobSucceeded, PaymobFailed, cancel, Orders, AfterTypes
  <2>4. UNCHANGED <<ledger, sess>>
    BY <1>2 DEF Complete, PaymobSucceeded, PaymobFailed, cancel
  <2> QED BY <2>2, <2>3, <2>4 DEF LoyaltyAside
<1>3. ASSUME NEW s \in Sessions,
             (\E o : BeginClaim(s, o)) \/ (\E i, target : BeginReview(s, i, target))
      PROVE  LoyaltyAside
  <2>1. sess'[s].op \in {"claim", "review"} /\ \A z \in Sessions : z # s => sess'[z] = sess[z]
    BY <1>3 DEF BeginClaim, BeginReview, BeginWarranty, AfterTypes
  <2>2. UNCHANGED <<orders, ledger>>
    BY <1>3 DEF BeginClaim, BeginReview, BeginWarranty
  <2> QED BY <2>1, <2>2 DEF LoyaltyAside, Orders
<1>4. ASSUME NEW s \in Sessions, submit_claim(s) \/ review_claim(s) PROVE LoyaltyAside
  <2>1. sess'[s].op = "none" /\ \A z \in Sessions : z # s => sess'[z] = sess[z]
    BY <1>4 DEF submit_claim, review_claim, Commit, AfterTypes, NoRequest
  <2>2. UNCHANGED <<orders, ledger>> BY <1>4 DEF submit_claim, review_claim
  <2> QED BY <2>1, <2>2 DEF LoyaltyAside, Orders
<1>5. ASSUME NEW e \in Events, process_stripe_event(e) PROVE LoyaltyAside
  <2> DEFINE z == e.order
  <2>1. z \in Orders /\ UNCHANGED <<ledger, sess>> BY <1>5, EventEffect DEF Stripe
  <2>2. orders[z] \in SaleOrder BY <2>1 DEF AfterTypes
  <2>3. UNCHANGED orders \/ Pays(z) \/ Fails(z) BY <1>5, EventEffect
  <2>4. orders'[z].subtotal = orders[z].subtotal
    <3>1. CASE UNCHANGED orders BY <3>1
    <3>2. CASE Pays(z) BY <2>1, <2>2, <3>2 DEF Pays, AfterTypes, SaleOrder
    <3>3. CASE Fails(z) BY <2>1, <2>2, <3>3 DEF Fails, AfterTypes, SaleOrder
    <3> QED BY <2>3, <3>1, <3>2, <3>3
  <2>5. Orders' = Orders /\ \A y \in Orders : y # z => orders'[y] = orders[y]
    BY <2>3 DEF Pays, Fails, Orders, AfterTypes
  <2> QED BY <2>1, <2>4, <2>5 DEF LoyaltyAside
<1> QED BY <1>1, <1>2, <1>3, <1>4, <1>5 DEF WarrantyStep, PaymentStep

-------------------------------------------------------------------------------
(* AfterSales: the theorems                                                    *)

AfterInv == AfterTypes /\ StripeInv /\ ClaimInv /\ LoyaltyInv

LEMMA AfterInit == AfterSalesInit => AfterInv
  BY AfterTypesInit, StripeInit, ClaimInit, LoyaltyInit DEF AfterInv

LEMMA AfterNext == AfterInv /\ [AfterSalesNext]_afterSalesVars => AfterInv'
<1> SUFFICES ASSUME AfterTypes, StripeInv, ClaimInv, LoyaltyInv, [AfterSalesNext]_afterSalesVars
             PROVE  AfterInv'
  BY DEF AfterInv
<1>1. CASE UNCHANGED afterSalesVars
  <2>1. AfterTypes'
    <3>1. OrdersKept /\ SessionsKept /\ LedgerKept BY <1>1, PartsKept DEF afterSalesVars
    <3> QED BY <1>1, <3>1, TypesFromParts DEF afterSalesVars, AfterTypes
  <2>2. StripeInv' BY <1>1, othersAreAside, StripeLeftAlone
  <2>3. ClaimInv' BY <1>1, othersLeaveClaims, ClaimsLeftAlone
  <2>4. LoyaltyInv' BY <1>1, othersLeaveLoyalty, LoyaltyLeftAlone
  <2> QED BY <2>1, <2>2, <2>3, <2>4 DEF AfterInv
<1>2. CASE LoyaltyStep
  <2>1. AfterTypes' BY <1>2, LoyaltyTypes
  <2>2. StripeInv' BY <1>2, othersAreAside, StripeLeftAlone
  <2>3. ClaimInv' BY <1>2, othersLeaveClaims, ClaimsLeftAlone
  <2>4. LoyaltyInv' BY <1>2, <2>1, BeginRedeemKeeps, RedeemKeeps, PointsKeep DEF LoyaltyStep
  <2> QED BY <2>1, <2>2, <2>3, <2>4 DEF AfterInv
<1>3. CASE WarrantyStep
  <2>1. AfterTypes' BY <1>3, WarrantyTypes DEF ClaimInv
  <2>2. StripeInv' BY <1>3, othersAreAside, StripeLeftAlone
  <2>3. ClaimInv'
    BY <1>3, BeginKeepsClaims, SubmitKeepsClaims, ReviewKeepsClaims DEF WarrantyStep
  <2>4. LoyaltyInv' BY <1>3, othersLeaveLoyalty, LoyaltyLeftAlone
  <2> QED BY <2>1, <2>2, <2>3, <2>4 DEF AfterInv
<1>4. CASE PaymentStep
  <2>1. AfterTypes' BY <1>4, OrderTypes DEF PaymentStep
  <2>2. StripeInv' BY <1>4, othersAreAside, StripeLeftAlone
  <2>3. ClaimInv' BY <1>4, othersLeaveClaims, ClaimsLeftAlone
  <2>4. LoyaltyInv' BY <1>4, othersLeaveLoyalty, LoyaltyLeftAlone
  <2> QED BY <2>1, <2>2, <2>3, <2>4 DEF AfterInv
<1>5. CASE \E o \in Orders : cancel(o)
  <2>1. AfterTypes' BY <1>5, OrderTypes
  <2>2. StripeInv' BY <1>5, cancelKeepsStripe
  <2>3. ClaimInv' BY <1>5, othersLeaveClaims, ClaimsLeftAlone
  <2>4. LoyaltyInv' BY <1>5, othersLeaveLoyalty, LoyaltyLeftAlone
  <2> QED BY <2>1, <2>2, <2>3, <2>4 DEF AfterInv
<1>6. CASE Sell \/ \E e \in Events : process_stripe_event(e)
  <2>1. AfterTypes' BY <1>6, StripeTypes
  <2>2. StripeInv' BY <1>6, SellKeepsStripe, eventKeepsStripe
  <2>3. ClaimInv' BY <1>6, othersLeaveClaims, ClaimsLeftAlone
  <2>4. LoyaltyInv' BY <1>6, othersLeaveLoyalty, LoyaltyLeftAlone
  <2> QED BY <2>1, <2>2, <2>3, <2>4 DEF AfterInv
<1> QED BY <1>1, <1>2, <1>3, <1>4, <1>5, <1>6, StepKinds

\* AfterInv: the types of orders, ledger, claims and requests; a request that holds the
\* customer's row, or is alone on a warranty, still knows what it read
\* (modules/loyalty/service.py, modules/warranty/service.py, integrations/stripe/webhooks.py).
THEOREM AfterSalesAlways == AfterSalesSpec => []AfterInv
<1> QED BY AfterInit, AfterNext, PTL DEF AfterSalesSpec

\* A set without two elements has one at most.
LEMMA AtMostOne ==
    ASSUME NEW S, \A i, j \in S : i = j
    PROVE  Cardinality(S) <= 1
<1>1. CASE S = {} BY <1>1, FS_EmptySet
<1>2. ASSUME NEW i \in S PROVE Cardinality(S) <= 1
  <2>1. S = {i} BY <1>2
  <2>2. Cardinality({i}) = 1 BY FS_Singleton
  <2> QED BY <2>1, <2>2
<1> QED BY <1>1, <1>2

LEMMA LoyaltyGives == AfterInv => PointsAreCovered
<1> SUFFICES ASSUME AfterTypes, LoyaltyInv PROVE PointsAreCovered BY DEF AfterInv
<1>1. total_points >= 0 BY LedgerTyped DEF LoyaltyInv
<1>2. ASSUME NEW o \in Web
      PROVE  /\ Cardinality(Redemptions(o)) <= 1
             /\ orders[o].subtotal
                  = Price + MapThenSumSet(LAMBDA i : ledger[i].delta, Redemptions(o))
  <2>1. Cardinality(Redemptions(o)) <= 1 BY AtMostOne DEF LoyaltyInv
  <2>2. Redemptions(o) = {i \in DOMAIN ledger : Redeems(ledger, i, o)}
    BY DEF Redemptions, Entries, Redeems
  <2>3. MapThenSumSet(LAMBDA i : ledger[i].delta, Redemptions(o)) = Discount(o)
    BY <2>2, LedgerTyped, DiscountIsSum DEF Discount
  <2> QED BY <2>1, <2>3 DEF LoyaltyInv
<1> QED BY <1>1, <1>2 DEF PointsAreCovered

\* PointsAreCovered: the points on the ledger never go below zero, and an order is
\* discounted once at most, by exactly the points its entry took, however redemptions,
\* vouchers, payments and cancellations interleave (modules/loyalty/service.py:158-291).
THEOREM PointsStayCovered == AfterSalesSpec => []PointsAreCovered
<1> QED BY AfterSalesAlways, LoyaltyGives, PTL

\* StripeUnitsAccounted: whatever the order and repetition of Stripe's events, each unit is
\* on the shelf, sold, or withheld for a Stripe order, unless staff cancelled an order that
\* a failure had released (integrations/stripe/webhooks.py:361-478).
THEOREM StripeUnitsStayAccounted == AfterSalesSpec => []StripeUnitsAccounted
<1>1. AfterInv => StripeUnitsAccounted
  BY DEF AfterInv, StripeInv, StripeUnitsAccounted, Withheld
<1> QED BY <1>1, AfterSalesAlways, PTL

\* OneActiveClaim: a line of an order has one open or approved claim at most, unless two
\* warranty requests on it overlapped (modules/warranty/service.py:155-165).
THEOREM ClaimsStayAlone == AfterSalesSpec => []OneActiveClaim
<1>1. AfterInv => OneActiveClaim
  <2> SUFFICES ASSUME ClaimInv, NEW o \in Web \ contested PROVE Cardinality(Active(o)) <= 1
    BY DEF AfterInv, OneActiveClaim
  <2>1. OneAtATime(o) BY DEF ClaimInv, Web
  <2> QED BY <2>1, AtMostOne DEF OneAtATime
<1> QED BY <1>1, AfterSalesAlways, PTL

LEMMA PaidStays ==
    ASSUME AfterInv, [AfterSalesNext]_afterSalesVars, NEW o \in Stripe, orders[o].payment = "paid"
    PROVE  \/ orders'[o].payment = "paid" /\ orders'[o].released = orders[o].released
           \/ orders'[o].payment = "refund_requested"
<1>0. AfterTypes /\ o \in Orders /\ o \notin Web /\ orders[o] \in SaleOrder
  BY AfterSalesAssumption DEF AfterInv, AfterTypes, Stripe, Web
<1>1. CASE UNCHANGED orders BY <1>1
<1>2. CASE \E s \in Sessions : redeem_for_order(s)
  <2>1. PICK s \in Sessions : redeem_for_order(s) BY <1>2
  <2>2. sess[s].order # o BY <1>0, <2>1, RequestKinds DEF redeem_for_order, RedeemRequest
  <2>3. orders'[o] = orders[o] BY <1>0, <2>1, <2>2 DEF redeem_for_order, AfterTypes
  <2> QED BY <2>3
<1>3. CASE PaymentStep
  <2>1. PICK z \in Web : \E q : orders' = [orders EXCEPT ![z] = q]
    BY <1>3 DEF PaymentStep, Complete, PaymobSucceeded, PaymobFailed
  <2>2. orders'[o] = orders[o] BY <1>0, <2>1 DEF AfterTypes
  <2> QED BY <2>2
<1>4. ASSUME NEW z \in Orders, cancel(z)
      PROVE  orders'[o] = orders[o] \/ orders'[o].payment = "refund_requested"
  <2>1. CASE z = o BY <1>0, <1>4, <2>1 DEF cancel, AfterTypes, SaleOrder
  <2>2. CASE z # o BY <1>0, <1>4, <2>2 DEF cancel, AfterTypes
  <2> QED BY <2>1, <2>2
<1>5. ASSUME NEW e \in Events, process_stripe_event(e) PROVE orders'[o] = orders[o]
  <2>1. UNCHANGED <<orders, stock>> \/ Pays(e.order) \/ Fails(e.order) BY <1>5, EventEffect
  <2> QED BY <1>0, <2>1 DEF Pays, Fails, AfterTypes
<1>6. UNCHANGED orders \/ (\E s \in Sessions : redeem_for_order(s)) \/ PaymentStep
      \/ (\E z \in Orders : cancel(z)) \/ (\E e \in Events : process_stripe_event(e))
  <2>1. WarrantyStep => UNCHANGED orders
    BY DEF WarrantyStep, BeginClaim, BeginReview, BeginWarranty, submit_claim, review_claim
  <2>2. LoyaltyStep => UNCHANGED orders \/ \E s \in Sessions : redeem_for_order(s)
    BY DEF LoyaltyStep, BeginRedeem, redeem_points, earn_points_for_order
  <2>3. Sell \/ UNCHANGED afterSalesVars => UNCHANGED orders BY DEF Sell, afterSalesVars
  <2> QED BY <2>1, <2>2, <2>3, StepKinds
<1> QED BY <1>1, <1>2, <1>3, <1>4, <1>5, <1>6

\* A Stripe order that was paid leaves that state only for a refund, and no late, repeated
\* or reordered failure gives its unit away (integrations/stripe/webhooks.py:420-425).
THEOREM StripePaymentsAreFinal == AfterSalesSpec => StripePaidIsFinal
<1>1. AfterInv /\ [AfterSalesNext]_afterSalesVars =>
        [\A o \in Stripe : orders[o].payment = "paid" =>
           \/ orders'[o].payment = "paid" /\ orders'[o].released = orders[o].released
           \/ orders'[o].payment = "refund_requested"]_afterSalesVars
  BY PaidStays
<1> QED BY <1>1, AfterSalesAlways, PTL DEF AfterSalesSpec, StripePaidIsFinal

LEMMA ClosedStays ==
    ASSUME AfterInv, [AfterSalesNext]_afterSalesVars, NEW i \in ClaimIds,
           claims[i].status \in {"rejected", "completed"}, claims[i].order \notin contested
    PROVE  claims'[i] = claims[i]
<1>0. AfterTypes /\ ClaimInv BY DEF AfterInv
<1>1. CASE ~WarrantyStep
  <2>1. ClaimsAside BY <1>0, <1>1, StepKinds, othersLeaveClaims
  <2> QED BY <2>1 DEF ClaimsAside
<1>2. CASE WarrantyStep
  <2>1. CASE \/ \E s \in Sessions, o \in Orders : BeginClaim(s, o)
             \/ \E s \in Sessions, k \in ClaimIds :
                  \E target \in {"approved", "rejected", "completed"} : BeginReview(s, k, target)
    BY <2>1 DEF BeginClaim, BeginReview, BeginWarranty
  <2>2. ASSUME NEW s \in Sessions, submit_claim(s) PROVE claims'[i] = claims[i]
    <3>1. NextClaim # i BY <2>2, NextClaimIsFree DEF submit_claim, NoClaim
    <3> QED BY <1>0, <2>2, <3>1 DEF submit_claim, AfterTypes
  <2>3. ASSUME NEW s \in Sessions, review_claim(s) PROVE claims'[i] = claims[i]
    <3>1. PICK k : k = sess[s].claim OBVIOUS
    <3>2. k # i
      <4> SUFFICES ASSUME k = i PROVE FALSE OBVIOUS
      <4>1. sess[s].op = "review" BY <2>3 DEF review_claim
      <4>2. claims[i] \in Claim /\ claims[i].order = sess[s].order
        BY <1>0, <3>1, <4>1 DEF ClaimInv, ReviewsAreOfClaims
      <4>3. OneAtATime(sess[s].order) BY <1>0, <4>2 DEF ClaimInv, Claim
      <4>4. sess[s].target \in _RMA_TRANSITIONS[claims[i].status]
        BY <3>1, <4>1, <4>3 DEF OneAtATime
      <4> QED BY <4>4 DEF _RMA_TRANSITIONS
    <3> QED BY <1>0, <2>3, <3>1, <3>2 DEF review_claim, AfterTypes
  <2> QED BY <1>2, <2>1, <2>2, <2>3 DEF WarrantyStep
<1> QED BY <1>1, <1>2

\* A rejected or completed claim stays as it is, unless two warranty requests on its order
\* overlapped (modules/warranty/service.py:238-256).
THEOREM ClosedClaimsAreFinal == AfterSalesSpec => ClosedClaimsStayClosed
<1>1. AfterInv /\ [AfterSalesNext]_afterSalesVars =>
        [\A i \in ClaimIds :
           claims[i].status \in {"rejected", "completed"} /\ claims[i].order \notin contested
             => claims'[i] = claims[i]]_afterSalesVars
  BY ClosedStays
<1> QED BY <1>1, AfterSalesAlways, PTL DEF AfterSalesSpec, ClosedClaimsStayClosed

===============================================================================
