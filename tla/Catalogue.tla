------------------------------- MODULE Catalogue -------------------------------
(***************************************************************************)
(* The staff's catalogue of one product: its publication, its images and   *)
(* their files, the category tree, the attribute values and the search     *)
(* index.                                                                  *)
(*                                                                         *)
(* The product routes read the product for the audit before they lock it,  *)
(* and the row already loaded is not read again under the lock: an edit    *)
(* decides on what it read at its Begin, and writes only the columns its   *)
(* request changes.  Names, prices and texts are left out; stock is in     *)
(* Inventory.                                                              *)
(***************************************************************************)
EXTENDS Integers, FiniteSets

CONSTANTS
    Desks,       \* the sets of topics staff may be working on, with or without "search"
    Suppliers,
    Images,      \* images and their files
    Categories,
    NoCategory,  \* the parent of a root
    Absent,      \* the parent of a category that is not there yet
    Edits,       \* the bodies of product updates: [active, dropship, category], each
                 \* a set of one value or, for a field that is not sent, the empty set
    OdooProducts, \* the bodies of Odoo's product events, as far as they matter here
    Sessions     \* requests and tasks in flight at once

\* What requests may overlap on; the tasks of the search index are no requests.
Topics == {"product", "media", "categories", "attributes"}
Types  == {"text", "number"}

ASSUME CatalogueAssumption ==
    /\ OdooProducts \subseteq [exists : {TRUE}, active : BOOLEAN, dropship : BOOLEAN, category : BOOLEAN]
    /\ Desks \subseteq SUBSET (Topics \cup {"search"})
    /\ IsFiniteSet(Categories) /\ {NoCategory, Absent} \cap Categories = {} /\ NoCategory # Absent
    /\ \A e \in Edits : \A value \in {e.active, e.dropship, e.category} :
         value \subseteq BOOLEAN /\ Cardinality(value) <= 1

VARIABLES
    desk,       \* the topics of this run
    product,    \* ProductTemplate, its category only as there or not
    content,    \* ProductCatalogContent.publication_status, "draft" also for an archived
                \* one: the code tells them apart in a date only
    links,      \* ProductSupplier
    verified,   \* suppliers that are active and verified
    images,     \* ProductImage; the order among them is left open, a request may set any
    files,      \* the media store
    parent,     \* ProductCategory.parent_id
    attribute,  \* ProductAttributeDefinition.data_type and the value the product has
    listed,     \* whether the search index has the product
    queued,     \* whether an event of the product waits in the outbox or as a task
    outdated,   \* history: index tasks that read the product before it last changed
    entry,      \* history: what the index has of the last change: "due", "done", or
                \* "lost" when a task gave up or an outdated one overwrote it
    sess,       \* the requests and tasks in flight and what each has read
    raced,      \* history: topics of which two requests were in flight at once
    unchecked,  \* history: Odoo, or an edit of a supplier, changed the sourcing
    lost,       \* history: files the older image route deleted before its commit
    leaked      \* history: files whose request crashed, or the older route left

catalogueVars == <<desk, product, content, links, verified, images, files, parent, attribute,
          listed, queued, outdated, entry, sess, raced, unchecked, lost, leaked>>
productVars  == <<product, content, links, verified, unchecked>>
mediaVars    == <<images, files, lost, leaked>>
treeVars     == <<parent, attribute>>
searchVars   == <<listed, queued, outdated, entry>>

Free   == [op |-> "none", topic |-> "none"]
NoLink == [active |-> FALSE, primary |-> FALSE]

CatalogueInit ==
    /\ desk \in Desks
    /\ product = [exists |-> "product" \notin desk,
                  active |-> FALSE, dropship |-> FALSE, category |-> FALSE]
    /\ content = "none"
    /\ links = [s \in Suppliers |-> NoLink]
    /\ verified = {}
    /\ images \in {{}} \cup {{[id |-> i, primary |-> TRUE]} : i \in Images}
    /\ files = {i.id : i \in images} /\ lost = {} /\ leaked = {}
    /\ parent = [c \in Categories |-> Absent]
    /\ attribute = [type |-> "text", value |-> "none"]
    /\ listed = FALSE /\ queued = FALSE /\ outdated = {} /\ entry = "done"
    /\ sess = [s \in Sessions |-> Free]
    /\ raced = {} /\ unchecked = FALSE

Busy(topic)     == \E s \in Sessions : sess[s].topic = topic
Begin(s, topic, r) ==
    /\ topic \in desk /\ sess[s] = Free
    /\ sess' = [sess EXCEPT ![s] = r]
    /\ raced' = raced \cup {t \in {topic} : Busy(t)}

\* Every exception before the commit; a file stored by the catalogue route is
\* removed once the transaction is rolled back.
Commit(s) == sess' = [sess EXCEPT ![s] = Free]
Rollback(s) ==
    /\ sess[s].op \in {"edit", "content", "reorder", "remove", "move", "define", "replace"}
    /\ Commit(s)
    /\ UNCHANGED <<desk, productVars, mediaVars, treeVars, searchVars, raced>>

-------------------------------------------------------------------------------
(* Publication.  A definition named faulty_* is no part of the code: it is the *)
(* one after it with a plausible slip, used to see that the properties notice. *)

\* A verified supplier is mapped, the primary one if the product is drop-shipped.
Sourced(dropship) == \E s \in verified : links[s].active /\ (dropship => links[s].primary)

\* What GET /products and the older search show a customer.
list_products == product.exists /\ product.active

Indexing == {s \in Sessions : sess[s].op = "index"}

Edited(p) ==
    /\ product' = p
    /\ outdated' = Indexing /\ entry' = "due"
    /\ UNCHANGED <<listed, raced>>

\* Every handler that writes the product publishes an event in its transaction.
Changed(p) == Edited(p) /\ queued' = TRUE

create_product(dropship, category) ==
    /\ "product" \in desk /\ ~product.exists
    /\ Changed([exists |-> TRUE, active |-> FALSE, dropship |-> dropship, category |-> category])
    /\ UNCHANGED <<desk, content, links, verified, unchecked, mediaVars, treeVars, sess>>

BeginUpdate(s, e) ==
    /\ product.exists
    /\ Begin(s, "product", [op |-> "edit", topic |-> "product", read |-> product, edit |-> e])
    /\ UNCHANGED <<desk, productVars, mediaVars, treeVars, searchVars>>

\* What the row holds after an edit: a column whose value is the one read is not
\* among the columns written.
Written(field, read, value) ==
    IF value \subseteq {read[field]} THEN product[field] ELSE TRUE \in value

faulty_MustBeSourced(read, e) == TRUE \in e.active /\ ~read.active

MustBeSourced(read, e) ==
    \/ TRUE \in e.active /\ ~read.active
    \/ TRUE \in e.dropship /\ ~read.dropship /\ read.active

update_product(s) ==
    /\ sess[s].op = "edit"
    /\ LET e == sess[s].edit  read == sess[s].read
           publishing == TRUE \in e.active /\ ~read.active
           dropship   == IF publishing /\ e.dropship = {} THEN read.dropship
                                                          ELSE TRUE \in e.dropship
       IN /\ MustBeSourced(read, e) => Sourced(dropship)
          /\ Changed([exists   |-> TRUE,
                      active   |-> Written("active", read, e.active),
                      dropship |-> Written("dropship", read, e.dropship),
                      category |-> Written("category", read, e.category)])
    /\ Commit(s)
    /\ UNCHANGED <<desk, content, links, verified, unchecked, mediaVars, treeVars>>

BeginDelete(s) ==
    /\ product.exists
    /\ Begin(s, "product", [op |-> "archive", topic |-> "product", active |-> product.active])
    /\ UNCHANGED <<desk, productVars, mediaVars, treeVars, searchVars>>

faulty_delete_product(s) ==
    /\ sess[s].op = "archive"
    /\ Edited([product EXCEPT !.active = @ /\ ~sess[s].active])
    /\ Commit(s)
    /\ UNCHANGED <<desk, content, links, verified, unchecked, mediaVars, treeVars, queued>>

delete_product(s) ==
    /\ sess[s].op = "archive"
    /\ Changed([product EXCEPT !.active = @ /\ ~sess[s].active])
    /\ Commit(s)
    /\ UNCHANGED <<desk, content, links, verified, unchecked, mediaVars, treeVars>>

\* Reading the content creates it when the product has none.
BeginContent(s, target) ==
    /\ product.exists
    /\ Begin(s, "product",
         [op |-> "content", topic |-> "product", read |-> product, target |-> target,
          creates |-> content = "none",
          status  |-> IF content # "none" THEN content
                      ELSE IF product.active THEN "published" ELSE "draft"])
    /\ UNCHANGED <<desk, productVars, mediaVars, treeVars, searchVars>>

Publishable(read) == read.category /\ images # {} /\ Sourced(read.dropship)

update_product_content(s) ==
    /\ sess[s].op = "content"
    /\ LET r == sess[s]
           publishing == r.target = "published" /\ r.status # "published"
       IN /\ r.creates => content = "none"
          /\ publishing => Publishable(r.read)
          /\ content' = IF r.creates \/ r.target \notin {"keep", r.status}
                        THEN IF r.target = "keep" THEN r.status ELSE r.target
                        ELSE content
          /\ Changed([product EXCEPT !.active =
               Written("active", r.read, IF r.target = "draft" THEN {FALSE}
                                         ELSE IF publishing THEN {TRUE} ELSE {})])
    /\ Commit(s)
    /\ UNCHANGED <<desk, links, verified, unchecked, mediaVars, treeVars>>

\* The link of a verified supplier; choosing a primary clears the other one.
upsert_product_supplier(s, active, primary) ==
    /\ "product" \in desk /\ product.exists
    /\ s \in verified
    /\ primary => product.dropship
    /\ links' = [t \in Suppliers |->
         IF t = s THEN [active |-> active, primary |-> primary]
         ELSE [links[t] EXCEPT !.primary = @ /\ ~primary]]
    /\ unchecked' = (unchecked \/ product.active)
    /\ UNCHANGED <<desk, product, content, verified, mediaVars, treeVars, searchVars, sess, raced>>

update_supplier(s) ==
    /\ "product" \in desk
    /\ verified' = (verified \ {s}) \cup ({s} \ verified)
    /\ unchecked' = (unchecked \/ product.active)
    /\ UNCHANGED <<desk, product, content, links, mediaVars, treeVars, searchVars, sess, raced>>

\* Odoo's product event sets everything and checks nothing; the images it carries
\* are taken only with a product it creates.
OdooCatalogueEvent(p) ==
    /\ "product" \in desk
    /\ Changed(p)
    /\ unchecked' = TRUE
    /\ UNCHANGED <<desk, content, links, verified, mediaVars, treeVars, sess>>

-------------------------------------------------------------------------------
(* Images.  The catalogue's own routes keep the media store and the table in    *)
(* step through the transaction: a removed image's file goes after the commit,  *)
(* a new one's after a rollback.  The older product routes do it themselves.    *)

Ids        == {i.id : i \in images}
Stored     == Ids \cup files \cup lost \cup leaked \cup
              UNION {{sess[s].id} : s \in {t \in Sessions : sess[t].op = "upload"}}
RowLocks(s) == UNION {sess[t].rows : t \in {u \in Sessions \ {s} : sess[u].topic = "media"}}

\* The file is stored first, then the rows are read; a new primary demotes, and
\* thereby locks, the rows there are.
BeginUpload(s, id, primary, older) ==
    /\ product.exists
    /\ id \in Images \ Stored
    /\ (primary \/ images = {}) => Ids \cap RowLocks(s) = {}
    /\ Begin(s, "media", [op |-> "upload", topic |-> "media", id |-> id, read |-> images,
                          primary |-> primary \/ images = {}, older |-> older,
                          rows |-> IF primary THEN Ids ELSE {}])
    /\ files' = files \cup {id}
    /\ UNCHANGED <<desk, productVars, images, lost, leaked, treeVars, searchVars>>

add_media(s) ==
    /\ sess[s].op = "upload"
    /\ LET r == sess[s]
           Demoted(i) == [i EXCEPT !.primary = @ /\ i.id \notin r.rows
                                               /\ ~(r.older /\ r.primary /\ r.read # {})]
       IN images' = {Demoted(i) : i \in images}
                    \cup {[id |-> r.id, primary |-> r.primary]}
    /\ Commit(s)
    /\ UNCHANGED <<desk, productVars, files, lost, leaked, treeVars, searchVars, raced>>

\* The transaction fails.  The older route removes its file only if inserting the
\* row is what failed, not if the audit or the commit did.
FailUpload(s, inserting) ==
    /\ sess[s].op = "upload"
    /\ IF sess[s].older /\ ~inserting
       THEN leaked' = leaked \cup {sess[s].id} /\ UNCHANGED files
       ELSE files' = files \ {sess[s].id} /\ UNCHANGED leaked
    /\ Commit(s)
    /\ UNCHANGED <<desk, productVars, images, lost, treeVars, searchVars, raced>>

BeginReorder(s, primary) ==
    /\ images # {} /\ primary \in Ids
    /\ Ids \cap RowLocks(s) = {}
    /\ Begin(s, "media", [op |-> "reorder", topic |-> "media", rows |-> Ids, primary |-> primary])
    /\ UNCHANGED <<desk, productVars, mediaVars, treeVars, searchVars>>

reorder_media(s) ==
    /\ sess[s].op = "reorder"
    /\ images' = {IF i.id \in sess[s].rows THEN [i EXCEPT !.primary = i.id = sess[s].primary]
                  ELSE i : i \in images}
    /\ Commit(s)
    /\ UNCHANGED <<desk, productVars, files, lost, leaked, treeVars, searchVars, raced>>

\* One of the rows that are left takes the place of a primary, read before the commit.
faulty_Replacements(i) == {{}}

Replacements(i) ==
    LET left == {j.id : j \in images \ {i}} IN
    IF i.primary /\ left # {} THEN {{j} : j \in left} ELSE {{}}

BeginRemove(s, i, promoted, older) ==
    /\ i \in images /\ promoted \in Replacements(i)
    /\ ({i.id} \cup promoted) \cap RowLocks(s) = {}
    /\ Begin(s, "media", [op |-> "remove", topic |-> "media", id |-> i.id, older |-> older,
                          promoted |-> promoted, rows |-> {i.id} \cup promoted])
    /\ IF older THEN files' = files \ {i.id} /\ lost' = lost \cup {i.id}
                ELSE UNCHANGED <<files, lost>>
    /\ UNCHANGED <<desk, productVars, images, leaked, treeVars, searchVars>>

faulty_delete_media(s) ==
    /\ sess[s].op = "remove"
    /\ images' = {[i EXCEPT !.primary = @ \/ i.id \in sess[s].promoted] :
                    i \in {j \in images : j.id # sess[s].id}}
    /\ Commit(s)
    /\ UNCHANGED <<desk, productVars, files, lost, leaked, treeVars, searchVars, raced>>

delete_media(s) ==
    /\ sess[s].op = "remove"
    /\ images' = {[i EXCEPT !.primary = @ \/ i.id \in sess[s].promoted] :
                    i \in {j \in images : j.id # sess[s].id}}
    /\ sess' = [sess EXCEPT ![s] =
         IF sess[s].older THEN Free
         ELSE [op |-> "cleanup", topic |-> "files", id |-> sess[s].id]]
    /\ UNCHANGED <<desk, productVars, files, lost, leaked, treeVars, searchVars, raced>>

\* After the commit; the store may refuse, and nothing tries again.
_cleanup_catalog_media(s, refused) ==
    /\ sess[s].op = "cleanup"
    /\ IF refused THEN leaked' = leaked \cup {sess[s].id} /\ UNCHANGED files
                  ELSE files' = files \ {sess[s].id} /\ UNCHANGED leaked
    /\ Commit(s)
    /\ UNCHANGED <<desk, productVars, images, lost, treeVars, searchVars, raced>>

\* The process stops: the database rolls back, the media store does not.
Crash(s) ==
    /\ sess[s].op \in {"upload", "remove", "cleanup"}
    /\ leaked' = leaked \cup (IF sess[s].op = "remove" THEN {} ELSE {sess[s].id})
    /\ Commit(s)
    /\ UNCHANGED <<desk, productVars, images, files, lost, treeVars, searchVars, raced>>

-------------------------------------------------------------------------------
(* The category tree and the attributes. *)

\* The ancestors of a category, itself included.
Above(c) ==
    LET up[n \in 0..Cardinality(Categories)] ==
          IF n = 0 THEN {c} ELSE up[n - 1] \cup ({parent[d] : d \in up[n - 1] \ {NoCategory}})
    IN up[Cardinality(Categories)] \ {NoCategory}

faulty__is_descendant(p, c) == p = c

_is_descendant(p, c) == c \in Above(p)

\* The roots, and below each node its children: a category on a cycle hangs below
\* no root and is in no answer.
get_category_tree ==
    LET level[n \in 0..Cardinality(Categories)] ==
          IF n = 0 THEN {c \in Categories : parent[c] = NoCategory}
          ELSE level[n - 1] \cup {c \in Categories : parent[c] \in level[n - 1]}
    IN level[Cardinality(Categories)]

Moving(c) == \E s \in Sessions : sess[s].op = "move" /\ sess[s].category = c

Existing == {c \in Categories : parent[c] # Absent}

create_category(c, p) ==
    /\ "categories" \in desk
    /\ parent[c] = Absent /\ p \in Existing \cup {NoCategory} /\ ~Moving(p)
    /\ parent' = [parent EXCEPT ![c] = p]
    /\ UNCHANGED <<desk, productVars, mediaVars, attribute, searchVars, sess, raced>>

\* update_category locks the category alone.
BeginMove(s, c, p) ==
    /\ c \in Existing /\ ~Moving(c) /\ p \in Existing \cup {NoCategory}
    /\ p # NoCategory => ~_is_descendant(p, c)
    /\ Begin(s, "categories", [op |-> "move", topic |-> "categories", category |-> c, to |-> p])
    /\ UNCHANGED <<desk, productVars, mediaVars, treeVars, searchVars>>

\* The foreign key waits for a parent that is being moved itself; of two requests
\* that wait for one another the database ends one.
update_category(s) ==
    /\ sess[s].op = "move" /\ ~Moving(sess[s].to)
    /\ parent' = [parent EXCEPT ![sess[s].category] = sess[s].to]
    /\ Commit(s)
    /\ UNCHANGED <<desk, productVars, mediaVars, attribute, searchVars, raced>>

Defining == \E s \in Sessions : sess[s].op = "define"

faulty_BeginDefine(s, type) ==
    /\ ~Defining
    /\ Begin(s, "attributes", [op |-> "define", topic |-> "attributes", type |-> type])
    /\ UNCHANGED <<desk, productVars, mediaVars, treeVars, searchVars>>

BeginDefine(s, type) ==
    /\ ~Defining
    /\ type # attribute.type => attribute.value = "none"
    /\ Begin(s, "attributes", [op |-> "define", topic |-> "attributes", type |-> type])
    /\ UNCHANGED <<desk, productVars, mediaVars, treeVars, searchVars>>

update_attribute_definition(s) ==
    /\ sess[s].op = "define"
    /\ attribute' = [attribute EXCEPT !.type = sess[s].type]
    /\ Commit(s)
    /\ UNCHANGED <<desk, productVars, mediaVars, parent, searchVars, raced>>

\* The values are checked against the definition as it is read; "none" sends no
\* value for it.
BeginReplace(s, value) ==
    /\ product.exists
    /\ value \in {"none", attribute.type}
    /\ Begin(s, "attributes", [op |-> "replace", topic |-> "attributes", value |-> value])
    /\ UNCHANGED <<desk, productVars, mediaVars, treeVars, searchVars>>

\* The foreign key of a value waits for a definition that is being changed.
replace_product_attributes(s) ==
    /\ sess[s].op = "replace" /\ (sess[s].value # "none" => ~Defining)
    /\ attribute' = [attribute EXCEPT !.value = sess[s].value]
    /\ Commit(s)
    /\ UNCHANGED <<desk, productVars, mediaVars, parent, searchVars, raced>>

-------------------------------------------------------------------------------
(* The search index.  The dispatcher of the outbox starts one task for each      *)
(* event of the product, also for those of its stock, texts and images; the      *)
(* broker may deliver a task twice.  A task loads the product in one step and    *)
(* sends it in another; a failure is retried as a whole.                         *)

\* A task that has loaded the product.
Task == [op |-> "index", topic |-> "tasks", active |-> product.active]

\* The event it is started for is the last one that waits, or there are more.
BeginIndex(s) ==
    /\ "search" \in desk /\ sess[s] = Free
    /\ queued' = FALSE \/ queued' = queued
    /\ sess' = [sess EXCEPT ![s] = Task]
    /\ UNCHANGED <<desk, productVars, mediaVars, treeVars, listed, outdated, entry, raced>>

\* An outdated task still sends what it has read, over the entry of a later one too.
index_product(s) ==
    /\ sess[s].op = "index"
    /\ listed' = sess[s].active
    /\ entry' = IF s \notin outdated THEN "done"
                ELSE IF entry = "done" THEN "lost" ELSE entry
    /\ outdated' = outdated \ {s}
    /\ Commit(s)
    /\ UNCHANGED <<desk, productVars, mediaVars, treeVars, queued, raced>>

\* The provider or the database fails: the task is retried from its start.
_retry(s) ==
    /\ sess[s].op = "index"
    /\ sess' = [sess EXCEPT ![s] = Task]
    /\ outdated' = outdated \ {s}
    /\ UNCHANGED <<desk, productVars, mediaVars, treeVars, listed, queued, entry, raced>>

\* MAX_RETRIES are exhausted, or the worker dies: the task was acknowledged before.
GiveUp(s) ==
    /\ sess[s].op = "index"
    /\ entry' = IF entry = "due" /\ s \notin outdated THEN "lost" ELSE entry
    /\ outdated' = outdated \ {s}
    /\ Commit(s)
    /\ UNCHANGED <<desk, productVars, mediaVars, treeVars, listed, queued, raced>>

\* The events that wait are dead-lettered by the outbox, or dropped by the broker.
DeadLetter ==
    /\ queued /\ queued' = FALSE
    /\ entry' = IF entry = "due" THEN "lost" ELSE entry
    /\ UNCHANGED <<desk, productVars, mediaVars, treeVars, listed, outdated, sess, raced>>

-------------------------------------------------------------------------------
Publication(s) ==
    \/ \E e \in Edits : BeginUpdate(s, e)
    \/ update_product(s)
    \/ BeginDelete(s) \/ delete_product(s)
    \/ \E target \in {"keep", "draft", "published"} : BeginContent(s, target)
    \/ update_product_content(s)

Media(s) ==
    \/ \E id \in Images, primary, older \in BOOLEAN : BeginUpload(s, id, primary, older)
    \/ add_media(s)
    \/ \E inserting \in BOOLEAN : FailUpload(s, inserting)
    \/ \E primary \in Images : BeginReorder(s, primary)
    \/ reorder_media(s)
    \/ \E i \in images, older \in BOOLEAN :
         \E promoted \in Replacements(i) : BeginRemove(s, i, promoted, older)
    \/ delete_media(s)
    \/ \E refused \in BOOLEAN : _cleanup_catalog_media(s, refused)
    \/ Crash(s)

Taxonomy(s) ==
    \/ \E c \in Categories, p \in Categories \cup {NoCategory} : BeginMove(s, c, p)
    \/ update_category(s)
    \/ \E type \in Types : BeginDefine(s, type)
    \/ update_attribute_definition(s)
    \/ \E value \in Types \cup {"none"} : BeginReplace(s, value)
    \/ replace_product_attributes(s)

Search(s) == BeginIndex(s) \/ index_product(s) \/ _retry(s) \/ GiveUp(s)

CatalogueNext ==
    \/ \E dropship, category \in BOOLEAN : create_product(dropship, category)
    \/ \E c \in Categories, p \in Categories \cup {NoCategory} : create_category(c, p)
    \/ \E s \in Suppliers, active, primary \in BOOLEAN : upsert_product_supplier(s, active, primary)
    \/ \E s \in Suppliers : update_supplier(s)
    \/ \E p \in OdooProducts : OdooCatalogueEvent(p)
    \/ DeadLetter
    \/ \E s \in Sessions :
         Publication(s) \/ Media(s) \/ Taxonomy(s) \/ Search(s) \/ Rollback(s)

CatalogueSpec == CatalogueInit /\ [][CatalogueNext]_catalogueVars

-------------------------------------------------------------------------------
(* A drop-shipped product on sale has a verified primary supplier, another one   *)
(* some verified supplier (products/service.py:315, catalog_service.py:871) --    *)
(* unless two requests for the product overlapped, or Odoo's event or an edit    *)
(* of the supplier or of its link came in, none of which looks at the product.   *)
SourcedWhileOnSale ==
    list_products /\ "product" \notin raced /\ ~unchecked => Sourced(product.dropship)

(* A product with images has one primary image, through uploads, removals and    *)
(* reorderings by both generations of routes that did not overlap                 *)
(* (catalog_service.py:443, :477, :531).                                          *)
OnePrimaryImage ==
    images # {} /\ "media" \notin raced => Cardinality({i \in images : i.primary}) = 1

(* The table and the media store agree through failed requests: every image has  *)
(* its file, but for the older route's early deletion, and a file without an     *)
(* image belongs to a request in flight, or was left by a crash, by a refusal of  *)
(* the store or by the older route (database.py:50-82, admin/router.py:331-389).  *)
FilesFollowImages ==
    /\ Ids \ files \subseteq lost
    /\ files \ Ids \subseteq leaked \cup {sess[s].id : s \in {t \in Sessions :
                                            sess[t].op \in {"upload", "cleanup"}}}

(* The storefront's tree shows every category, for no move closes a cycle, unless *)
(* two moves overlapped: then the check of each saw the other's category where it *)
(* was (catalog_service.py:295, :857; products/service.py:157).                    *)
CategoriesFormATree == "categories" \notin raced => get_category_tree = Existing

(* The value of an attribute has the type of its definition, unless requests for  *)
(* the two overlapped (catalog_service.py:366, :399).                              *)
ValuesMatchTheirDefinition ==
    "attributes" \notin raced => attribute.value \in {"none", attribute.type}

(* When no event of the product waits and no index task is at work, the index has *)
(* the product if and only if it is on sale: whatever routes changed it, each has  *)
(* left an event, and tasks that started before the last change, were retried or   *)
(* came twice are followed by one that reads it (algolia/service.py:69,            *)
(* outbox_tasks.py:111).  Left out is an index whose last event or task was given  *)
(* up, or whose last entry an outdated task overwrote.                             *)
SearchAgrees ==
    ~queued /\ Indexing = {} /\ entry # "lost" => listed = list_products

(* database.py:59 says of media "Removed/replaced objects are deleted only after   *)
(* a durable commit": an image in the table keeps its file.                        *)
EveryImageHasItsFile ==
    \A i \in images : i.id \in files \/ \E s \in Sessions : sess[s].op = "remove" /\ sess[s].id = i.id
===============================================================================
