--------------------------- MODULE Listing --------------------------
(* The documents of the organisations and the clients that page through *)
(* them: GET /documents (app/api/documents.py, list_documents,          *)
(* list_org_documents, app/pagination.py) while others upload, under    *)
(* the bearer tokens of app/auth.py. The steps of the documents are     *)
(* another matter, Pipeline's.                                          *)
EXTENDS FiniteSets, Naturals

CONSTANTS
    Docs,           \* document ids; a uuid is a 128 bit number
    Orgs, NoOrg,
    Users, OrgOf,   \* the seeded users and the organisation of each
    Clients, NoToken,
    Limit,          \* the page size the clients ask for
    Lifetime,       \* jwt_expire_minutes
    Leeway,         \* jwt_leeway_seconds
    MaxTime         \* bound: the clock stops there

ASSUME ListingAssumption ==
    /\ Docs \subseteq Nat
    /\ OrgOf \in [Users -> Orgs] /\ NoOrg \notin Orgs
    /\ Limit \in Nat \ {0}
    /\ Lifetime \in Nat /\ Leeway \in Nat /\ MaxTime \in Nat

VARIABLES
    clock,          \* now
    phase,          \* how far each document's upload is
    created,        \* document.created_at
    org,            \* document.org_id
    files,          \* documents whose bytes are in the storage
    token,          \* the bearer token of each client
    walk            \* the pages each client has fetched

vars == <<clock, phase, created, org, files, token, walk>>

Phases == {"absent", "begun", "saved", "committed", "aborted"}

(* A cursor is the sort key (created_at, id) of a row, and None the     *)
(* lack of one: for the first page, and after the last.                 *)
Cursors == (0..MaxTime) \X Docs
NoCursor == <<>>

(* Comparison of row values. *)
Less(k, l) == k[1] < l[1] \/ (k[1] = l[1] /\ k[2] < l[2])

Key(d) == <<created[d], d>>

(* Newest first, so the rows after a cursor have smaller keys. *)
Follows(d, cursor) == Less(Key(d), cursor)

Walks ==
    [org : Orgs \cup {NoOrg}, next : Cursors \cup {NoCursor},
     start : SUBSET Docs, earlier : SUBSET Docs, page : SUBSET Docs]

NoWalk ==
    [org |-> NoOrg, next |-> NoCursor, start |-> {}, earlier |-> {}, page |-> {}]

Init ==
    /\ clock = 0
    /\ phase = [d \in Docs |-> "absent"]
    /\ created = [d \in Docs |-> 0]
    /\ org = [d \in Docs |-> NoOrg]
    /\ files = {}
    /\ token = [c \in Clients |-> NoToken]
    /\ walk = [c \in Clients |-> NoWalk]

Tick ==
    /\ clock < MaxTime
    /\ clock' = clock + 1
    /\ UNCHANGED <<phase, created, org, files, token, walk>>

(* POST /auth/login of a seeded user: create_access_token. *)
Login(c, u) ==
    /\ token' = [token EXCEPT ![c] = [user |-> u, exp |-> clock + Lifetime]]
    /\ UNCHANGED <<clock, phase, created, org, files, walk>>

(* get_current_user: an expired token is accepted during the leeway. *)
Authenticated(c) == token[c] # NoToken /\ token[c].exp + Leeway > clock

OrgOfClient(c) == OrgOf[token[c].user]

(* create_document. The request's transaction starts when its user is   *)
(* read, and that is the created_at of the row inserted later; the id   *)
(* is random, so it has nothing to do with the order of the uploads.    *)
Begin(c, d) ==
    /\ Authenticated(c) /\ phase[d] = "absent"
    /\ phase' = [phase EXCEPT ![d] = "begun"]
    /\ created' = [created EXCEPT ![d] = clock]
    /\ org' = [org EXCEPT ![d] = OrgOfClient(c)]
    /\ UNCHANGED <<clock, files, token, walk>>

SaveFile(d) ==
    /\ phase[d] = "begun"
    /\ phase' = [phase EXCEPT ![d] = "saved"]
    /\ files' = files \cup {d}
    /\ UNCHANGED <<clock, created, org, token, walk>>

(* Mutant: the rows are committed before the bytes are stored. *)
CommitFirst(d) ==
    /\ phase[d] \in {"begun", "saved"}
    /\ phase' = [phase EXCEPT ![d] = "committed"]
    /\ UNCHANGED <<clock, created, org, files, token, walk>>

Commit(d) ==
    /\ phase[d] = "saved"
    /\ phase' = [phase EXCEPT ![d] = "committed"]
    /\ UNCHANGED <<clock, created, org, files, token, walk>>

(* The process dies, or the storage or the database raises: the         *)
(* transaction is rolled back, a stored file stays behind.              *)
Abort(d) ==
    /\ phase[d] \in {"begun", "saved"}
    /\ phase' = [phase EXCEPT ![d] = "aborted"]
    /\ UNCHANGED <<clock, created, org, files, token, walk>>

(* Mutant: the query after a cursor forgets the tenant. *)
MatchingAnyOrg(o, after) ==
    {d \in Docs : /\ phase[d] = "committed"
                  /\ IF after = NoCursor THEN org[d] = o ELSE Follows(d, after)}

(* Mutants: the id does not break ties, or the cursor's own row follows *)
(* it too.                                                              *)
MatchingByTime(o, after) ==
    {d \in Docs : /\ phase[d] = "committed" /\ org[d] = o
                  /\ after # NoCursor => created[d] < after[1]}
MatchingFrom(o, after) ==
    {d \in Docs : /\ phase[d] = "committed" /\ org[d] = o
                  /\ after # NoCursor => Follows(d, after) \/ Key(d) = after}

(* The rows of list_org_documents, before its LIMIT. *)
Matching(o, after) ==
    {d \in Docs : /\ phase[d] = "committed" /\ org[d] = o
                  /\ after # NoCursor => Follows(d, after)}

(* Mutant: the row fetched to see whether more follow is returned too. *)
IsLongPage(rows, page, next) ==
    \/ Cardinality(rows) <= Limit /\ page = rows /\ next = NoCursor
    \/ /\ Cardinality(rows) > Limit
       /\ page \subseteq rows /\ Cardinality(page) = Limit + 1
       /\ \A d \in page, e \in rows \ page : Follows(e, Key(d))
       /\ \E last \in page :
             next = Key(last) /\ \A d \in page \ {last} : Follows(last, Key(d))

(* list_documents: the newest rows up to the limit, and the key of the  *)
(* last one if a further row was fetched.                               *)
IsPage(rows, page, next) ==
    \/ Cardinality(rows) <= Limit /\ page = rows /\ next = NoCursor
    \/ /\ Cardinality(rows) > Limit
       /\ page \subseteq rows /\ Cardinality(page) = Limit
       /\ \A d \in page, e \in rows \ page : Follows(e, Key(d))
       /\ \E last \in page :
             next = Key(last) /\ \A d \in page \ {last} : Follows(last, Key(d))

(* Cursors clients may send: their own, or one passed on to them. A     *)
(* cursor is not bound to a user; a malformed one gets a 400.           *)
Held == {NoCursor} \cup {walk[c].next : c \in Clients}

(* The client asks for the rows its walk has not reached yet. *)
GoesOn(c, after) ==
    after # NoCursor /\ after = walk[c].next /\ walk[c].org = OrgOfClient(c)

(* A walk is a sequence of pages, each from the cursor of the one       *)
(* before; start is what its first query could see.                     *)
WalkAfter(c, after, page, next) ==
    IF GoesOn(c, after)
    THEN [walk[c] EXCEPT !.next = next, !.earlier = @ \cup walk[c].page, !.page = page]
    ELSE [org |-> OrgOfClient(c), next |-> next, start |-> Matching(OrgOfClient(c), after),
          earlier |-> {}, page |-> page]

(* GET /documents *)
GetPage(c, after) ==
    /\ Authenticated(c)
    /\ LET rows == Matching(OrgOfClient(c), after)
       IN  \E page \in SUBSET rows, next \in {NoCursor} \cup {Key(d) : d \in rows} :
             /\ IsPage(rows, page, next)
             /\ walk' = [walk EXCEPT ![c] = WalkAfter(c, after, page, next)]
    /\ UNCHANGED <<clock, phase, created, org, files, token>>

Next ==
    \/ Tick
    \/ \E c \in Clients, u \in Users : Login(c, u)
    \/ \E c \in Clients, d \in Docs : Begin(c, d)
    \/ \E d \in Docs : SaveFile(d) \/ Commit(d) \/ Abort(d)
    \/ \E c \in Clients, after \in Held : GetPage(c, after)

Spec == Init /\ [][Next]_vars

----
Shown(c) == walk[c].earlier \cup walk[c].page

(* Every variable keeps its type, and no page is longer than asked for. *)
TypeOK ==
    /\ clock \in 0..MaxTime
    /\ phase \in [Docs -> Phases]
    /\ created \in [Docs -> 0..MaxTime]
    /\ org \in [Docs -> Orgs \cup {NoOrg}]
    /\ files \subseteq Docs
    /\ token \in [Clients -> [user : Users, exp : Nat] \cup {NoToken}]
    /\ walk \in [Clients -> Walks]
    /\ \A c \in Clients : Cardinality(walk[c].page) <= Limit

(* Who follows the cursors to the end has been shown every document     *)
(* that was committed when the walk began, although rows with equal or  *)
(* earlier timestamps are committed while it goes on.                   *)
WalkComplete ==
    \A c \in Clients : walk[c].next = NoCursor => walk[c].start \subseteq Shown(c)

(* A later page has only older documents: nothing is shown twice, and   *)
(* the walk is newest first from end to end.                            *)
PagesInOrder ==
    \A c \in Clients : \A e \in walk[c].earlier, d \in walk[c].page : Follows(d, Key(e))

(* A walk shows documents of one organisation only, whoever's cursor it *)
(* was resumed from and whatever token the client had before.           *)
TenantScoped == \A c \in Clients : \A d \in Shown(c) : org[d] = walk[c].org

(* A document that clients can see has its file, wherever its upload or *)
(* another one was interrupted.                                         *)
CommittedHasFile == \A d \in Docs : phase[d] = "committed" => d \in files

====
