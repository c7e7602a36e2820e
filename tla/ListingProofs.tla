------------------------ MODULE ListingProofs -----------------------
(* Paging through the documents is right for every page size, every     *)
(* number of clients, users and documents, and every order of ids,      *)
(* timestamps and commits. The invariant says what the cursor of a walk *)
(* separates: everything shown is at it or before it, everything that   *)
(* is still to be shown comes after it.                                 *)
EXTENDS Listing, FiniteSetTheorems, TLAPS

(* The types the argument needs. *)
Typed ==
    /\ clock \in 0..MaxTime
    /\ phase \in [Docs -> Phases]
    /\ created \in [Docs -> 0..MaxTime]
    /\ org \in [Docs -> Orgs \cup {NoOrg}]
    /\ token \in [Clients -> [user : Users, exp : Nat] \cup {NoToken}]
    /\ walk \in [Clients -> Walks]

(* The documents a walk knows of are committed and of its organisation. *)
OwnCommitted(c) ==
    \A d \in Shown(c) \cup walk[c].start : phase[d] = "committed" /\ org[d] = walk[c].org

(* The cursor is at the last document shown, or after all of them.      *)
CursorBelowShown(c) ==
    walk[c].next # NoCursor =>
        \A e \in Shown(c) : walk[c].next = Key(e) \/ Less(walk[c].next, Key(e))

(* What is left of the walk comes after the cursor. *)
RestFollows(c) ==
    \A d \in walk[c].start \ Shown(c) : walk[c].next # NoCursor /\ Follows(d, walk[c].next)

(* The pages of one walk are in order. *)
InOrder(c) == \A e \in walk[c].earlier, d \in walk[c].page : Follows(d, Key(e))

WalkOK(c) == OwnCommitted(c) /\ CursorBelowShown(c) /\ RestFollows(c) /\ InOrder(c)

WalkInv == Typed /\ \A c \in Clients : WalkOK(c)

(* Row values are ordered: one precedes the other, not both, and the    *)
(* order is transitive.                                                 *)
LEMMA KeysOrdered ==
    ASSUME NEW k \in Cursors, NEW l \in Cursors, NEW m \in Cursors
    PROVE  Less(k, l) /\ Less(l, m) => Less(k, m)
<1>1. k[1] \in Nat /\ l[1] \in Nat /\ m[1] \in Nat
    BY ListingAssumption DEF Cursors
<1>2. k[2] \in Nat /\ l[2] \in Nat /\ m[2] \in Nat
    BY ListingAssumption DEF Cursors
<1> QED
    BY <1>1, <1>2 DEF Less

(* The key of a document is a cursor. *)
LEMMA KeyType == ASSUME Typed, NEW d \in Docs PROVE Key(d) \in Cursors
    BY DEF Typed, Key, Cursors

(* Uploading leaves committed documents, their organisation and their   *)
(* keys alone, and so what the walks rest on.                           *)
LEMMA WalksUnmoved ==
    ASSUME WalkInv, Typed', UNCHANGED walk,
           \A d \in Docs : phase[d] = "committed" =>
                phase'[d] = "committed" /\ org'[d] = org[d] /\ created'[d] = created[d]
    PROVE  WalkInv'
<1> SUFFICES ASSUME NEW c \in Clients PROVE WalkOK(c)'
    BY DEF WalkInv
<1>1. WalkOK(c)
    BY DEF WalkInv
<1>2. /\ walk'[c] = walk[c] /\ Shown(c)' = Shown(c)
      /\ Shown(c) \subseteq Docs /\ walk[c].start \subseteq Docs
      /\ walk[c].earlier \subseteq Shown(c) /\ walk[c].page \subseteq Shown(c)
    BY DEF WalkInv, Typed, Shown, Walks
<1>3. \A d \in Shown(c) \cup walk[c].start :
        /\ phase'[d] = "committed" /\ org'[d] = org[d] /\ Key(d)' = Key(d)
    BY <1>1, <1>2 DEF WalkOK, OwnCommitted, Key
<1>4. OwnCommitted(c)'
    BY <1>1, <1>2, <1>3 DEF WalkOK, OwnCommitted
<1>5. CursorBelowShown(c)'
    BY <1>1, <1>2, <1>3 DEF WalkOK, CursorBelowShown
<1>6. RestFollows(c)'
    BY <1>1, <1>2, <1>3 DEF WalkOK, RestFollows, Follows
<1>7. InOrder(c)'
    BY <1>1, <1>2, <1>3 DEF WalkOK, InOrder, Follows
<1> QED
    BY <1>4, <1>5, <1>6, <1>7 DEF WalkOK

(* A page takes the newest of the rows; the others follow its cursor.   *)
LEMMA PageCuts ==
    ASSUME Typed, NEW rows \in SUBSET Docs, NEW page \in SUBSET rows, NEW next,
           IsPage(rows, page, next)
    PROVE  /\ next # NoCursor => next \in Cursors
           /\ next # NoCursor =>
                \A d \in page : next = Key(d) \/ Less(next, Key(d))
           /\ \A d \in rows \ page : next # NoCursor /\ Follows(d, next)
<1>1. CASE Cardinality(rows) <= Limit /\ page = rows /\ next = NoCursor
    BY <1>1
<1>2. ASSUME NEW last \in page, next = Key(last),
             \A d \in page, e \in rows \ page : Follows(e, Key(d)),
             \A d \in page \ {last} : Follows(last, Key(d))
      PROVE  /\ next # NoCursor => next \in Cursors
             /\ next # NoCursor =>
                  \A d \in page : next = Key(d) \/ Less(next, Key(d))
             /\ \A d \in rows \ page : next # NoCursor /\ Follows(d, next)
    <2>1. next \in Cursors /\ next # NoCursor
        BY <1>2, KeyType DEF Key, NoCursor
    <2> QED
        BY <1>2, <2>1 DEF Follows
<1> QED
    BY <1>1, <1>2 DEF IsPage

(* A page from a fresh cursor, or from none, begins a walk. *)
LEMMA WalkBegins ==
    ASSUME WalkInv, NEW c \in Clients, NEW o \in Orgs, NEW after \in Held,
           NEW page \in SUBSET Matching(o, after), NEW next,
           IsPage(Matching(o, after), page, next),
           walk'[c] = [org |-> o, next |-> next, start |-> Matching(o, after),
                       earlier |-> {}, page |-> page],
           UNCHANGED <<phase, created, org>>
    PROVE  WalkOK(c)' /\ walk'[c] \in Walks
<1> DEFINE rows == Matching(o, after)
<1>1. rows \subseteq Docs /\ \A d \in rows : phase[d] = "committed" /\ org[d] = o
    BY DEF Matching
<1>2. Typed
    BY DEF WalkInv
<1> HIDE DEF rows
<1>3. /\ next # NoCursor => next \in Cursors
      /\ next # NoCursor => \A d \in page : next = Key(d) \/ Less(next, Key(d))
      /\ \A d \in rows \ page : next # NoCursor /\ Follows(d, next)
    BY <1>1, <1>2, PageCuts DEF rows
<1>4. Shown(c)' = page /\ \A d : Key(d)' = Key(d)
    BY DEF Shown, Key
<1>5. OwnCommitted(c)'
    BY <1>1, <1>4 DEF OwnCommitted, rows
<1>6. CursorBelowShown(c)'
    BY <1>3, <1>4 DEF CursorBelowShown
<1>7. RestFollows(c)'
    BY <1>3, <1>4 DEF RestFollows, Follows, rows
<1>8. InOrder(c)'
    BY DEF InOrder
<1>9. walk'[c] \in Walks
    BY <1>1, <1>3 DEF Walks, rows
<1> QED
    BY <1>5, <1>6, <1>7, <1>8, <1>9 DEF WalkOK

(* The next page of a walk. *)
LEMMA WalkGoesOn ==
    ASSUME WalkInv, NEW c \in Clients, NEW o \in Orgs, NEW after, after = walk[c].next,
           after # NoCursor, walk[c].org = o,
           NEW page \in SUBSET Matching(o, after), NEW next,
           IsPage(Matching(o, after), page, next),
           walk'[c] = [walk[c] EXCEPT !.next = next, !.earlier = @ \cup walk[c].page,
                                      !.page = page],
           UNCHANGED <<phase, created, org>>
    PROVE  WalkOK(c)' /\ walk'[c] \in Walks
<1> DEFINE rows == Matching(o, after)
<1>1. /\ rows \subseteq Docs
      /\ \A d \in rows : phase[d] = "committed" /\ org[d] = o /\ Follows(d, after)
    BY DEF Matching
<1>2. Typed /\ WalkOK(c) /\ walk[c] \in Walks
    BY DEF WalkInv, Typed
<1>3. \A d \in Docs : phase[d] = "committed" /\ org[d] = o /\ Follows(d, after) => d \in rows
    BY DEF Matching
<1> HIDE DEF rows
<1>4. /\ next # NoCursor => next \in Cursors
      /\ next # NoCursor => \A d \in page : next = Key(d) \/ Less(next, Key(d))
      /\ \A d \in rows \ page : next # NoCursor /\ Follows(d, next)
    BY <1>1, <1>2, PageCuts DEF rows
<1>5. page \subseteq rows
    BY DEF rows
<1>6. /\ walk[c].start \subseteq Docs /\ walk[c].earlier \subseteq Docs
      /\ walk[c].page \subseteq Docs /\ after \in Cursors
      /\ DOMAIN walk[c] = {"org", "next", "start", "earlier", "page"}
    BY <1>2 DEF Walks
<1>7. /\ walk'[c].org = o /\ walk'[c].next = next /\ walk'[c].start = walk[c].start
      /\ walk'[c].earlier = Shown(c) /\ walk'[c].page = page
      /\ Shown(c)' = Shown(c) \cup page
    BY <1>6 DEF Shown
<1>8. (\A d : Key(d)' = Key(d)) /\ Shown(c) \subseteq Docs
    BY <1>6 DEF Key, Shown
<1>9. \A d \in page, e \in Shown(c) : Less(Key(d), Key(e))
    <2> SUFFICES ASSUME NEW d \in page, NEW e \in Shown(c) PROVE Less(Key(d), Key(e))
        OBVIOUS
    <2>1. Less(Key(d), after)
        BY <1>1, <1>5 DEF Follows
    <2>2. after = Key(e) \/ Less(after, Key(e))
        BY <1>2 DEF WalkOK, CursorBelowShown
    <2>3. Key(d) \in Cursors /\ Key(e) \in Cursors
        BY <1>1, <1>2, <1>5, <1>8, KeyType
    <2> QED
        BY <1>6, <2>1, <2>2, <2>3, KeysOrdered
<1>10. InOrder(c)'
    BY <1>7, <1>8, <1>9 DEF InOrder, Follows
<1>11. OwnCommitted(c)'
    BY <1>1, <1>2, <1>5, <1>7 DEF WalkOK, OwnCommitted
<1>12. CursorBelowShown(c)'
    <2> SUFFICES ASSUME next # NoCursor, NEW e \in Shown(c) \cup page
                 PROVE  next = Key(e) \/ Less(next, Key(e))
        BY <1>7, <1>8 DEF CursorBelowShown
    <2>1. CASE e \in page
        BY <1>4, <2>1
    <2>2. CASE e \in Shown(c)
        <3>1. CASE page = {}
            <4>1. Cardinality(rows) <= Limit \/ \E last \in page : TRUE
                BY DEF IsPage, rows
            <4> QED
                BY <3>1, <4>1 DEF IsPage, rows
        <3>2. CASE page # {}
            <4>1. PICK last \in page : next = Key(last)
                BY <3>2 DEF IsPage
            <4> QED
                BY <1>9, <2>2, <4>1
        <3> QED
            BY <3>1, <3>2
    <2> QED
        BY <2>1, <2>2
<1>13. RestFollows(c)'
    <2> SUFFICES ASSUME NEW d \in walk[c].start, d \notin Shown(c), d \notin page
                 PROVE  next # NoCursor /\ Follows(d, next)
        BY <1>7, <1>8 DEF RestFollows, Follows
    <2>1. d \in rows
        BY <1>2, <1>3, <1>6 DEF WalkOK, OwnCommitted, RestFollows
    <2> QED
        BY <1>4, <2>1
<1>14. walk'[c] \in Walks
    BY <1>1, <1>4, <1>5, <1>6, <1>8, <1>2 DEF Walks, Shown
<1> QED
    BY <1>10, <1>11, <1>12, <1>13, <1>14 DEF WalkOK

(* Every request for a page keeps the invariant. *)
LEMMA GetPageKeeps ==
    ASSUME WalkInv, NEW c \in Clients, NEW after \in Held, GetPage(c, after)
    PROVE  WalkInv'
<1> DEFINE o == OrgOfClient(c)
           rows == Matching(o, after)
<1>1. Typed /\ UNCHANGED <<clock, phase, created, org, files, token>>
    BY DEF WalkInv, GetPage
<1>2. o \in Orgs
    BY <1>1, ListingAssumption DEF Typed, GetPage, Authenticated, OrgOfClient
<1>3. PICK page \in SUBSET rows, next \in {NoCursor} \cup {Key(d) : d \in rows} :
        /\ IsPage(rows, page, next)
        /\ walk' = [walk EXCEPT ![c] = WalkAfter(c, after, page, next)]
    BY DEF GetPage
<1>4. walk'[c] = WalkAfter(c, after, page, next)
    BY <1>1, <1>3 DEF Typed
<1>5. WalkOK(c)' /\ walk'[c] \in Walks
    <2>1. CASE GoesOn(c, after)
        BY <1>1, <1>2, <1>3, <1>4, <2>1, WalkGoesOn DEF GoesOn, WalkAfter
    <2>2. CASE ~GoesOn(c, after)
        BY <1>1, <1>2, <1>3, <1>4, <2>2, WalkBegins DEF WalkAfter
    <2> QED
        BY <2>1, <2>2
<1>6. Typed'
    BY <1>1, <1>3, <1>4, <1>5 DEF Typed
<1>7. ASSUME NEW x \in Clients, x # c PROVE WalkOK(x)'
    <2>1. walk'[x] = walk[x] /\ WalkOK(x)
        BY <1>1, <1>3, <1>7 DEF Typed, WalkInv
    <2> QED
        BY <1>1, <2>1
        DEF WalkOK, OwnCommitted, CursorBelowShown, RestFollows, InOrder, Shown, Key,
            Follows
<1> QED
    BY <1>5, <1>6, <1>7 DEF WalkInv

(* The invariant holds from the start and in every step. *)
LEMMA WalkInvHolds == Spec => []WalkInv
<1>1. Init => WalkInv
    BY ListingAssumption
    DEF Init, WalkInv, Typed, WalkOK, OwnCommitted, CursorBelowShown, RestFollows,
        InOrder, Shown, NoWalk, Walks, Phases
<1>2. WalkInv /\ [Next]_vars => WalkInv'
    <2> SUFFICES ASSUME WalkInv, [Next]_vars PROVE WalkInv'
        OBVIOUS
    <2>1. Typed
        BY DEF WalkInv
    <2>2. CASE Tick
        BY <2>1, <2>2, ListingAssumption, WalksUnmoved DEF Tick, Typed
    <2>3. ASSUME NEW c \in Clients, NEW u \in Users, Login(c, u) PROVE WalkInv'
        <3>1. clock + Lifetime \in Nat
            BY <2>1, ListingAssumption DEF Typed
        <3> QED
            BY <2>1, <2>3, <3>1, WalksUnmoved DEF Login, Typed
    <2>4. ASSUME NEW c \in Clients, NEW d \in Docs, Begin(c, d) PROVE WalkInv'
        <3>1. OrgOfClient(c) \in Orgs
            BY <2>1, <2>4, ListingAssumption DEF Typed, Begin, Authenticated, OrgOfClient
        <3>2. Typed'
            BY <2>1, <2>4, <3>1 DEF Begin, Typed, Phases
        <3> QED
            BY <2>1, <2>4, <3>2, WalksUnmoved DEF Begin, Typed
    <2>5. ASSUME NEW d \in Docs, SaveFile(d) \/ Commit(d) \/ Abort(d) PROVE WalkInv'
        <3>1. Typed'
            BY <2>1, <2>5 DEF SaveFile, Commit, Abort, Typed, Phases
        <3> QED
            BY <2>1, <2>5, <3>1, WalksUnmoved DEF SaveFile, Commit, Abort, Typed
    <2>6. CASE UNCHANGED vars
        BY <2>1, <2>6, WalksUnmoved DEF vars, Typed
    <2> QED
        BY <2>2, <2>3, <2>4, <2>5, <2>6, GetPageKeeps DEF Next
<1> QED
    BY <1>1, <1>2, PTL DEF Spec

(* Whoever follows the cursors to the end has been shown every document *)
(* that was committed before the walk began.                            *)
THEOREM NothingSkipped == Spec => []WalkComplete
<1>1. WalkInv => WalkComplete
    BY DEF WalkInv, WalkOK, RestFollows, WalkComplete
<1> QED
    BY <1>1, WalkInvHolds, PTL

(* Nothing is shown twice: each page is older than all pages before it. *)
THEOREM NothingRepeated == Spec => []PagesInOrder
<1>1. WalkInv => PagesInOrder
    BY DEF WalkInv, WalkOK, InOrder, PagesInOrder
<1> QED
    BY <1>1, WalkInvHolds, PTL

(* No walk shows a document of another organisation. *)
THEOREM TenantsApart == Spec => []TenantScoped
<1>1. WalkInv => TenantScoped
    BY DEF WalkInv, WalkOK, OwnCommitted, TenantScoped
<1> QED
    BY <1>1, WalkInvHolds, PTL

(* An upload that has got as far as its commit has stored its file, and *)
(* no step removes a file.                                              *)
StoredFirst == \A d \in Docs : phase[d] \in {"saved", "committed"} => d \in files

(* No document is visible without its file. *)
THEOREM FileComesFirst == Spec => []CommittedHasFile
<1>1. Init => StoredFirst
    BY DEF Init, StoredFirst
<1>2. Typed /\ StoredFirst /\ [Next]_vars => StoredFirst'
    <2> SUFFICES ASSUME Typed, StoredFirst, [Next]_vars, NEW e \in Docs,
                        phase'[e] \in {"saved", "committed"}
                 PROVE  e \in files'
        BY DEF StoredFirst
    <2>1. phase \in [Docs -> Phases]
        BY DEF Typed
    <2>2. CASE Tick \/ UNCHANGED vars
        BY <2>2 DEF Tick, vars, StoredFirst
    <2>3. ASSUME NEW c \in Clients, NEW u \in Users, Login(c, u) PROVE e \in files'
        BY <2>3 DEF Login, StoredFirst
    <2>4. ASSUME NEW c \in Clients, NEW after \in Held, GetPage(c, after) PROVE e \in files'
        BY <2>4 DEF GetPage, StoredFirst
    <2>5. ASSUME NEW c \in Clients, NEW d \in Docs, Begin(c, d) PROVE e \in files'
        BY <2>1, <2>5 DEF Begin, StoredFirst
    <2>6. ASSUME NEW d \in Docs, SaveFile(d) PROVE e \in files'
        BY <2>1, <2>6 DEF SaveFile, StoredFirst
    <2>7. ASSUME NEW d \in Docs, Commit(d) PROVE e \in files'
        BY <2>1, <2>7 DEF Commit, StoredFirst
    <2>8. ASSUME NEW d \in Docs, Abort(d) PROVE e \in files'
        BY <2>1, <2>8 DEF Abort, StoredFirst
    <2> QED
        BY <2>2, <2>3, <2>4, <2>5, <2>6, <2>7, <2>8 DEF Next
<1>3. WalkInv => Typed
    BY DEF WalkInv
<1>4. StoredFirst => CommittedHasFile
    BY DEF StoredFirst, CommittedHasFile
<1> QED
    BY <1>1, <1>2, <1>3, <1>4, WalkInvHolds, PTL DEF Spec


(* No page is longer than the limit, and only documents have files. *)
PagesShort ==
    /\ files \subseteq Docs
    /\ \A c \in Clients : Cardinality(walk[c].page) <= Limit

(* Every variable keeps its type, and no client gets a longer page than *)
(* it asked for, however many rows match: the row that is fetched to    *)
(* see whether more follow is not returned.                             *)
THEOREM PagesTyped == Spec => []TypeOK
<1>1. Init => PagesShort
    <2>1. Cardinality({}) = 0 /\ 0 <= Limit
        BY FS_EmptySet, ListingAssumption
    <2>2. Init => files = {} /\ \A c \in Clients : walk[c].page = {}
        BY DEF Init, NoWalk
    <2> QED
        BY <2>1, <2>2 DEF PagesShort
<1>2. Typed /\ PagesShort /\ [Next]_vars => PagesShort'
    <2> SUFFICES ASSUME Typed, PagesShort, [Next]_vars
                 PROVE  PagesShort'
        OBVIOUS
    <2>1. files' \subseteq Docs
        BY DEF PagesShort, Next, Tick, Login, Begin, SaveFile, Commit, Abort, GetPage, vars
    <2>2. ASSUME NEW c \in Clients, NEW after \in Held, GetPage(c, after), NEW x \in Clients
          PROVE  Cardinality(walk'[x].page) <= Limit
        <3> DEFINE rows == Matching(OrgOfClient(c), after)
        <3>1. PICK page \in SUBSET rows, next \in {NoCursor} \cup {Key(d) : d \in rows} :
                /\ IsPage(rows, page, next)
                /\ walk' = [walk EXCEPT ![c] = WalkAfter(c, after, page, next)]
            BY <2>2 DEF GetPage
        <3>2. Cardinality(page) <= Limit
            BY <3>1, ListingAssumption DEF IsPage
        <3>3. WalkAfter(c, after, page, next).page = page
            BY DEF WalkAfter, Typed, Walks
        <3>4. walk'[x] = walk[x] \/ walk'[x].page = page
            BY <3>1, <3>3 DEF Typed
        <3> QED
            BY <3>2, <3>4 DEF PagesShort
    <2>3. CASE UNCHANGED walk
        BY <2>1, <2>3 DEF PagesShort
    <2> QED
        BY <2>1, <2>2, <2>3
        DEF Next, Tick, Login, Begin, SaveFile, Commit, Abort, vars, PagesShort
<1>3. WalkInv => Typed
    BY DEF WalkInv
<1>4. Typed /\ PagesShort => TypeOK
    BY DEF Typed, PagesShort, TypeOK
<1> QED
    BY <1>1, <1>2, <1>3, <1>4, WalkInvHolds, PTL DEF Spec

====
