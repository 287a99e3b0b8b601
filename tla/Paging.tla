------------------------------- MODULE Paging -------------------------------
(***************************************************************************)
(* Walking the pages of a listing while documents come and go: the users   *)
(* (BaseService.paginate), the pools of the public and of the admin        *)
(* listing and the whitelists (find a page, then count), and the join-pool *)
(* histories (BaseRepository.paginate).                                    *)
(*                                                                         *)
(* The client asks for a page and goes on to the next while the answer     *)
(* says that there is one.  Two queries of a request are two steps.        *)
(*                                                                         *)
(* MongoDB gives documents that tie on the sort key in any order, and in   *)
(* another one for the next query.                                         *)
(***************************************************************************)
EXTENDS Naturals, FiniteSets

CONSTANTS
  MaxDocs, \* documents ever created
  Instant, \* the createdAt of each
  Moving,  \* the documents that come and go during the walk
  Limit    \* documents of a page

VARIABLES
  listing, \* which listing is walked
  listed,  \* the documents its query selects
  gone,    \* documents removed for good
  ask,     \* the page asked for
  walking, \* whether the walk goes on
  found,   \* the documents the request has found, NoPage before
  total,   \* the documents it has counted, NoTotal before
  seen,    \* the documents the client has been shown
  twice,   \* those it has been shown more than once
  shown,   \* how many it has been shown, repetitions included
  steady,  \* history variable: the documents listed since the walk began
  moved    \* history variable: what happened to the listing during the walk

vars == <<listing, listed, gone, ask, walking, found, total,
          seen, twice, shown, steady, moved>>

Listings == {"users", "pools", "whitelists", "histories"}
NoPage == {0}
NoTotal == MaxDocs + 1

Docs == 1..MaxDocs

DEFAULT_PAGE == 0

\* users and whitelists sort by createdAt, pools by createdAt descending.  The
\* histories sort by created_at, which no document has: they all tie.
Before(d, e) ==
  CASE listing = "histories" -> FALSE
    [] listing = "pools" -> Instant[d] > Instant[e]
    [] OTHER -> Instant[d] < Instant[e]

totalPages(n) == (n + Limit - 1) \div Limit

\* The sets a query may give for the first k documents.
First(k) ==
  {A \in SUBSET listed :
     /\ Cardinality(A) = IF k < Cardinality(listed) THEN k ELSE Cardinality(listed)
     /\ \A a \in A, b \in listed \ A : ~Before(b, a)}

\* The pages after the first `start` documents and up to the first `end`.
From(start, end) ==
  {page \in SUBSET listed :
     \E A \in First(start) : A \cap page = {} /\ A \cup page \in First(end)}

\* Mutant: a page begins with the last document of the one before.
SliceOverlapping(page) ==
  From(IF page > 0 THEN page * Limit - 1 ELSE 0, (page + 1) * Limit)

\* docs.slice(page * limit, (page + 1) * limit), and skip and limit.
Slice(page) == From(page * Limit, (page + 1) * Limit)

\* mongoose-paginate counts from 1 and takes 0 for 1; the others count from 0.
FirstPage == IF listing = "histories" THEN 1 ELSE DEFAULT_PAGE

Find(page) ==
  IF listing = "histories" THEN Slice((IF page < 1 THEN 1 ELSE page) - 1) ELSE Slice(page)

\* Mutant: the pages of the repository are taken to be counted from 0.
HasNextTooFew(page, n) == page + 1 < totalPages(n)

HasNext(page, n) == page + 1 < totalPages(n) + FirstPage

----------------------------------------------------------------------------
Init ==
  /\ listing \in Listings
  /\ listed \in SUBSET Docs
  /\ gone = {}
  /\ ask = FirstPage
  /\ walking = TRUE
  /\ found = NoPage /\ total = NoTotal
  /\ seen = {} /\ twice = {} /\ shown = 0
  /\ steady = listed
  /\ moved = {}

\* A document is created, or comes to be selected.  It is inserted if it sorts
\* before one that is listed or was read: a page that was read would hold it.
DocumentEnters(d) ==
  /\ walking /\ d \notin listed \cup gone
  /\ listed' = listed \cup {d}
  /\ moved' = moved \cup
       {IF \E e \in Docs \cap (listed \cup seen \cup found) : Before(d, e)
        THEN "inserted" ELSE "appended"}
  /\ UNCHANGED <<listing, gone, ask, walking, found, total, seen, twice, shown, steady>>

\* Whitelists are removed, a pool's section changes with time, a history fails:
\* the last two may come back.  No route removes a user.
DocumentLeaves(d) ==
  /\ walking /\ d \in listed /\ listing # "users"
  /\ listed' = listed \ {d}
  /\ gone' = IF listing = "whitelists" THEN gone \cup {d} ELSE gone
  /\ steady' = steady \ {d}
  /\ moved' = moved \cup {"removed"}
  /\ UNCHANGED <<listing, ask, walking, found, total, seen, twice, shown>>

\* The client is shown a page, and asks for the next one or has finished.
Answer(docs, n) ==
  /\ seen' = seen \cup docs
  /\ twice' = twice \cup (seen \cap docs)
  /\ shown' = shown + Cardinality(docs)
  /\ found' = NoPage /\ total' = NoTotal
  /\ IF HasNext(ask, n) THEN ask' = ask + 1 /\ UNCHANGED walking
     ELSE walking' = FALSE /\ UNCHANGED ask
  /\ UNCHANGED <<listing, listed, gone, steady, moved>>

\* users: everything is loaded, then sliced and counted.
paginate ==
  /\ walking /\ listing = "users"
  /\ \E docs \in Find(ask) : Answer(docs, Cardinality(listed))

FindPage ==
  /\ walking /\ listing # "users" /\ found = NoPage
  /\ found' \in Find(ask)
  /\ UNCHANGED <<listing, listed, gone, ask, walking, total, seen, twice, shown, steady, moved>>

\* Mutant: an empty page is not counted.
CountDocsSkipped ==
  /\ walking /\ listing # "users" /\ total = NoTotal
  /\ found \notin {NoPage, {}} \/ listing = "histories"
  /\ total' = Cardinality(listed)
  /\ UNCHANGED <<listing, listed, gone, ask, walking, found, seen, twice, shown, steady, moved>>

\* The repository starts both queries at once.
CountDocs ==
  /\ walking /\ listing # "users" /\ total = NoTotal
  /\ found # NoPage \/ listing = "histories"
  /\ total' = Cardinality(listed)
  /\ UNCHANGED <<listing, listed, gone, ask, walking, found, seen, twice, shown, steady, moved>>

\* A count of 0 is taken for none, and the documents of the page counted instead.
totalDocs ==
  IF total = 0 /\ listing # "histories" THEN Cardinality(found) ELSE total

Respond ==
  /\ found # NoPage /\ total # NoTotal
  /\ Answer(found, totalDocs)

Serve == paginate \/ FindPage \/ CountDocs \/ Respond

Next ==
  \/ \E d \in Moving : DocumentEnters(d) \/ DocumentLeaves(d)
  \/ Serve

Fairness == WF_vars(Serve)

Spec == Init /\ [][Next]_vars /\ Fairness

----------------------------------------------------------------------------
(* Properties.                                                             *)

TypeOK ==
  /\ listing \in Listings /\ listed \subseteq Docs /\ gone \subseteq Docs
  /\ seen \subseteq Docs /\ twice \subseteq seen /\ shown \in Nat
  /\ found = NoPage \/ (found \subseteq Docs /\ Cardinality(found) <= Limit)
  /\ total \in 0..NoTotal /\ ask \in FirstPage..(MaxDocs + 1) /\ walking \in BOOLEAN
  /\ steady \subseteq listed /\ moved \subseteq {"inserted", "appended", "removed"}

\* No sort key tells the document from another: no order holds from page to page.
Tied(d) == listing = "histories" \/ \E e \in Docs \ {d} : Instant[e] = Instant[d]

\* A finished walk from which nothing was removed has shown every document that
\* was there throughout and ties with none (a removed one moves those after it up,
\* onto a page that was read; a tied one may be on neither of two pages); and if
\* nothing changed at all, it has shown as many documents as there are.
WalkSeesAll ==
  ~walking =>
    /\ "removed" \notin moved => \A d \in steady : Tied(d) \/ d \in seen
    /\ moved = {} => shown = Cardinality(listed)

\* Only documents that tie are shown twice, unless one was inserted before others,
\* as a new pool is, which pushes them to the next page.
NothingTwice ==
  "inserted" \notin moved => \A d \in twice : Tied(d)

\* A walk ends, whatever comes and goes: the documents there may be are finitely
\* many, and the page asked for grows.
WalkEnds == <>~walking
=============================================================================
