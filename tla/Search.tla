-------------------------------- MODULE Search --------------------------------
(***************************************************************************)
(* k8s.search (searchCatalog in internal/server/catalog.go) and a client   *)
(* that pages through its results with nextCursor.  The catalog and the    *)
(* client's permissions may change between and during pages.               *)
(*                                                                         *)
(* An entry is a capability that passes the search's filter, numbered in   *)
(* the order the catalog is sorted in.  A cursor is an index into the      *)
(* filtered catalog of the moment; encodeCursor and decodeCursor only wrap *)
(* it.  One step is one SelfSubjectAccessReview.                           *)
(***************************************************************************)
EXTENDS Naturals, Sequences, FiniteSets

CONSTANTS
  Entries,       \* the numbers of the capabilities that pass the filter
  Reviews,       \* what a SelfSubjectAccessReview can ask about
  ReviewOf,      \* ReviewOf[e]: the review of entry e's own verb and resource
  Prerequisite,  \* Prerequisite[e]: {} or, for a write, the review of the get it needs
  InPolicy,      \* the entries CheckTarget accepts, with their prerequisite
  CheckLimit,    \* searchAuthorizationCheckLimit
  PageLimit,     \* the limit of the call
  MaxUpsets      \* bound: changes of the catalog and of permissions, failed pages

ASSUME SearchAssumption ==
  /\ Entries \subseteq Nat /\ IsFiniteSet(Entries)
  /\ ReviewOf \in [Entries -> Reviews]
  /\ Prerequisite \in [Entries -> {{}} \cup {{r} : r \in Reviews}]
  /\ InPolicy \subseteq Entries
  /\ CheckLimit \in Nat \ {0}
  /\ PageLimit \in Nat \ {0}
  /\ MaxUpsets \in Nat

VARIABLES
  catalog,    \* the entries in the cached catalog, in order
  permitted,  \* external: the reviews that are answered with allowed
  page,       \* the search in progress, NoPage when there is none
  cursor,     \* the cursor the client continues with
  pages,      \* what the client has collected since it started over
  done,       \* there was no nextCursor
  moved,      \* history: the catalog changed since the client started over
  altered,    \* history: permissions changed since then
  upsets      \* how many changes and failures there have been

searchVars == <<catalog, permitted, page, cursor, pages, done, moved, altered, upsets>>

NoPage == [open |-> FALSE]

Increasing(s) == \A i, j \in DOMAIN s : i < j => s[i] < s[j]

Listed(s) == {s[i] : i \in DOMAIN s}

\* What a refresh can load: some of the entries, sorted.
Catalogs ==
  {s \in UNION {[1 .. n -> Entries] : n \in 0 .. Cardinality(Entries)} : Increasing(s)}

SearchInit ==
  /\ catalog \in Catalogs /\ Listed(catalog) = Entries
  /\ permitted \in SUBSET Reviews
  /\ page = NoPage
  /\ cursor = 0
  /\ pages = <<>>
  /\ done = FALSE
  /\ moved = FALSE
  /\ altered = FALSE
  /\ upsets = 0

-----------------------------------------------------------------------------
(* One page.                                                               *)

\* list hands out a copy of the catalog; withAuthorizationCache starts empty.
PageBegin ==
  /\ ~page.open
  /\ ~done
  /\ cursor <= Len(catalog)
  /\ page' = [open |-> TRUE, filtered |-> catalog, index |-> cursor, result |-> <<>>,
              checks |-> 0, decided |-> [r \in {} |-> TRUE], asked |-> 0]
  /\ UNCHANGED <<catalog, permitted, cursor, pages, done, moved, altered, upsets>>

\* invalid_cursor: the client starts over.
PageOutside ==
  /\ ~page.open
  /\ ~done
  /\ cursor > Len(catalog)
  /\ cursor' = 0
  /\ pages' = <<>>
  /\ moved' = FALSE
  /\ altered' = FALSE
  /\ UNCHANGED <<catalog, permitted, page, done, upsets>>

\* The loop's conditions.
PageOver ==
  \/ page.index = Len(page.filtered)
  \/ Len(page.result) = PageLimit
  \/ page.checks = CheckLimit

Looking == page.open /\ ~PageOver

Entry == page.filtered[page.index + 1]

Known(r) == r \in DOMAIN page.decided

\* The review that is due for the entry: first its own, then, if that was
\* allowed, its prerequisite; {} when the entry is decided.
Due ==
  IF Entry \notin InPolicy THEN {}
  ELSE IF ~Known(ReviewOf[Entry]) THEN {ReviewOf[Entry]}
  ELSE IF page.decided[ReviewOf[Entry]] THEN {r \in Prerequisite[Entry] : ~Known(r)}
  ELSE {}

Ask(r) ==
  /\ Looking
  /\ r \in Due
  /\ page' = [page EXCEPT !.asked = @ + 1,
                !.decided = [q \in DOMAIN @ \cup {r} |-> IF q = r THEN r \in permitted ELSE @[q]]]
  /\ UNCHANGED <<catalog, permitted, cursor, pages, done, moved, altered, upsets>>

\* Faulty variant: the prerequisite's denial is not looked at.
PassesOwn(e) == e \in InPolicy /\ page.decided[ReviewOf[e]]

Passes(e) ==
  /\ e \in InPolicy
  /\ page.decided[ReviewOf[e]]
  /\ \A r \in Prerequisite[e] : page.decided[r]

\* CheckAndAuthorizeOperation is done: only permitted entries are returned.
Decide ==
  /\ Looking
  /\ Due = {}
  /\ page' = [page EXCEPT !.index = @ + 1, !.checks = @ + 1,
                !.result = IF Passes(Entry) THEN Append(@, Entry) ELSE @]
  /\ UNCHANGED <<catalog, permitted, cursor, pages, done, moved, altered, upsets>>

\* The review fails, its evaluation fails, the call is cancelled or its answer
\* is lost: the client has nothing and asks for the same page again.
PageFails ==
  /\ page.open
  /\ upsets < MaxUpsets
  /\ page' = NoPage
  /\ upsets' = upsets + 1
  /\ UNCHANGED <<catalog, permitted, cursor, pages, done, moved, altered>>

\* Faulty variant: a page without results does not get the client further.
NextIndexStuck == IF page.result = <<>> THEN cursor ELSE page.index

NextIndex == page.index

PageEnds ==
  /\ page.open
  /\ PageOver
  /\ page' = NoPage
  /\ pages' = pages \o page.result
  /\ \/ /\ page.index < Len(page.filtered)
        /\ cursor' = NextIndex
        /\ UNCHANGED done
     \/ /\ page.index = Len(page.filtered)
        /\ done' = TRUE
        /\ UNCHANGED cursor
  /\ UNCHANGED <<catalog, permitted, moved, altered, upsets>>

-----------------------------------------------------------------------------
(* What changes meanwhile.                                                 *)

\* The catalog is refreshed.
Refresh(s) ==
  /\ upsets < MaxUpsets
  /\ ~done
  /\ catalog' = s
  /\ moved' = TRUE
  /\ upsets' = upsets + 1
  /\ UNCHANGED <<permitted, page, cursor, pages, done, altered>>

Alter(s) ==
  /\ upsets < MaxUpsets
  /\ ~done
  /\ permitted' = s
  /\ altered' = TRUE
  /\ upsets' = upsets + 1
  /\ UNCHANGED <<catalog, page, cursor, pages, done, moved>>

PageStep == PageBegin \/ PageOutside \/ (\E r \in Reviews : Ask(r)) \/ Decide \/ PageEnds

SearchNext ==
  \/ PageStep
  \/ PageFails
  \/ \E s \in Catalogs : Refresh(s)
  \/ \E s \in SUBSET Reviews : Alter(s)

\* The client goes on.
SearchFairness == WF_searchVars(PageStep)

SearchSpec == SearchInit /\ [][SearchNext]_searchVars /\ SearchFairness

-----------------------------------------------------------------------------
(* Properties.                                                             *)

\* The shape of a search in progress.
PageTypeOK ==
  \/ page = NoPage
  \/ /\ page.index \in 0 .. Len(page.filtered)
     /\ page.result \in Seq(Entries) /\ Len(page.result) <= PageLimit
     /\ page.checks \in 0 .. CheckLimit
     /\ DOMAIN page.decided \subseteq Reviews

\* The shape of a search.
SearchTypeOK ==
  /\ catalog \in Catalogs /\ permitted \subseteq Reviews
  /\ pages \in Seq(Entries)
  /\ cursor \in 0 .. Cardinality(Entries)
  /\ done \in BOOLEAN /\ moved \in BOOLEAN /\ altered \in BOOLEAN /\ upsets \in 0 .. MaxUpsets
  /\ PageTypeOK

Authorized ==
  {e \in Listed(catalog) :
     e \in InPolicy /\ ReviewOf[e] \in permitted /\ Prerequisite[e] \subseteq permitted}

\* A client that follows nextCursor to the end has every capability it may use,
\* in order and once, however the pages were cut and however often a page
\* failed, unless the catalog or its permissions changed on the way.
PagesComplete == done /\ ~moved /\ ~altered => Increasing(pages) /\ Listed(pages) = Authorized

\* Changing permissions alone neither repeats an entry nor puts it out of order.
PagesInOrder == ~moved => Increasing(pages)

\* A page asks each review once, and two for each of the capabilities it checks
\* at the most (a write also needs the review of its get).
ReviewsBounded ==
  page.open => /\ page.asked = Cardinality(DOMAIN page.decided)
               /\ page.asked <= 2 * CheckLimit

\* What a client gets by following nextCursor, and what that costs the API server.
PagesExact == SearchTypeOK /\ PagesComplete /\ PagesInOrder /\ ReviewsBounded

\* A client that goes on reaches the last page after finitely many changes and
\* failures, also when no entry is permitted.
SearchEnds == <>done

=============================================================================
