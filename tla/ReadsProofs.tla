----------------------------- MODULE ReadsProofs ----------------------------
(***************************************************************************)
(* Proofs about what a client reads in pieces: the pages of a search       *)
(* (Search) and the bounded part of a stream (BoundedIO).                  *)
(***************************************************************************)
EXTENDS Search, BoundedIO, FiniteSetTheorems, TLAPS

\* The provers for leaves that name none, in the order they are tried.
USE SMTT(20), Z3T(30), Zenon

-----------------------------------------------------------------------------
(* Search: what a client collects, for every catalog, every page limit and *)
(* any assignment of reviews to entries.                                   *)

\* The entries from place m to place n of the filtered catalog.
Span(s, m, n) == {s[k] : k \in m .. n}

\* The entries CheckAndAuthorizeOperation lets the client use now.
Usable(e) == e \in InPolicy /\ ReviewOf[e] \in permitted /\ Prerequisite[e] \subseteq permitted

\* The locals of searchCatalog.
PageTypes ==
  [open : {TRUE}, filtered : Catalogs, index : Nat, result : Seq(Entries), checks : Nat,
   decided : UNION {[D -> BOOLEAN] : D \in SUBSET Reviews}, asked : Nat]

\* The page in progress holds, of the entries it went through, the usable ones.
PageHolds ==
  /\ ~done /\ cursor <= page.index
  /\ ~moved => page.filtered = catalog
  /\ Increasing(page.result)
  /\ Listed(page.result) \subseteq Span(page.filtered, cursor + 1, page.index)
  /\ ~altered => \A r \in DOMAIN page.decided : page.decided[r] = (r \in permitted)
  /\ ~altered => \A k \in cursor + 1 .. page.index :
        page.filtered[k] \in Listed(page.result) <=> Usable(page.filtered[k])

\* The pages collected hold, of the entries before the cursor, the usable ones.
PagesHold ==
  /\ ~moved => Increasing(pages)
  /\ ~moved /\ ~done => /\ cursor <= Len(catalog)
                        /\ Listed(pages) \subseteq Span(catalog, 1, cursor)
  /\ ~moved /\ ~altered /\ ~done =>
       \A k \in 1 .. cursor : catalog[k] \in Listed(pages) <=> Usable(catalog[k])
  /\ ~moved /\ ~altered /\ done => Listed(pages) = Authorized

\* Two reviews for each entry that is decided; the entry that is looked at has
\* at most its own and that of its prerequisite, each only when it is known.
CostHolds ==
  /\ IsFiniteSet(DOMAIN page.decided) /\ page.asked = Cardinality(DOMAIN page.decided)
  /\ page.asked <= 2 * page.checks + 2
  /\ page.asked > 2 * page.checks =>
       ~PageOver /\ (Known(ReviewOf[Entry]) \/ \E r \in Prerequisite[Entry] : Known(r))
  /\ page.asked > 2 * page.checks + 1 =>
       Known(ReviewOf[Entry]) /\ \E r \in Prerequisite[Entry] : Known(r)

SearchInv ==
  /\ SearchTypeOK
  /\ page.open \in BOOLEAN
  /\ page.open => page \in PageTypes
  /\ page.open => PageHolds
  /\ page.open => CostHolds
  /\ PagesHold

\* Every sorted list of entries is a sequence of them, no longer than there are entries.
LEMMA CatalogIs ==
  ASSUME NEW s \in Catalogs
  PROVE  /\ s \in Seq(Entries) /\ s \in Seq(Nat) /\ Increasing(s)
         /\ Len(s) \in Nat /\ Len(s) <= Cardinality(Entries) /\ Cardinality(Entries) \in Nat
         /\ DOMAIN s = 1 .. Len(s)
PROOF
<1>1. PICK n \in 0 .. Cardinality(Entries) : s \in [1 .. n -> Entries]
  BY DEF Catalogs
<1>2. Cardinality(Entries) \in Nat
  BY SearchAssumption, FS_CardinalityType
<1>3. Increasing(s)
  BY DEF Catalogs
<1>4. s \in Seq(Entries) /\ Len(s) = n /\ DOMAIN s = 1 .. n
  BY <1>1, <1>2
<1>5. s \in Seq(Nat)
  <2>1. Entries \subseteq Nat
    BY SearchAssumption
  <2>2. n \in Nat
    BY <1>2
  <2>3. s \in [1 .. n -> Nat]
    BY <2>1, <1>1, Zenon
  <2> QED
    BY <2>2, <2>3
<1> QED
  BY <1>2, <1>3, <1>4, <1>5

\* append in searchCatalog: what is appended is listed, and what is greater
\* than all before it keeps the order.
LEMMA Appended ==
  ASSUME NEW s \in Seq(Nat), NEW e \in Nat
  PROVE  /\ Listed(Append(s, e)) = Listed(s) \cup {e}
         /\ Increasing(s) /\ (\A x \in Listed(s) : x < e) => Increasing(Append(s, e))
PROOF
<1>1. /\ Len(s) \in Nat /\ DOMAIN s = 1 .. Len(s) /\ Append(s, e) \in Seq(Nat)
      /\ DOMAIN Append(s, e) = 1 .. Len(s) + 1
      /\ \A i \in 1 .. Len(s) : Append(s, e)[i] = s[i] /\ s[i] \in Nat
      /\ Append(s, e)[Len(s) + 1] = e
  OBVIOUS
<1> DEFINE t == Append(s, e)
<1> HIDE DEF t
<1>2. \A i \in DOMAIN t : i \in DOMAIN s \/ i = Len(s) + 1
  BY <1>1 DEF t
<1>3. Listed(t) = Listed(s) \cup {e}
  <2>1. ASSUME NEW x \in Listed(t) PROVE x \in Listed(s) \cup {e}
    BY <2>1, <1>1, <1>2 DEF Listed, t
  <2>2. ASSUME NEW x \in Listed(s) PROVE x \in Listed(t)
    BY <2>2, <1>1 DEF Listed, t
  <2>3. e \in Listed(t)
    BY <1>1 DEF Listed, t
  <2> QED
    BY <2>1, <2>2, <2>3, Zenon
<1>4. ASSUME Increasing(s), \A x \in Listed(s) : x < e,
             NEW i \in DOMAIN t, NEW j \in DOMAIN t, i < j
      PROVE  t[i] < t[j]
  <2>1. i \in DOMAIN s /\ t[i] = s[i]
    BY <1>1, <1>2, <1>4 DEF t
  <2>2. CASE j \in DOMAIN s
    BY <2>1, <2>2, <1>1, <1>4 DEF Increasing, t
  <2>3. CASE j = Len(s) + 1
    BY <2>1, <2>3, <1>1, <1>4 DEF Listed, t
  <2> QED
    BY <2>2, <2>3, <1>2
<1> QED
  BY <1>3, <1>4 DEF Increasing, t

\* A client that collects pages: the same for a page put behind the others.
LEMMA PagesJoined ==
  ASSUME NEW s \in Seq(Nat), NEW r \in Seq(Nat)
  PROVE  /\ Listed(s \o r) = Listed(s) \cup Listed(r)
         /\ Increasing(s) /\ Increasing(r) /\ (\A x \in Listed(s), y \in Listed(r) : x < y)
              => Increasing(s \o r)
PROOF
<1>1. /\ Len(s) \in Nat /\ DOMAIN s = 1 .. Len(s) /\ Len(r) \in Nat /\ DOMAIN r = 1 .. Len(r)
      /\ DOMAIN (s \o r) = 1 .. Len(s) + Len(r)
      /\ \A i \in 1 .. Len(s) : (s \o r)[i] = s[i]
      /\ \A i \in 1 .. Len(r) : (s \o r)[Len(s) + i] = r[i]
  OBVIOUS
<1> DEFINE t == s \o r
<1> HIDE DEF t
<1>2. \A i \in DOMAIN t : \/ i \in DOMAIN s /\ t[i] = s[i]
                          \/ i - Len(s) \in DOMAIN r /\ t[i] = r[i - Len(s)]
  <2> SUFFICES ASSUME NEW i \in 1 .. Len(s) + Len(r), i \notin DOMAIN s
               PROVE  i - Len(s) \in DOMAIN r /\ t[i] = r[i - Len(s)]
    BY <1>1 DEF t
  <2>1. i - Len(s) \in 1 .. Len(r) /\ Len(s) + (i - Len(s)) = i
    BY <1>1
  <2> QED
    BY <2>1, <1>1 DEF t
<1>3. Listed(t) = Listed(s) \cup Listed(r)
  <2>1. ASSUME NEW x \in Listed(t) PROVE x \in Listed(s) \cup Listed(r)
    BY <2>1, <1>2 DEF Listed
  <2>2. ASSUME NEW x \in Listed(s) PROVE x \in Listed(t)
    BY <2>2, <1>1 DEF Listed, t
  <2>3. ASSUME NEW x \in Listed(r) PROVE x \in Listed(t)
    <3>1. PICK i \in 1 .. Len(r) : x = r[i]
      BY <2>3, <1>1 DEF Listed
    <3>2. Len(s) + i \in DOMAIN t /\ t[Len(s) + i] = x
      BY <3>1, <1>1 DEF t
    <3> QED
      BY <3>2 DEF Listed
  <2> QED
    BY <2>1, <2>2, <2>3
<1>4. ASSUME Increasing(s), Increasing(r), \A x \in Listed(s), y \in Listed(r) : x < y,
             NEW i \in DOMAIN t, NEW j \in DOMAIN t, i < j
      PROVE  t[i] < t[j]
  <2>0. i \in Nat /\ j \in Nat
    BY <1>1 DEF t
  <2>1. CASE i \in DOMAIN s /\ t[i] = s[i] /\ j \in DOMAIN s /\ t[j] = s[j]
    BY <2>1, <1>4 DEF Increasing
  <2>2. CASE i \in DOMAIN s /\ t[i] = s[i] /\ j - Len(s) \in DOMAIN r /\ t[j] = r[j - Len(s)]
    BY <2>2, <1>4 DEF Listed
  <2>3. CASE /\ i - Len(s) \in DOMAIN r /\ t[i] = r[i - Len(s)]
             /\ j - Len(s) \in DOMAIN r /\ t[j] = r[j - Len(s)]
    BY <2>0, <2>3, <1>1, <1>4 DEF Increasing
  <2>4. CASE i - Len(s) \in DOMAIN r /\ j \in DOMAIN s
    BY <2>0, <2>4, <1>1, <1>4
  <2> QED
    BY <2>1, <2>2, <2>3, <2>4, <1>2
<1> QED
  BY <1>3, <1>4 DEF Increasing, t

\* Entries further on in the sorted catalog come later in its order.
LEMMA SpansApart ==
  ASSUME NEW s \in Catalogs, NEW m \in Nat, NEW n \in Nat, n <= Len(s),
         NEW x \in Span(s, 1, m), NEW y \in Span(s, m + 1, n)
  PROVE  x < y
PROOF
<1>1. PICK i \in 1 .. m : x = s[i]
  BY DEF Span
<1>2. PICK j \in m + 1 .. n : y = s[j]
  BY DEF Span
<1>3. i \in DOMAIN s /\ j \in DOMAIN s /\ i < j
  BY <1>1, <1>2, CatalogIs
<1> QED
  BY <1>1, <1>2, <1>3, CatalogIs DEF Increasing

\* A page in progress is what its type says, and so are the entry it looks at
\* and the reviews that may be due for it.
LEMMA PageIs ==
  ASSUME SearchInv, page.open
  PROVE  /\ page.filtered \in Catalogs /\ page.index \in Nat /\ page.index <= Len(page.filtered)
         /\ page.result \in Seq(Entries) /\ page.checks \in Nat /\ page.asked \in Nat
         /\ page.checks <= CheckLimit /\ Len(page.result) <= PageLimit
         /\ Listed(page.result) \subseteq Entries
         /\ DOMAIN page.decided \subseteq Reviews
         /\ \A r \in DOMAIN page.decided : page.decided[r] \in BOOLEAN
         /\ page # NoPage
PROOF
<1>1. page \in PageTypes /\ SearchTypeOK
  BY DEF SearchInv
<1>2. page # NoPage
  <2>1. ~NoPage.open
    BY DEF NoPage
  <2> QED
    BY <2>1
<1>3. /\ page.filtered \in Catalogs /\ page.index \in Nat
      /\ page.result \in Seq(Entries) /\ page.checks \in Nat /\ page.asked \in Nat
      /\ page.decided \in UNION {[D -> BOOLEAN] : D \in SUBSET Reviews}
  BY <1>1 DEF PageTypes
<1>4. page.index <= Len(page.filtered) /\ page.checks <= CheckLimit /\ Len(page.result) <= PageLimit
  BY <1>1, <1>2, <1>3, CatalogIs DEF SearchTypeOK, PageTypeOK
<1>5. /\ DOMAIN page.decided \subseteq Reviews
      /\ \A r \in DOMAIN page.decided : page.decided[r] \in BOOLEAN
  <2>1. PICK D \in SUBSET Reviews : page.decided \in [D -> BOOLEAN]
    BY <1>3, Zenon
  <2> QED
    BY <2>1
<1>6. Listed(page.result) \subseteq Entries
  BY <1>3 DEF Listed
<1> QED
  BY <1>2, <1>3, <1>4, <1>5, <1>6

\* The entry the loop looks at.
LEMMA EntryIs ==
  ASSUME SearchInv, Looking
  PROVE  /\ page.open /\ page.index < Len(page.filtered) /\ Len(page.result) < PageLimit
         /\ page.checks < CheckLimit
         /\ Entry \in Entries /\ Entry = page.filtered[page.index + 1]
         /\ ReviewOf[Entry] \in Reviews /\ Prerequisite[Entry] \subseteq Reviews
         /\ Prerequisite[Entry] = {} \/ \E r \in Reviews : Prerequisite[Entry] = {r}
PROOF
<1>1. page.open /\ ~PageOver
  BY DEF Looking
<1>2. page.index < Len(page.filtered) /\ Len(page.result) < PageLimit /\ page.checks < CheckLimit
  BY <1>1, PageIs, CatalogIs, SearchAssumption DEF PageOver
<1>3. Entry \in Entries
  BY <1>1, <1>2, PageIs, CatalogIs DEF Entry
<1>4. /\ ReviewOf[Entry] \in Reviews
      /\ Prerequisite[Entry] = {} \/ \E r \in Reviews : Prerequisite[Entry] = {r}
  BY <1>3, SearchAssumption
<1>5. Prerequisite[Entry] \subseteq Reviews
  BY <1>4
<1>6. Entry = page.filtered[page.index + 1]
  BY DEF Entry
<1> QED
  BY <1>1, <1>2, <1>3, <1>4, <1>5, <1>6

\* The first page of a search has nothing before it.
LEMMA SearchStarts == SearchInit => SearchInv
PROOF
<1> SUFFICES ASSUME SearchInit PROVE SearchInv
  OBVIOUS
<1>1. page = NoPage /\ page.open = FALSE
  BY DEF SearchInit, NoPage
<1>2. Len(catalog) \in Nat /\ Cardinality(Entries) \in Nat
  BY CatalogIs DEF SearchInit
<1>3. pages = <<>> /\ Listed(pages) = {} /\ Increasing(pages) /\ pages \in Seq(Entries)
  BY DEF SearchInit, Listed, Increasing
<1>4. SearchTypeOK
  <2>1. cursor \in 0 .. Cardinality(Entries) /\ upsets \in 0 .. MaxUpsets
    BY <1>2, SearchAssumption DEF SearchInit
  <2>2. PageTypeOK
    BY <1>1 DEF PageTypeOK
  <2> QED
    BY <1>3, <2>1, <2>2, Zenon DEF SearchInit, SearchTypeOK
<1>5. PagesHold
  BY <1>2, <1>3 DEF SearchInit, PagesHold
<1> QED
  BY <1>1, <1>4, <1>5, Zenon DEF SearchInv

\* A page starts where the pages before it end.
LEMMA BeginStep == SearchInv /\ PageBegin => SearchInv'
PROOF
<1> SUFFICES ASSUME SearchInv, PageBegin PROVE SearchInv'
  OBVIOUS
<1>1. SearchTypeOK /\ PagesHold /\ ~page.open /\ ~done /\ cursor <= Len(catalog)
  BY DEF SearchInv, PageBegin
<1>2. UNCHANGED <<catalog, permitted, cursor, pages, done, moved, altered, upsets>>
  BY DEF PageBegin
<1>3. catalog \in Catalogs /\ cursor \in Nat
  BY <1>1, CatalogIs DEF SearchTypeOK
<1>4. /\ page'.open = TRUE /\ page'.filtered = catalog /\ page'.index = cursor
      /\ page'.result = <<>> /\ page'.checks = 0 /\ page'.asked = 0
      /\ page'.decided = [r \in {} |-> TRUE] /\ DOMAIN page'.decided = {}
  BY DEF PageBegin
<1>5. page' \in PageTypes
  <2>1. [r \in {} |-> TRUE] \in [{} -> BOOLEAN]
    OBVIOUS
  <2>2. [r \in {} |-> TRUE] \in UNION {[D -> BOOLEAN] : D \in SUBSET Reviews}
    BY <2>1
  <2> QED
    BY <1>3, <2>2 DEF PageBegin, PageTypes
<1>6. SearchTypeOK'
  <2>1. PageTypeOK'
    BY <1>1, <1>3, <1>4, SearchAssumption, CatalogIs DEF PageTypeOK
  <2> QED
    BY <1>1, <1>2, <2>1 DEF SearchTypeOK
<1>7. PageHolds'
  <2>1. Listed(<<>>) = {} /\ Increasing(<<>>)
    BY DEF Listed, Increasing
  <2>2. cursor + 1 .. cursor = {}
    BY <1>3
  <2> QED
    BY <1>1, <1>2, <1>3, <1>4, <2>1, <2>2 DEF PageHolds, Span
<1>8. CostHolds'
  BY <1>4, FS_EmptySet DEF CostHolds
<1>9. PagesHold'
  BY <1>1, <1>2 DEF PagesHold, Usable, Authorized
<1> QED
  BY <1>4, <1>5, <1>6, <1>7, <1>8, <1>9, Zenon DEF SearchInv

\* A client whose cursor is refused starts over.
LEMMA OutsideStep == SearchInv /\ PageOutside => SearchInv'
PROOF
<1> SUFFICES ASSUME SearchInv, PageOutside PROVE SearchInv'
  OBVIOUS
<1>1. SearchTypeOK /\ ~page.open /\ ~done
  BY DEF SearchInv, PageOutside
<1>2. /\ UNCHANGED <<catalog, permitted, page, done, upsets>>
      /\ cursor' = 0 /\ pages' = <<>> /\ moved' = FALSE /\ altered' = FALSE
  BY DEF PageOutside
<1>3. Listed(<<>>) = {} /\ Increasing(<<>>) /\ <<>> \in Seq(Entries)
  BY DEF Listed, Increasing
<1>4. Len(catalog) \in Nat /\ Cardinality(Entries) \in Nat
  BY <1>1, CatalogIs DEF SearchTypeOK
<1>5. SearchTypeOK'
  <2>1. PageTypeOK'
    BY <1>1, <1>2 DEF SearchTypeOK, PageTypeOK
  <2>2. pages' \in Seq(Entries) /\ cursor' \in 0 .. Cardinality(Entries)
    BY <1>2, <1>3, <1>4
  <2> QED
    BY <1>1, <1>2, <2>1, <2>2, Zenon DEF SearchTypeOK
<1>6. PagesHold'
  BY <1>1, <1>2, <1>3, <1>4 DEF PagesHold
<1> QED
  BY <1>1, <1>2, <1>5, <1>6 DEF SearchInv

\* A page that fails leaves what the client has as it is.
LEMMA FailsStep == SearchInv /\ PageFails => SearchInv'
PROOF
<1> SUFFICES ASSUME SearchInv, PageFails PROVE SearchInv'
  OBVIOUS
<1>1. SearchTypeOK /\ PagesHold
  BY DEF SearchInv
<1>2. /\ UNCHANGED <<catalog, permitted, cursor, pages, done, moved, altered>>
      /\ page' = NoPage /\ page'.open = FALSE /\ upsets' = upsets + 1 /\ upsets < MaxUpsets
  BY DEF PageFails, NoPage
<1>3. SearchTypeOK'
  <2>1. PageTypeOK'
    BY <1>1, <1>2 DEF SearchTypeOK, PageTypeOK
  <2> QED
    BY <1>1, <1>2, <2>1, SearchAssumption DEF SearchTypeOK
<1>4. PagesHold'
  BY <1>1, <1>2 DEF PagesHold, Usable, Authorized
<1> QED
  BY <1>2, <1>3, <1>4, Zenon DEF SearchInv

\* A page in progress goes on over the catalog it was handed.
LEMMA RefreshStep ==
  ASSUME SearchInv, NEW s \in Catalogs, Refresh(s)
  PROVE  SearchInv'
PROOF
<1>1. SearchTypeOK /\ PagesHold /\ ~done
  BY DEF SearchInv, Refresh
<1>2. /\ UNCHANGED <<permitted, page, cursor, pages, done, altered>>
      /\ catalog' = s /\ moved' = TRUE /\ upsets' = upsets + 1 /\ upsets < MaxUpsets
  BY DEF Refresh
<1>3. SearchTypeOK'
  <2>1. PageTypeOK'
    BY <1>1, <1>2 DEF SearchTypeOK, PageTypeOK
  <2> QED
    BY <1>1, <1>2, <2>1, SearchAssumption DEF SearchTypeOK
<1>4. PagesHold'
  BY <1>2 DEF PagesHold
<1>5. page.open => PageHolds'
  BY <1>2 DEF SearchInv, PageHolds, Usable
<1>6. page.open => CostHolds'
  BY <1>2 DEF SearchInv, CostHolds, PageOver, Known, Entry
<1> QED
  BY <1>2, <1>3, <1>4, <1>5, <1>6 DEF SearchInv

\* Changing permissions puts nothing out of order.
LEMMA AlterStep ==
  ASSUME SearchInv, NEW s \in SUBSET Reviews, Alter(s)
  PROVE  SearchInv'
PROOF
<1>1. SearchTypeOK /\ PagesHold /\ ~done
  BY DEF SearchInv, Alter
<1>2. /\ UNCHANGED <<catalog, page, cursor, pages, done, moved>>
      /\ permitted' = s /\ altered' = TRUE /\ upsets' = upsets + 1 /\ upsets < MaxUpsets
  BY DEF Alter
<1>3. SearchTypeOK'
  <2>1. PageTypeOK'
    BY <1>1, <1>2 DEF SearchTypeOK, PageTypeOK
  <2> QED
    BY <1>1, <1>2, <2>1, SearchAssumption DEF SearchTypeOK
<1>4. PagesHold'
  BY <1>1, <1>2 DEF PagesHold
<1>5. page.open => PageHolds'
  BY <1>2 DEF SearchInv, PageHolds
<1>6. page.open => CostHolds'
  BY <1>2 DEF SearchInv, CostHolds, PageOver, Known, Entry
<1> QED
  BY <1>2, <1>3, <1>4, <1>5, <1>6 DEF SearchInv

\* Authorize's review of what is due: one more answer, remembered for the page.
LEMMA AskStep ==
  ASSUME SearchInv, NEW r \in Reviews, Ask(r)
  PROVE  SearchInv'
PROOF
<1>1. SearchTypeOK /\ PagesHold /\ PageHolds /\ CostHolds /\ page.open /\ page \in PageTypes
  BY EntryIs DEF SearchInv, Ask
<1>2. UNCHANGED <<catalog, permitted, cursor, pages, done, moved, altered, upsets>>
  BY DEF Ask
<1> DEFINE D == DOMAIN page.decided
           answers == [q \in D \cup {r} |-> IF q = r THEN r \in permitted ELSE page.decided[q]]
<1>3. /\ page' = [page EXCEPT !.asked = page.asked + 1, !.decided = answers]
      /\ Looking /\ r \in Due
  BY DEF Ask
<1>4. /\ page'.open = page.open /\ page'.filtered = page.filtered /\ page'.index = page.index
      /\ page'.result = page.result /\ page'.checks = page.checks
      /\ page'.asked = page.asked + 1 /\ page'.decided = answers
  BY <1>1, <1>3, Zenon DEF PageTypes
<1>5. /\ r \notin D
      /\ \/ r = ReviewOf[Entry]
         \/ r # ReviewOf[Entry] /\ ReviewOf[Entry] \in D /\ r \in Prerequisite[Entry]
  BY <1>3 DEF Due, Known
<1>6. /\ DOMAIN answers = D \cup {r} /\ answers \in [D \cup {r} -> BOOLEAN]
      /\ D \cup {r} \subseteq Reviews
  <2>1. D \subseteq Reviews /\ \A q \in D : page.decided[q] \in BOOLEAN
    BY <1>1, PageIs
  <2>2. ASSUME NEW q \in D \cup {r}
        PROVE  (IF q = r THEN r \in permitted ELSE page.decided[q]) \in BOOLEAN
    <3>1. CASE q = r
      <4>1. (r \in permitted) \in BOOLEAN
        OBVIOUS
      <4> QED
        BY <3>1, <4>1
    <3>2. CASE q # r
      BY <2>1, <3>2, Zenon
    <3> QED
      BY <3>1, <3>2
  <2> HIDE DEF D
  <2> QED
    BY <2>1, <2>2
<1>7. page' \in PageTypes
  <2>1. answers \in UNION {[E -> BOOLEAN] : E \in SUBSET Reviews}
    BY <1>6, Zenon
  <2>2. page.asked + 1 \in Nat
    BY <1>1, PageIs
  <2> HIDE DEF answers
  <2> QED
    BY <1>1, <1>3, <2>1, <2>2, Zenon DEF PageTypes
<1> HIDE DEF D
<1>8. SearchTypeOK'
  <2>1. PageTypeOK'
    BY <1>1, <1>4, <1>6, PageIs, Zenon DEF SearchTypeOK, PageTypeOK
  <2> QED
    BY <1>1, <1>2, <2>1 DEF SearchTypeOK
<1>9. PageHolds'
  <2>1. ASSUME ~altered, NEW q \in D \cup {r} PROVE answers[q] = (q \in permitted)
    BY <2>1, <1>1, Zenon DEF PageHolds, D
  <2>2. \A k \in cursor + 1 .. page.index : Usable(page.filtered[k])' <=> Usable(page.filtered[k])
    BY <1>2, <1>4 DEF Usable
  <2> HIDE DEF answers
  <2> QED
    BY <1>1, <1>2, <1>4, <1>6, <2>1, <2>2 DEF PageHolds
<1> HIDE DEF answers
<1>10. CostHolds'
  <2>1. /\ page.checks \in Nat /\ page.asked \in Nat
    BY <1>1, PageIs
  <2>2. /\ IsFiniteSet(DOMAIN page'.decided)
        /\ page'.asked = Cardinality(DOMAIN page'.decided)
    <3>1. IsFiniteSet(D) /\ page.asked = Cardinality(D)
      BY <1>1 DEF CostHolds, D
    <3>2. IsFiniteSet(D \cup {r}) /\ Cardinality(D \cup {r}) = Cardinality(D) + 1
      BY <3>1, <1>5, FS_AddElement
    <3>3. DOMAIN page'.decided = D \cup {r} /\ page'.asked = page.asked + 1
      BY <1>4, <1>6
    <3> QED
      BY <3>1, <3>2, <3>3
  <2>3. Entry' = Entry /\ PageOver' = PageOver /\ ~PageOver
    BY <1>3, <1>4 DEF Entry, PageOver, Looking
  <2>4. \A q : Known(q)' <=> (Known(q) \/ q = r)
    BY <1>4, <1>6 DEF Known, D
  <2>5. CASE r = ReviewOf[Entry]
    <3>1. ~Known(ReviewOf[Entry]) /\ Known(ReviewOf[Entry])'
      BY <2>5, <1>5, <2>4, <2>3 DEF Known, D
    <3>2. page.asked > 2 * page.checks => \E q \in Prerequisite[Entry] : Known(q)
      BY <1>1, <3>1 DEF CostHolds
    <3>3. page.asked <= 2 * page.checks + 1
      BY <1>1, <2>1, <3>1 DEF CostHolds
    <3>4. page.asked > 2 * page.checks => \E q \in Prerequisite[Entry] : Known(q)'
      BY <3>2, <2>4
    <3>5. page'.asked <= 2 * page'.checks + 2
      BY <3>3, <2>1, <1>4
    <3>6. page'.asked > 2 * page'.checks + 1 => page.asked > 2 * page.checks
      BY <2>1, <1>4
    <3> QED
      BY <2>2, <2>3, <3>1, <3>4, <3>5, <3>6 DEF CostHolds
  <2>6. CASE r # ReviewOf[Entry] /\ ReviewOf[Entry] \in D /\ r \in Prerequisite[Entry]
    <3>1. /\ Known(ReviewOf[Entry])' /\ \E q \in Prerequisite[Entry] : Known(q)'
      BY <2>3, <2>4, <2>6 DEF Known, D
    <3>2. ~\E q \in Prerequisite[Entry] : Known(q)
      <4>1. Prerequisite[Entry] = {r}
        BY <2>6, <1>3, EntryIs
      <4> QED
        BY <4>1, <1>5 DEF Known, D
    <3>3. page.asked <= 2 * page.checks + 1
      BY <1>1, <2>1, <3>2 DEF CostHolds
    <3>4. page'.asked <= 2 * page'.checks + 2
      BY <3>3, <2>1, <1>4
    <3> QED
      BY <2>2, <2>3, <3>1, <3>4 DEF CostHolds
  <2> QED
    BY <2>5, <2>6, <1>5
<1>11. PagesHold'
  BY <1>1, <1>2 DEF PagesHold, Usable, Authorized
<1> QED
  BY <1>1, <1>4, <1>7, <1>8, <1>9, <1>10, <1>11 DEF SearchInv

\* One round of the loop: the entry is counted, passed over or appended.
LEMMA DecideStep == SearchInv /\ Decide => SearchInv'
PROOF
<1> SUFFICES ASSUME SearchInv, Decide PROVE SearchInv'
  OBVIOUS
<1>1. SearchTypeOK /\ PagesHold /\ PageHolds /\ CostHolds /\ page.open /\ page \in PageTypes
  BY EntryIs DEF SearchInv, Decide
<1>2. UNCHANGED <<catalog, permitted, cursor, pages, done, moved, altered, upsets>>
  BY DEF Decide
<1> DEFINE result == IF Passes(Entry) THEN Append(page.result, Entry) ELSE page.result
<1>3. /\ page' = [page EXCEPT !.index = page.index + 1, !.checks = page.checks + 1,
                               !.result = result]
      /\ Looking /\ Due = {}
  BY DEF Decide
<1>4. /\ page'.open = page.open /\ page'.filtered = page.filtered /\ page'.index = page.index + 1
      /\ page'.result = result /\ page'.checks = page.checks + 1
      /\ page'.asked = page.asked /\ page'.decided = page.decided
  BY <1>1, <1>3, Zenon DEF PageTypes
<1>5. /\ page.filtered \in Catalogs /\ page.index \in Nat /\ page.checks \in Nat /\ page.asked \in Nat
      /\ page.result \in Seq(Entries) /\ page.result \in Seq(Nat)
      /\ page.index < Len(page.filtered) /\ Len(page.result) < PageLimit /\ page.checks < CheckLimit
      /\ Entry \in Entries /\ Entry \in Nat /\ Entry = page.filtered[page.index + 1]
      /\ cursor \in Nat /\ Cardinality(Entries) \in Nat
  <2>1. Entries \subseteq Nat /\ Cardinality(Entries) \in Nat
    BY SearchAssumption, FS_CardinalityType
  <2>2. cursor \in Nat
    BY <1>1, <2>1 DEF SearchTypeOK
  <2>3. page.result \in Seq(Entries)
    BY <1>1, PageIs
  <2>4. page.result \in Seq(Nat)
    <3>1. /\ Len(page.result) \in Nat
          /\ page.result \in [1 .. Len(page.result) -> Entries]
      BY <2>3
    <3>2. page.result \in [1 .. Len(page.result) -> Nat]
      BY <2>1, <3>1, Zenon
    <3> QED
      BY <3>1, <3>2
  <2> QED
    BY <1>1, <1>3, <2>1, <2>2, <2>3, <2>4, PageIs, EntryIs
<1>6. /\ result \in Seq(Entries) /\ Len(result) <= Len(page.result) + 1
      /\ Listed(result) \subseteq Listed(page.result) \cup {Entry}
      /\ Listed(page.result) \subseteq Listed(result)
      /\ Passes(Entry) => Entry \in Listed(result)
  BY <1>5, Appended
<1>7. \A x \in Listed(page.result) : x < Entry /\ x # Entry
  <2> SUFFICES ASSUME NEW x \in Listed(page.result) PROVE x < Entry /\ x # Entry
    OBVIOUS
  <2>1. PICK k \in cursor + 1 .. page.index : x = page.filtered[k]
    BY <1>1 DEF PageHolds, Span
  <2>2. /\ k \in DOMAIN page.filtered /\ page.index + 1 \in DOMAIN page.filtered
        /\ k < page.index + 1 /\ page.filtered[k] \in Nat
    <3>1. DOMAIN page.filtered = 1 .. Len(page.filtered) /\ Len(page.filtered) \in Nat
      BY <1>5, CatalogIs
    <3>2. page.filtered \in Seq(Nat)
      BY <1>5, CatalogIs
    <3>3. /\ k \in 1 .. Len(page.filtered) /\ page.index + 1 \in 1 .. Len(page.filtered)
          /\ k < page.index + 1
      BY <2>1, <3>1, <1>5
    <3> QED
      BY <3>1, <3>2, <3>3
  <2>3. page.filtered[k] < page.filtered[page.index + 1]
    BY <2>2, <1>5, CatalogIs, Zenon DEF Increasing
  <2> QED
    BY <2>1, <2>2, <2>3, <1>5
<1>8. Increasing(result)
  BY <1>1, <1>5, <1>7, Appended DEF PageHolds
<1>9. ~altered => (Passes(Entry) <=> Usable(Entry))
  <2> SUFFICES ASSUME ~altered PROVE Passes(Entry) <=> Usable(Entry)
    OBVIOUS
  <2>1. \A q \in DOMAIN page.decided : page.decided[q] = (q \in permitted)
    BY <1>1 DEF PageHolds
  <2>2. CASE Entry \notin InPolicy
    BY <2>2 DEF Passes, Usable
  <2>3. CASE Entry \in InPolicy
    <3>1. Known(ReviewOf[Entry])
      BY <1>3, <2>3 DEF Due
    <3>2. page.decided[ReviewOf[Entry]] = (ReviewOf[Entry] \in permitted)
      BY <3>1, <2>1 DEF Known
    <3>3. page.decided[ReviewOf[Entry]] => \A q \in Prerequisite[Entry] : Known(q)
      BY <1>3, <2>3, <3>1 DEF Due
    <3>4. page.decided[ReviewOf[Entry]] =>
            \A q \in Prerequisite[Entry] : page.decided[q] = (q \in permitted)
      BY <3>3, <2>1 DEF Known
    <3> QED
      BY <2>3, <3>2, <3>4, Zenon DEF Passes, Usable
  <2> QED
    BY <2>2, <2>3
<1>10. ~Passes(Entry) => result = page.result
  OBVIOUS
<1> HIDE DEF result
<1>11. page' \in PageTypes
  <2>1. page.index + 1 \in Nat /\ page.checks + 1 \in Nat
    BY <1>5
  <2> QED
    BY <1>1, <1>3, <1>6, <2>1, Zenon DEF PageTypes
<1>12. SearchTypeOK'
  <2>1. Len(page.result) \in Nat /\ Len(result) \in Nat /\ Len(page.filtered) \in Nat
    BY <1>5, <1>6, CatalogIs
  <2>2. PageTypeOK'
    <3>1. CheckLimit \in Nat /\ PageLimit \in Nat
      BY SearchAssumption
    <3>2. DOMAIN page.decided \subseteq Reviews
      BY <1>1, PageIs
    <3>3. /\ page.index + 1 \in 0 .. Len(page.filtered) /\ page.checks + 1 \in 0 .. CheckLimit
          /\ Len(result) <= PageLimit
      <4>1. /\ page.index \in Nat /\ page.index < Len(page.filtered)
            /\ page.checks \in Nat /\ page.checks < CheckLimit
        BY <1>5
      <4>2. Len(result) <= Len(page.result) + 1 /\ Len(page.result) < PageLimit
        BY <1>5, <1>6
      <4> QED
        BY <4>1, <4>2, <2>1, <3>1
    <3>4. result \in Seq(Entries)
      BY <1>6
    <3> QED
      BY <1>4, <3>2, <3>3, <3>4 DEF PageTypeOK
  <2> QED
    BY <1>1, <1>2, <2>2 DEF SearchTypeOK
<1>13. PageHolds'
  <2>1. Listed(result) \subseteq Span(page.filtered, cursor + 1, page.index + 1)
    <3>1. Listed(page.result) \subseteq Span(page.filtered, cursor + 1, page.index + 1)
      BY <1>1, <1>5 DEF PageHolds, Span
    <3>2. Entry \in Span(page.filtered, cursor + 1, page.index + 1)
      <4>1. cursor <= page.index /\ cursor \in Nat /\ page.index \in Nat
        BY <1>1, <1>5 DEF PageHolds
      <4>2. page.index + 1 \in cursor + 1 .. page.index + 1
        BY <4>1
      <4> QED
        BY <1>5, <4>2 DEF Span
    <3> QED
      BY <3>1, <3>2, <1>6
  <2>2. ASSUME ~altered, NEW k \in cursor + 1 .. page.index + 1
        PROVE  page.filtered[k] \in Listed(result) <=> Usable(page.filtered[k])
    <3>1. CASE k = page.index + 1
      <4>1. Passes(Entry) <=> Usable(Entry)
        BY <1>9, <2>2
      <4>2. Entry \in Listed(result) <=> Passes(Entry)
        BY <1>6, <1>7, <1>10, Zenon
      <4> QED
        BY <4>1, <4>2, <3>1, <1>5
    <3>2. CASE k \in cursor + 1 .. page.index
      <4>1. page.filtered[k] \in Listed(page.result) <=> Usable(page.filtered[k])
        BY <1>1, <2>2, <3>2 DEF PageHolds
      <4>2. page.filtered[k] # Entry
        <5>1. /\ k \in DOMAIN page.filtered /\ page.index + 1 \in DOMAIN page.filtered
              /\ k < page.index + 1 /\ page.filtered[k] \in Nat
          <6>1. DOMAIN page.filtered = 1 .. Len(page.filtered) /\ Len(page.filtered) \in Nat
            BY <1>5, CatalogIs
          <6>2. page.filtered \in Seq(Nat)
            BY <1>5, CatalogIs
          <6>3. /\ k \in 1 .. Len(page.filtered) /\ page.index + 1 \in 1 .. Len(page.filtered)
                /\ k < page.index + 1
            BY <3>2, <6>1, <1>5
          <6> QED
            BY <6>1, <6>2, <6>3
        <5>2. page.filtered[k] < page.filtered[page.index + 1]
          BY <5>1, <1>5, CatalogIs DEF Increasing
        <5> QED
          BY <5>1, <5>2, <1>5
      <4> QED
        BY <4>1, <4>2, <1>6
    <3> QED
      BY <3>1, <3>2, <1>5
  <2>3. \A e : Usable(e)' <=> Usable(e)
    BY <1>2 DEF Usable
  <2>4. ~done /\ cursor <= page.index + 1
    BY <1>1, <1>5 DEF PageHolds
  <2> QED
    BY <1>1, <1>2, <1>4, <1>8, <2>1, <2>2, <2>3, <2>4 DEF PageHolds
<1>14. CostHolds'
  <2>1. page'.asked <= 2 * page'.checks
    BY <1>1, <1>4, <1>5 DEF CostHolds
  <2>2. page'.asked \in Nat /\ page'.checks \in Nat
    BY <1>4, <1>5
  <2>3. IsFiniteSet(DOMAIN page'.decided) /\ page'.asked = Cardinality(DOMAIN page'.decided)
    BY <1>1, <1>4 DEF CostHolds
  <2>4. /\ page'.asked <= 2 * page'.checks + 2
        /\ ~(page'.asked > 2 * page'.checks) /\ ~(page'.asked > 2 * page'.checks + 1)
    BY <2>1, <2>2
  <2> QED
    BY <2>3, <2>4 DEF CostHolds
<1>15. PagesHold'
  BY <1>1, <1>2 DEF PagesHold, Usable, Authorized
<1> QED
  BY <1>1, <1>4, <1>11, <1>12, <1>13, <1>14, <1>15 DEF SearchInv

\* The answer: the client puts the page behind the others and goes on at
\* nextCursor, or is done.
LEMMA EndsStep == SearchInv /\ PageEnds => SearchInv'
PROOF
<1> SUFFICES ASSUME SearchInv, PageEnds PROVE SearchInv'
  OBVIOUS
<1>1. SearchTypeOK /\ PagesHold /\ PageHolds /\ page.open
  BY DEF SearchInv, PageEnds
<1>2. /\ UNCHANGED <<catalog, permitted, moved, altered, upsets>>
      /\ page' = NoPage /\ pages' = pages \o page.result
  BY DEF PageEnds
<1>3. \/ page.index < Len(page.filtered) /\ cursor' = page.index /\ done' = done
      \/ page.index = Len(page.filtered) /\ done' = TRUE /\ cursor' = cursor
  BY DEF PageEnds, NextIndex
<1>4. /\ page.filtered \in Catalogs /\ page.index \in Nat /\ page.index <= Len(page.filtered)
      /\ page.result \in Seq(Entries) /\ ~done /\ cursor <= page.index
  BY <1>1, PageIs DEF PageHolds
<1>5. /\ catalog \in Catalogs /\ pages \in Seq(Entries) /\ cursor \in Nat
      /\ Cardinality(Entries) \in Nat /\ Entries \subseteq Nat
  BY <1>1, SearchAssumption, FS_CardinalityType DEF SearchTypeOK
<1>6. page.result \in Seq(Nat) /\ pages \in Seq(Nat)
  <2>1. \A s \in Seq(Entries) : Len(s) \in Nat /\ s \in [1 .. Len(s) -> Entries]
    OBVIOUS
  <2>2. \A s \in Seq(Entries) : Len(s) \in Nat /\ s \in [1 .. Len(s) -> Nat]
    BY <2>1, <1>5, Zenon
  <2>3. \A s \in Seq(Entries) : s \in Seq(Nat)
    BY <2>2
  <2> QED
    BY <2>3, <1>4, <1>5
<1>7. Listed(pages') = Listed(pages) \cup Listed(page.result)
  BY <1>2, <1>6, PagesJoined
<1>8. SearchTypeOK'
  <2>1. PageTypeOK'
    BY <1>2 DEF PageTypeOK
  <2>2. pages' \in Seq(Entries)
    BY <1>2, <1>4, <1>5
  <2>3. cursor' \in 0 .. Cardinality(Entries)
    BY <1>1, <1>3, <1>4, <1>5, CatalogIs DEF SearchTypeOK
  <2>4. done' \in BOOLEAN
    BY <1>1, <1>3, Zenon DEF SearchTypeOK
  <2> QED
    BY <1>1, <1>2, <2>1, <2>2, <2>3, <2>4 DEF SearchTypeOK
<1>9. ASSUME ~moved
      PROVE  /\ page.filtered = catalog /\ Increasing(pages')
             /\ page.index \in 0 .. Len(catalog) /\ Len(catalog) \in Nat
             /\ Listed(pages) \subseteq Span(catalog, 1, cursor)
             /\ Listed(page.result) \subseteq Span(catalog, cursor + 1, page.index)
             /\ Listed(pages') \subseteq Span(catalog, 1, page.index)
  <2>1. page.filtered = catalog /\ page.index \in 0 .. Len(catalog) /\ Len(catalog) \in Nat
    <3>1. page.filtered = catalog
      BY <1>1, <1>9 DEF PageHolds
    <3>2. Len(catalog) \in Nat
      BY <1>5, CatalogIs
    <3> QED
      BY <3>1, <3>2, <1>4
  <2>2. /\ Increasing(pages) /\ Increasing(page.result)
        /\ Listed(pages) \subseteq Span(catalog, 1, cursor)
        /\ Listed(page.result) \subseteq Span(catalog, cursor + 1, page.index)
    BY <1>1, <1>4, <1>9, <2>1 DEF PageHolds, PagesHold
  <2>3. \A x \in Listed(pages), y \in Listed(page.result) : x < y
    BY <2>1, <2>2, <1>4, <1>5, SpansApart
  <2>4. Increasing(pages')
    BY <1>2, <1>6, <2>2, <2>3, PagesJoined
  <2>5. /\ Span(catalog, 1, cursor) \subseteq Span(catalog, 1, page.index)
        /\ Span(catalog, cursor + 1, page.index) \subseteq Span(catalog, 1, page.index)
    BY <1>4, <1>5 DEF Span
  <2> QED
    BY <2>1, <2>2, <2>4, <2>5, <1>7
<1>10. ASSUME ~moved, ~altered, NEW k \in 1 .. page.index
       PROVE  catalog[k] \in Listed(pages') <=> Usable(catalog[k])
  <2>0. page.filtered = catalog
    BY <1>9, <1>10
  <2>1. CASE k \in 1 .. cursor
    <3>1. catalog[k] \in Listed(pages) <=> Usable(catalog[k])
      BY <1>1, <1>4, <1>10, <2>1 DEF PagesHold
    <3>2. catalog[k] \notin Listed(page.result)
      <4> SUFFICES ASSUME catalog[k] \in Listed(page.result) PROVE FALSE
        OBVIOUS
      <4>1. catalog[k] \in Span(catalog, 1, cursor)
        BY <2>1 DEF Span
      <4>2. catalog[k] \in Span(catalog, cursor + 1, page.index)
        BY <1>9, <1>10
      <4>3. catalog[k] < catalog[k]
        BY <4>1, <4>2, <1>4, <1>5, <2>0, SpansApart
      <4>4. catalog[k] \in Nat
        BY <1>4, <1>5, <2>0, CatalogIs
      <4> QED
        BY <4>3, <4>4
    <3> QED
      BY <3>1, <3>2, <1>7
  <2>2. CASE k \in cursor + 1 .. page.index
    <3>1. catalog[k] \in Listed(page.result) <=> Usable(catalog[k])
      BY <1>1, <1>10, <2>0, <2>2 DEF PageHolds
    <3>2. catalog[k] \notin Listed(pages)
      <4> SUFFICES ASSUME catalog[k] \in Listed(pages) PROVE FALSE
        OBVIOUS
      <4>1. catalog[k] \in Span(catalog, cursor + 1, page.index)
        BY <2>2 DEF Span
      <4>2. catalog[k] \in Span(catalog, 1, cursor)
        BY <1>9, <1>10
      <4>3. catalog[k] < catalog[k]
        BY <4>1, <4>2, <1>4, <1>5, <2>0, SpansApart
      <4>4. catalog[k] \in Nat
        BY <1>4, <1>5, <2>0, CatalogIs
      <4> QED
        BY <4>3, <4>4
    <3> QED
      BY <3>1, <3>2, <1>7
  <2> QED
    BY <2>1, <2>2, <1>4, <1>5
<1>11. PagesHold'
  <2>1. \A e : Usable(e)' <=> Usable(e)
    BY <1>2, Zenon DEF Usable
  <2>2. CASE page.index < Len(page.filtered) /\ cursor' = page.index /\ done' = done
    BY <2>1, <2>2, <1>2, <1>4, <1>9, <1>10, Zenon DEF PagesHold
  <2>3. CASE page.index = Len(page.filtered) /\ done' = TRUE /\ cursor' = cursor
    <3>1. ASSUME ~moved, ~altered PROVE Listed(pages') = Authorized
      <4>1. page.index = Len(catalog) /\ DOMAIN catalog = 1 .. page.index
        BY <2>3, <3>1, <1>5, <1>9, CatalogIs
      <4>2. Listed(catalog) = Span(catalog, 1, page.index)
        BY <4>1 DEF Listed, Span
      <4>3. \A e \in Listed(catalog) : e \in Listed(pages') <=> Usable(e)
        BY <3>1, <4>1, <1>10 DEF Listed
      <4>4. Listed(pages') \subseteq Listed(catalog)
        BY <3>1, <4>2, <1>9
      <4> QED
        BY <4>3, <4>4 DEF Authorized, Usable
    <3>2. Authorized' = Authorized
      BY <1>2 DEF Authorized
    <3> QED
      BY <2>3, <3>1, <3>2, <1>2, <1>9 DEF PagesHold
  <2> QED
    BY <2>2, <2>3, <1>3, Zenon
<1>12. page'.open = FALSE
  BY <1>2 DEF NoPage
<1> QED
  BY <1>8, <1>11, <1>12, Zenon DEF SearchInv

\* Every step keeps the invariant.
LEMMA SearchStep == SearchInv /\ [SearchNext]_searchVars => SearchInv'
PROOF
<1> SUFFICES ASSUME SearchInv, [SearchNext]_searchVars PROVE SearchInv'
  OBVIOUS
<1>1. CASE UNCHANGED searchVars
  <2>1. /\ SearchTypeOK' = SearchTypeOK /\ PageHolds' = PageHolds /\ CostHolds' = CostHolds
        /\ PagesHold' = PagesHold
    BY <1>1, ZenonT(30) DEF searchVars, SearchTypeOK, PageTypeOK, PageHolds, Usable, CostHolds, PageOver,
                Known, Entry, PagesHold, Authorized
  <2> QED
    BY <1>1, <2>1, Zenon DEF searchVars, SearchInv
<1> QED
  BY <1>1, BeginStep, OutsideStep, AskStep, DecideStep, EndsStep, FailsStep, RefreshStep, AlterStep
     DEF SearchNext, PageStep

\* searchCatalog: a client that follows nextCursor to the end has every capability
\* it may use, in order and once, however the pages are cut and however often one
\* fails, unless the catalog or its permissions change on the way; what permissions
\* alone do never repeats an entry; and a page costs the API server at most two
\* reviews for each capability it may check.
THEOREM PagesStayExact == SearchSpec => []PagesExact
PROOF
<1>1. SearchInv => PagesExact
  <2> SUFFICES ASSUME SearchInv PROVE PagesExact
    OBVIOUS
  <2>1. SearchTypeOK /\ PagesComplete /\ PagesInOrder
    BY DEF SearchInv, PagesHold, PagesComplete, PagesInOrder
  <2>2. ASSUME page.open
        PROVE  page.asked = Cardinality(DOMAIN page.decided) /\ page.asked <= 2 * CheckLimit
    <3>1. CostHolds
      BY <2>2 DEF SearchInv
    <3>2. page.asked \in Nat /\ page.checks \in Nat /\ CheckLimit \in Nat /\ page.checks <= CheckLimit
      BY <2>2, PageIs, SearchAssumption
    <3>3. CASE page.asked > 2 * page.checks
      <4>1. Looking
        BY <2>2, <3>1, <3>3 DEF CostHolds, Looking
      <4>2. page.checks < CheckLimit
        BY <4>1, EntryIs
      <4> QED
        BY <3>1, <3>2, <4>2 DEF CostHolds
    <3>4. CASE ~(page.asked > 2 * page.checks)
      BY <3>1, <3>2, <3>4 DEF CostHolds
    <3> QED
      BY <3>3, <3>4
  <2> QED
    BY <2>1, <2>2 DEF PagesExact, ReviewsBounded
<1> QED
  BY <1>1, SearchStarts, SearchStep, PTL DEF SearchSpec

-----------------------------------------------------------------------------
(* BoundedIO: what is kept of a stream, for every limit, every stream and  *)
(* every way it comes in pieces.                                           *)

\* The first n bytes of a stream.
LEMMA IntervalIsSeq ==
  ASSUME NEW a \in Nat, NEW n \in Nat
  PROVE  /\ Interval(a, a + n) \in Seq(Nat) /\ Len(Interval(a, a + n)) = n
         /\ \A i \in 1 .. n : Interval(a, a + n)[i] = a + i
<1>1. a + n - a = n
  OBVIOUS
<1>2. Interval(a, a + n) = [i \in 1 .. n |-> a + i]
  BY <1>1 DEF Interval
<1>3. \A i \in 1 .. n : a + i \in Nat
  OBVIOUS
<1> QED
  BY <1>2, <1>3

\* Appending the bytes that follow.
LEMMA IntervalGrows ==
  ASSUME NEW a \in Nat, NEW n \in Nat
  PROVE  Interval(0, a) \o Interval(a, a + n) = Interval(0, a + n)
<1> DEFINE s == Interval(0, a)
           t == Interval(a, a + n)
           u == Interval(0, a + n)
<1>1. 0 + a = a /\ 0 + (a + n) = a + n /\ a + n \in Nat
  OBVIOUS
<1>2. s \in Seq(Nat) /\ Len(s) = a /\ \A i \in 1 .. a : s[i] = i
  <2>1. \A i \in 1 .. a : 0 + i = i
    OBVIOUS
  <2> QED
    BY <1>1, <2>1, IntervalIsSeq
<1>3. t \in Seq(Nat) /\ Len(t) = n /\ \A i \in 1 .. n : t[i] = a + i
  BY IntervalIsSeq, ZenonT(30)
<1>4. u \in Seq(Nat) /\ Len(u) = a + n /\ \A i \in 1 .. a + n : u[i] = i
  <2>1. \A i \in 1 .. a + n : 0 + i = i
    OBVIOUS
  <2> QED
    BY <1>1, <2>1, IntervalIsSeq
<1> HIDE DEF s, t, u
<1> DEFINE w == s \o t
<1>5. /\ w \in Seq(Nat) /\ Len(w) = a + n
      /\ \A i \in 1 .. a + n : w[i] = IF i <= a THEN s[i] ELSE t[i - a]
  BY <1>2, <1>3
<1> HIDE DEF w
<1>6. \A i \in 1 .. a + n : w[i] = u[i]
  <2> TAKE i \in 1 .. a + n
  <2>1. i \in Int /\ u[i] = i
    BY <1>4
  <2>2. CASE i <= a
    BY <1>2, <1>5, <2>1, <2>2
  <2>3. CASE ~(i <= a)
    <3>1. i - a \in 1 .. n /\ a + (i - a) = i
      BY <2>1, <2>3
    <3> QED
      BY <1>3, <1>5, <2>1, <2>3, <3>1
  <2> QED
    BY <2>2, <2>3
<1>7. w = u
  BY <1>4, <1>5, <1>6
<1> QED
  BY <1>7 DEF s, t, u, w

\* The smaller of two lengths.
LEMMA SmallerIs ==
  ASSUME NEW a \in Int, NEW b \in Int
  PROVE  /\ Smaller(a, b) \in Int /\ Smaller(a, b) <= a /\ Smaller(a, b) <= b
         /\ Smaller(a, b) = a \/ Smaller(a, b) = b
         /\ a <= b => Smaller(a, b) = a
  BY DEF Smaller

\* What is kept while a body is read or a command runs.
BodyInv ==
  reader = "body" =>
    /\ length \in Nat /\ pos \in Nat /\ pos <= length
    /\ Len(kept) \in Nat
    /\ BodyExact
    /\ ended = "" => Len(kept) = pos

BufferInv ==
  reader = "buffer" =>
    /\ length \in Nat /\ pos \in Nat /\ pos <= length
    /\ BufferExact

\* One Read of a body passes on what fits and notices what does not.
LEMMA BodyReadKeeps ==
  ASSUME NEW size \in Nat, NEW got \in Nat, size > 0
  PROVE  BodyInv /\ BodyRead(size, got) => BodyInv'
<1>a. SUFFICES ASSUME BodyInv, BodyRead(size, got) PROVE BodyInv'
  OBVIOUS
<1> DEFINE m == Smaller(got, Remaining)
<1>0. /\ reader = "body" /\ length \in Nat /\ pos \in Nat /\ pos <= length
      /\ Len(kept) = pos /\ kept = Interval(0, pos) /\ pos <= Limit /\ Limit \in Nat
      /\ Remaining = Limit - pos
  BY <1>a, BoundedIOAssumption, ZenonT(30) DEF BodyRead, BodyInv, BodyExact, Remaining
<1> DEFINE w == Smaller(Asked(size), length - pos)
<1>1. /\ got \in 1 .. w
      /\ kept' = kept \o Interval(pos, pos + m)
  BY <1>a, ZenonT(30) DEF BodyRead
<1>2. pos' = pos + got /\ reader' = reader /\ length' = length
  BY <1>a, ZenonT(30) DEF BodyRead, Fixed
<1>3. ended' = IF got > Remaining THEN "too large" ELSE ""
  BY <1>a, ZenonT(30) DEF BodyRead
<1>4. got >= 1 /\ got <= length - pos
  <2>1. Remaining + 1 \in Int /\ length - pos \in Int
    BY <1>0
  <2>2. Asked(size) \in Int
    BY <2>1, SmallerIs DEF Asked
  <2>3. w \in Int /\ w <= length - pos
    BY <2>1, <2>2, SmallerIs
  <2>4. got \in 1 .. w
    BY <1>1
  <2> HIDE DEF w
  <2> QED
    BY <1>0, <2>3, <2>4
<1>5. m \in Nat /\ m <= got /\ pos + m <= Limit /\ (got <= Remaining => m = got)
  <2>1. Remaining \in Nat
    BY <1>0
  <2>2. /\ m \in Int /\ m <= got /\ m <= Remaining /\ (m = got \/ m = Remaining)
        /\ got <= Remaining => m = got
    BY <2>1, SmallerIs
  <2> HIDE DEF m
  <2> QED
    BY <1>0, <2>1, <2>2
<1> HIDE DEF m, w
<1>6. kept' = Interval(0, pos + m)
  BY <1>0, <1>1, <1>5, IntervalGrows, ZenonT(30)
<1>7. Len(kept') = pos + m
  <2>1. pos + m \in Nat /\ 0 + (pos + m) = pos + m
    BY <1>0, <1>5
  <2> QED
    BY <1>6, <2>1, IntervalIsSeq, 0 \in Nat
<1>8. kept' = Interval(0, Len(kept'))
  BY <1>6, <1>7
<1> DEFINE n == Len(kept')
<1>9. n = pos + m
  BY <1>7
<1> HIDE DEF n
<1>10. n \in Nat /\ n <= Limit /\ length' \in Nat /\ pos' \in Nat /\ pos' <= length'
  BY <1>0, <1>2, <1>4, <1>5, <1>9
<1>11. (ended' = "too large" /\ length' > Limit) \/ (ended' = "" /\ n = pos')
  <2>0. length \in Nat /\ pos \in Nat /\ Limit \in Nat /\ Remaining = Limit - pos
    BY <1>0
  <2>1. CASE got > Remaining
    <3>1. ended' = "too large"
      BY <1>3, <2>1, ZenonT(30)
    <3>2. length' > Limit
      BY <2>0, <1>2, <1>4, <2>1
    <3> QED
      BY <3>1, <3>2, ZenonT(30)
  <2>2. CASE ~(got > Remaining)
    <3>1. ended' = ""
      BY <1>3, <2>2, ZenonT(30)
    <3>2. n = pos'
      BY <2>0, <1>2, <1>5, <1>9, <2>2
    <3> QED
      BY <3>1, <3>2, ZenonT(30)
  <2> QED
    BY <2>1, <2>2, ZenonT(30)
<1> QED
  BY <1>8, <1>10, <1>11, ZenonT(30) DEF BodyInv, BodyExact, n

\* A body is taken for whole only when nothing is left, not when nothing fits.
LEMMA BodyEOFKeeps ==
  ASSUME NEW size \in Nat, size > 0
  PROVE  BodyInv /\ BodyEOF(size) => BodyInv'
<1>a. SUFFICES ASSUME BodyInv, BodyEOF(size) PROVE BodyInv'
  OBVIOUS
<1>0. /\ reader = "body" /\ length \in Nat /\ pos \in Nat /\ pos <= length
      /\ Len(kept) = pos /\ kept = Interval(0, Len(kept)) /\ pos <= Limit /\ Limit \in Nat
      /\ Remaining = Limit - pos
  BY <1>a, BoundedIOAssumption, ZenonT(30) DEF BodyEOF, BodyInv, BodyExact, Remaining
<1>1. length - pos = 0
  <2>1. Remaining + 1 \in Int /\ Remaining + 1 >= 1 /\ length - pos \in Int
    BY <1>0
  <2>2. Asked(size) \in Int /\ Asked(size) >= 1
    <3>1. \A r \in Int : r >= 1 => Smaller(size, r) \in Int /\ Smaller(size, r) >= 1
      BY DEF Smaller
    <3> QED
      BY <2>1, <3>1 DEF Asked
  <2>3. Smaller(Asked(size), length - pos) = 0
    BY <1>a, ZenonT(30) DEF BodyEOF
  <2>4. Asked(size) = 0 \/ length - pos = 0
    BY <2>1, <2>2, <2>3, SmallerIs
  <2> QED
    BY <2>2, <2>4
<1>2. ended' = "eof" /\ reader' = reader /\ length' = length /\ pos' = pos /\ kept' = kept
  BY <1>a, ZenonT(30) DEF BodyEOF, Fixed
<1>3. kept' = Interval(0, Len(kept')) /\ Len(kept') = pos'
  BY <1>0, <1>2
<1> QED
  BY <1>0, <1>1, <1>2, <1>3 DEF BodyInv, BodyExact

\* One Write of a remote command's output keeps the part of it that fits.
LEMMA BufferWriteKeeps ==
  ASSUME NEW size \in Nat
  PROVE  BufferInv /\ BufferWrite(size) => BufferInv'
<1>a. SUFFICES ASSUME BufferInv, BufferWrite(size) PROVE BufferInv'
  OBVIOUS
<1> DEFINE c == Smaller(pos, Limit)
           k == Smaller(size, Remaining)
           d == Smaller(pos + size, Limit)
<1>0. /\ reader = "buffer" /\ length \in Nat /\ pos \in Nat /\ pos <= length /\ Limit \in Nat
      /\ kept = Interval(0, c) /\ (cutOff <=> pos > Limit)
  BY <1>a, BoundedIOAssumption, ZenonT(30) DEF BufferWrite, BufferInv, BufferExact
<1>1. size \in 1 .. length - pos
  BY <1>a, ZenonT(30) DEF BufferWrite
<1>2. pos' = pos + size /\ reader' = reader /\ length' = length
  BY <1>a, ZenonT(30) DEF BufferWrite, Fixed
<1>3. kept' = kept \o Interval(pos, pos + k)
  BY <1>a, ZenonT(30) DEF BufferWrite, BufferKeeps
<1>4. cutOff' = (cutOff \/ size > Remaining)
  BY <1>a, ZenonT(30) DEF BufferWrite
<1>5. c \in Nat /\ (pos <= Limit => c = pos) /\ (pos > Limit => c = Limit)
  BY <1>0 DEF Smaller
<1>6. Remaining = Limit - c
  <2>1. 0 + c = c
    BY <1>5
  <2>2. Len(Interval(0, 0 + c)) = c
    BY <1>5, IntervalIsSeq, 0 \in Nat
  <2> QED
    BY <1>0, <2>1, <2>2 DEF Remaining
<1>7. d \in Nat /\ (pos + size <= Limit => d = pos + size) /\ (pos + size > Limit => d = Limit)
  BY <1>0 DEF Smaller
<1>8. k \in Nat /\ c + k = d /\ (c # pos => k = 0)
  <2>1. Remaining \in Nat /\ Limit - c \in Nat
    BY <1>0, <1>5, <1>6
  <2>2. k \in Nat /\ (size <= Remaining => k = size) /\ (size > Remaining => k = Remaining)
    BY <2>1 DEF Smaller
  <2> HIDE DEF c, d, k
  <2> QED
    BY <1>0, <1>5, <1>6, <1>7, <2>2
<1> HIDE DEF c, d, k
<1>9. kept' = Interval(0, d)
  <2>1. Interval(c, c + k) = Interval(pos, pos + k)
    <3>1. CASE c = pos
      BY <3>1
    <3>2. CASE c # pos
      <4>1. k = 0 /\ c + k - c = 0 /\ pos + k - pos = 0
        BY <1>0, <1>5, <1>8, <3>2
      <4>2. \A a, b \in Nat : b - a = 0 => Interval(a, b) = << >>
        BY DEF Interval
      <4>3. c + k \in Nat /\ pos + k \in Nat
        BY <1>0, <1>5, <1>8
      <4> QED
        BY <1>0, <1>5, <4>1, <4>2, <4>3
    <3> QED
      BY <3>1, <3>2
  <2>2. Interval(0, c) \o Interval(c, c + k) = Interval(0, c + k)
    BY <1>5, <1>8, IntervalGrows, ZenonT(30)
  <2> QED
    BY <1>0, <1>3, <1>8, <2>1, <2>2
<1>10. cutOff' <=> pos' > Limit
  <2>1. size > Remaining <=> (pos > Limit \/ pos + size > Limit)
    BY <1>0, <1>1, <1>5, <1>6
  <2>2. pos > Limit \/ pos + size > Limit <=> pos + size > Limit
    BY <1>0, <1>1
  <2>3. cutOff' <=> (pos > Limit \/ size > Remaining)
    BY <1>0, <1>4, ZenonT(30)
  <2>4. cutOff' <=> pos + size > Limit
    BY <2>1, <2>2, <2>3
  <2> QED
    BY <1>2, <2>4
<1>11. length' \in Nat /\ pos' \in Nat /\ pos' <= length'
  BY <1>0, <1>1, <1>2
<1>12. d = Smaller(pos', Limit)
  BY <1>2 DEF d
<1>13. kept' = Interval(0, Smaller(pos', Limit))
  BY <1>9, <1>12
<1> QED
  BY <1>10, <1>11, <1>13 DEF BufferInv, BufferExact

IOInv == BodyInv /\ BufferInv

\* The invariant of both readers, for every limit and every stream.
THEOREM IOInvariant == IOSpec => []IOInv
<1>1. IOInit => IOInv
  <2> SUFFICES ASSUME IOInit PROVE IOInv
    OBVIOUS
  <2>1. length \in Nat /\ pos = 0 /\ Limit \in Nat
    <3>1. length \in 0 .. MaxLength /\ pos = 0
      BY ZenonT(30) DEF IOInit
    <3> QED
      BY <3>1, BoundedIOAssumption
  <2>2. kept = << >> /\ ended = ""
    BY ZenonT(30) DEF IOInit
  <2>3. ~cutOff
    BY ZenonT(30) DEF IOInit
  <2>4. pos \in Nat /\ pos <= length /\ ~(pos > Limit) /\ 0 <= Limit
    BY <2>1
  <2>5. Smaller(pos, Limit) = 0
    BY <2>1, <2>4 DEF Smaller
  <2>6. Len(kept) = 0 /\ kept = Interval(0, 0)
    <3>1. 0 \in Nat /\ 0 + 0 = 0
      OBVIOUS
    <3>2. Interval(0, 0) \in Seq(Nat) /\ Len(Interval(0, 0)) = 0
      BY <3>1, IntervalIsSeq
    <3>3. Interval(0, 0) = << >> /\ Len(<< >>) = 0
      BY <3>2
    <3> QED
      BY <2>2, <3>3, ZenonT(30)
  <2>7. kept = Interval(0, Len(kept)) /\ Len(kept) \in Nat /\ Len(kept) <= Limit /\ Len(kept) = pos
    BY <2>1, <2>4, <2>6
  <2>8. BodyInv
    BY <2>1, <2>2, <2>4, <2>7, ZenonT(30) DEF BodyInv, BodyExact
  <2>9. BufferInv
    BY <2>1, <2>3, <2>4, <2>5, <2>6 DEF BufferInv, BufferExact
  <2> QED
    BY <2>8, <2>9 DEF IOInv
<1>2. IOInv /\ [IONext]_ioVars => IOInv'
  <2> SUFFICES ASSUME IOInv, [IONext]_ioVars PROVE IOInv'
    OBVIOUS
  <2>0. BodyInv /\ BufferInv /\ \A size \in 1 .. MaxLength : size \in Nat /\ size > 0
    BY BoundedIOAssumption DEF IOInv
  <2>1. CASE BodyDeclared
    BY <2>0, <2>1, ZenonT(30) DEF IOInv, BodyInv, BufferInv, BodyExact, BufferExact, BodyDeclared, Fixed
  <2>2. CASE \E size, got \in 1 .. MaxLength : BodyRead(size, got)
    <3>1. PICK size \in 1 .. MaxLength, got \in 1 .. MaxLength : BodyRead(size, got)
      BY <2>2
    <3>2. BodyInv'
      BY <2>0, <3>1, BodyReadKeeps
    <3>3. BufferInv'
      BY <3>1, ZenonT(30) DEF BufferInv, BodyRead, Fixed
    <3> QED
      BY <3>2, <3>3 DEF IOInv
  <2>3. CASE \E size \in 1 .. MaxLength : BodyEOF(size)
    <3>1. PICK size \in 1 .. MaxLength : BodyEOF(size)
      BY <2>3
    <3>2. BodyInv'
      BY <2>0, <3>1, BodyEOFKeeps
    <3>3. BufferInv'
      BY <3>1, ZenonT(30) DEF BufferInv, BodyEOF, Fixed
    <3> QED
      BY <3>2, <3>3 DEF IOInv
  <2>4. CASE \E size \in 1 .. MaxLength : BufferWrite(size)
    <3>1. PICK size \in 1 .. MaxLength : BufferWrite(size)
      BY <2>4
    <3>2. BufferInv'
      BY <2>0, <3>1, BufferWriteKeeps
    <3>3. BodyInv'
      BY <3>1, ZenonT(30) DEF BodyInv, BufferWrite, Fixed
    <3> QED
      BY <3>2, <3>3 DEF IOInv
  <2>5. CASE BufferDone
    BY <2>0, <2>5, ZenonT(30) DEF IOInv, BodyInv, BufferInv, BodyExact, BufferExact, BufferDone, Fixed
  <2>6. CASE LogsTooManyLines \/ LogsTooManyBytes \/ LogsLine \/ LogsEOF
    <3>1. reader' = "logs"
      BY <2>6, ZenonT(30) DEF LogsTooManyLines, LogsTooManyBytes, LogsLine, LogsEOF, LogsEnd, Fixed
    <3> QED
      BY <3>1, ZenonT(30) DEF IOInv, BodyInv, BufferInv
  <2>7. CASE StreamFails
    BY <2>0, <2>7, ZenonT(30) DEF IOInv, BodyInv, BufferInv, BodyExact, BufferExact, StreamFails, Fixed
  <2>8. CASE UNCHANGED ioVars
    BY <2>0, <2>8, ZenonT(30) DEF IOInv, BodyInv, BufferInv, BodyExact, BufferExact, ioVars
  <2> QED
    BY <2>1, <2>2, <2>3, <2>4, <2>5, <2>6, <2>7, <2>8 DEF IONext
<1> QED
  BY <1>1, <1>2, PTL DEF IOSpec

\* responseLimitBody passes on a prefix of at most the limit, calls a body whole
\* only when it is, and too large only when it is.
THEOREM BodyPassedOnExactly == IOSpec => []BodyExact
<1>1. IOInv => BodyExact
  BY ZenonT(30) DEF IOInv, BodyInv, BodyExact
<1> QED
  BY <1>1, IOInvariant, PTL

\* progressBuffer keeps the first bytes up to its limit and reports truncation
\* exactly when bytes were left out.
THEOREM OutputKeptExactly == IOSpec => []BufferExact
<1>1. IOInv => BufferExact
  BY DEF IOInv, BufferInv, BufferExact
<1> QED
  BY <1>1, IOInvariant, PTL

\* Both, for every limit and every way a stream comes in pieces.
THEOREM StreamsCutExactly == IOSpec => []CutExact
BY BodyPassedOnExactly, OutputKeptExactly, PTL DEF CutExact

\* lines hold the first n bytes of a log, each once and in order.
Gathered(lines, n) ==
  /\ lines \in Seq(Seq(Nat))
  /\ \A i \in DOMAIN lines : \A j \in DOMAIN lines[i] : lines[i][j] \in 1 .. n
  /\ \A k \in 1 .. n : \E i \in DOMAIN lines : \E j \in DOMAIN lines[i] : lines[i][j] = k
  /\ \A i \in DOMAIN lines : \A j, k \in DOMAIN lines[i] : lines[i][j] = lines[i][k] => j = k
  /\ \A i, h \in DOMAIN lines : i < h =>
       \A j \in DOMAIN lines[i], k \in DOMAIN lines[h] : lines[i][j] < lines[h][k]
  /\ \A i \in DOMAIN lines : Len(lines[i]) <= n

\* One more line with the bytes that follow.
LEMMA GatheredMore ==
  ASSUME NEW lines, NEW n \in Nat, NEW b \in Nat, Gathered(lines, n), n < b
  PROVE  /\ Gathered(Append(lines, Interval(n, b)), b)
         /\ Len(Append(lines, Interval(n, b))) = Len(lines) + 1
<1> DEFINE line == Interval(n, b)
           more == Append(lines, line)
           m == Len(lines)
<1>1. line \in Seq(Nat) /\ Len(line) = b - n /\ \A i \in 1 .. b - n : line[i] = n + i
  <2>1. PICK d \in Nat : b = n + d /\ b - n = d
    <3>1. b - n \in Nat /\ b = n + (b - n)
      OBVIOUS
    <3> QED BY <3>1
  <2>2. /\ Interval(n, n + d) \in Seq(Nat) /\ Len(Interval(n, n + d)) = d
        /\ \A i \in 1 .. d : Interval(n, n + d)[i] = n + i
    BY IntervalIsSeq, Zenon
  <2> QED BY <2>1, <2>2
<1>2. DOMAIN line = 1 .. b - n
  BY <1>1
<1> HIDE DEF line
<1>3. lines \in Seq(Seq(Nat)) /\ m \in Nat /\ DOMAIN lines = 1 .. m
  BY DEF Gathered
<1>4. /\ more \in Seq(Seq(Nat)) /\ DOMAIN more = 1 .. m + 1 /\ Len(more) = m + 1
      /\ \A i \in 1 .. m : more[i] = lines[i]
      /\ more[m + 1] = line
  BY <1>1, <1>3
<1> HIDE DEF more, m
<1>5. \A i \in DOMAIN more : \/ i \in DOMAIN lines /\ i \in 1 .. m /\ more[i] = lines[i]
                             \/ i = m + 1 /\ more[i] = line
  BY <1>3, <1>4
<1>6. \A j \in DOMAIN line : line[j] \in n + 1 .. b
  BY <1>1, <1>2
<1>7. \A i \in DOMAIN more : \A j \in DOMAIN more[i] : more[i][j] \in 1 .. b
  <2> TAKE i \in DOMAIN more
  <2>1. CASE i \in DOMAIN lines /\ more[i] = lines[i]
    BY <2>1 DEF Gathered
  <2>2. CASE more[i] = line
    BY <2>2, <1>6
  <2> QED BY <2>1, <2>2, <1>5
<1>8. ASSUME NEW k \in 1 .. b
      PROVE  \E i \in DOMAIN more : \E j \in DOMAIN more[i] : more[i][j] = k
  <2>1. CASE k <= n
    <3>1. PICK i \in DOMAIN lines : \E j \in DOMAIN lines[i] : lines[i][j] = k
      BY <2>1 DEF Gathered
    <3>2. i \in DOMAIN more /\ more[i] = lines[i]
      BY <1>3, <1>4
    <3> QED BY <3>1, <3>2
  <2>2. CASE ~(k <= n)
    <3>1. k - n \in DOMAIN line /\ line[k - n] = k
      BY <2>2, <1>1, <1>2
    <3>2. m + 1 \in DOMAIN more
      BY <1>3, <1>4
    <3> QED BY <3>1, <3>2, <1>4
  <2> QED BY <2>1, <2>2
<1>9. \A i \in DOMAIN more : \A j, k \in DOMAIN more[i] : more[i][j] = more[i][k] => j = k
  <2> TAKE i \in DOMAIN more
  <2>1. CASE i \in DOMAIN lines /\ more[i] = lines[i]
    BY <2>1 DEF Gathered
  <2>2. CASE more[i] = line
    BY <2>2, <1>1, <1>2
  <2> QED BY <2>1, <2>2, <1>5
<1>10. ASSUME NEW i \in DOMAIN more, NEW h \in DOMAIN more, i < h,
              NEW j \in DOMAIN more[i], NEW k \in DOMAIN more[h]
       PROVE  more[i][j] < more[h][k]
  <2>1. i \in DOMAIN lines /\ more[i] = lines[i]
    BY <1>3, <1>4, <1>5, <1>10
  <2>2. CASE h \in DOMAIN lines /\ more[h] = lines[h]
    BY <2>1, <2>2, <1>10 DEF Gathered
  <2>3. CASE more[h] = line
    <3>1. lines[i][j] \in 1 .. n
      BY <2>1, <1>10, Zenon DEF Gathered
    <3>2. line[k] \in n + 1 .. b
      BY <2>3, <1>6, <1>10
    <3> QED BY <2>1, <2>3, <3>1, <3>2
  <2> QED BY <2>2, <2>3, <1>5
<1>11. \A i \in DOMAIN more : Len(more[i]) <= b
  <2> TAKE i \in DOMAIN more
  <2>1. CASE i \in DOMAIN lines /\ more[i] = lines[i]
    <3>1. lines[i] \in Seq(Nat) /\ Len(lines[i]) <= n /\ Len(lines[i]) \in Nat
      BY <2>1, <1>3 DEF Gathered
    <3> QED BY <2>1, <3>1
  <2>2. CASE more[i] = line
    BY <2>2, <1>1
  <2> QED BY <2>1, <2>2, <1>5
<1>12. Gathered(more, b)
  BY <1>4, <1>7, <1>8, <1>9, <1>10, <1>11, Zenon DEF Gathered
<1> QED BY <1>4, <1>12 DEF more, m, line

\* The bytes of the lines, one by one, are as many as there are.
LEMMA GatheredJoined ==
  ASSUME length \in Nat, pos \in Nat, pos <= length, Gathered(kept, pos)
  PROVE  /\ {kept[t[1]][t[2]] : t \in Joined} = 1 .. pos /\ Cardinality(Joined) = pos
         /\ \A s, t \in Joined : s[1] < t[1] => kept[s[1]][s[2]] < kept[t[1]][t[2]]
<1>1. \A t \in Joined : t[1] \in DOMAIN kept /\ t[2] \in DOMAIN kept[t[1]]
  BY DEF Joined
<1>2. \A i \in DOMAIN kept : \A j \in DOMAIN kept[i] : <<i, j>> \in Joined
  <2> SUFFICES ASSUME NEW i \in DOMAIN kept, NEW j \in DOMAIN kept[i] PROVE <<i, j>> \in Joined
    BY Zenon
  <2>1. kept[i] \in Seq(Nat) /\ Len(kept[i]) <= pos
    BY DEF Gathered
  <2>2. j \in 1 .. length
    BY <2>1
  <2> QED BY <2>2 DEF Joined
<1>3. ASSUME NEW s \in Joined, NEW t \in Joined, s[1] < t[1]
      PROVE  kept[s[1]][s[2]] < kept[t[1]][t[2]]
  <2>1. \A i, h \in DOMAIN kept : i < h =>
          \A j \in DOMAIN kept[i], k \in DOMAIN kept[h] : kept[i][j] < kept[h][k]
    BY Zenon DEF Gathered
  <2> QED BY <1>1, <1>3, <2>1, Zenon
<1> DEFINE f == [t \in Joined |-> kept[t[1]][t[2]]]
<1>4. f \in [Joined -> 1 .. pos]
  BY <1>1 DEF Gathered
<1>5. ASSUME NEW s \in Joined, NEW t \in Joined, f[s] = f[t]
      PROVE  s = t
  <2>1. kept[s[1]][s[2]] = kept[t[1]][t[2]]
    BY <1>5
  <2>2. /\ s[1] \in DOMAIN kept /\ t[1] \in DOMAIN kept
        /\ s[2] \in DOMAIN kept[s[1]] /\ t[2] \in DOMAIN kept[t[1]]
    BY <1>1
  <2>3. kept \in Seq(Seq(Nat)) /\ kept[s[1]][s[2]] \in 1 .. pos
    BY <2>2, Zenon DEF Gathered
  <2>4. s[1] \in Int /\ t[1] \in Int
    <3>1. Len(kept) \in Nat /\ DOMAIN kept = 1 .. Len(kept)
      BY <2>3
    <3> QED BY <2>2, <3>1
  <2>5. ~(s[1] < t[1]) /\ ~(t[1] < s[1])
    <3>1. s[1] < t[1] => kept[s[1]][s[2]] < kept[t[1]][t[2]]
      BY <1>3
    <3>2. t[1] < s[1] => kept[t[1]][t[2]] < kept[s[1]][s[2]]
      BY <1>3
    <3> QED BY <2>1, <2>3, <3>1, <3>2
  <2>6. s[1] = t[1]
    BY <2>4, <2>5
  <2>7. s[2] = t[2]
    <3>1. \A i \in DOMAIN kept : \A j, k \in DOMAIN kept[i] : kept[i][j] = kept[i][k] => j = k
      BY DEF Gathered
    <3> QED BY <2>1, <2>2, <2>6, <3>1, Zenon
  <2> QED BY <2>6, <2>7 DEF Joined
<1>6. \A k \in 1 .. pos : \E t \in Joined : f[t] = k
  <2> SUFFICES ASSUME NEW k \in 1 .. pos PROVE \E t \in Joined : f[t] = k
    OBVIOUS
  <2>1. PICK i \in DOMAIN kept : \E j \in DOMAIN kept[i] : kept[i][j] = k
    BY DEF Gathered
  <2>2. PICK j \in DOMAIN kept[i] : kept[i][j] = k
    BY <2>1
  <2>3. <<i, j>> \in Joined /\ f[<<i, j>>] = k
    BY <1>2, <2>2
  <2> QED BY <2>3
<1>7. {kept[t[1]][t[2]] : t \in Joined} = 1 .. pos
  BY <1>4, <1>6
<1> HIDE DEF f
<1>8. f \in Injection(Joined, 1 .. pos) /\ f \in Surjection(Joined, 1 .. pos)
  BY <1>4, <1>5, <1>6 DEF Injection, Surjection, IsInjective
<1>9. IsFiniteSet(1 .. pos) /\ Cardinality(1 .. pos) = pos
  BY FS_Interval
<1>10. Cardinality(Joined) = pos
  BY <1>8, <1>9, FS_Injection
<1> QED BY <1>3, <1>7, <1>10

\* Followed logs: lines that hold what was read, within both limits, marked when they do
\* not hold all.
LogsInv ==
  reader = "logs" =>
    /\ length \in Nat /\ newlines \in SUBSET (1 .. length)
    /\ pos \in Nat /\ pos <= length /\ pos <= Limit
    /\ Gathered(kept, pos) /\ Len(kept) <= MaxLines
    /\ ended = "done" => (cutOff <=> pos < length \/ pos + LogEnvelope > Limit)

\* The next line ends behind what was read, at its newline or where the reader stops.
LEMMA RawEndIs ==
  ASSUME length \in Nat, newlines \in SUBSET (1 .. length), pos \in Nat,
         pos <= length, pos <= Limit
  PROVE  /\ RawEnd \in Nat /\ pos <= RawEnd /\ RawEnd <= length /\ RawEnd <= Limit + 1
         /\ RawEnd \notin newlines \/ pos = RawEnd => RawEnd = length \/ RawEnd = Limit + 1
<1> DEFINE ends == {n \in newlines : n > pos /\ n <= Available}
<1>1. /\ Available \in Nat /\ pos <= Available /\ Available <= length /\ Available <= Limit + 1
      /\ Available = length \/ Available = Limit + 1
  BY BoundedIOAssumption DEF Available, Smaller
<1>2. CASE ends = {}
  <2>1. RawEnd = Available
    BY <1>2 DEF RawEnd
  <2> QED BY <1>1, <2>1
<1>3. CASE ends # {}
  <2>1. ends \subseteq Nat /\ \A n \in ends : n \in newlines /\ n > pos /\ n <= Available
    <3>1. newlines \subseteq Nat
      OBVIOUS
    <3> QED BY <3>1, Zenon
  <2>2. PICK n \in ends : \A m \in ends : <<m, n>> \notin OpToRel(<, Nat)
    BY <1>3, <2>1, WFMin, NatLessThanWellFounded, Zenon
  <2>3. ASSUME NEW m \in ends PROVE n <= m
    <3>1. m \in Nat /\ n \in Nat
      BY <2>1
    <3>2. ~(m < n)
      BY <2>2, <3>1, Zenon DEF OpToRel
    <3> QED BY <3>1, <3>2
  <2>4. RawEnd = CHOOSE n1 \in ends : \A m \in ends : n1 <= m
    BY <1>3 DEF RawEnd
  <2> HIDE DEF ends
  <2>5. RawEnd \in ends
    BY <2>3, <2>4
  <2>6. RawEnd \in Nat /\ RawEnd \in newlines /\ RawEnd > pos /\ RawEnd <= Available
    BY <2>1, <2>5
  <2> QED BY <2>6, <1>1, BoundedIOAssumption
<1> QED BY <1>2, <1>3

\* A step of the call that follows the log.
LEMMA LogsStep ==
  ASSUME LogsInv, LogsTooManyLines \/ LogsTooManyBytes \/ LogsLine \/ LogsEOF
  PROVE  LogsInv'
<1>1. reader = "logs" /\ UNCHANGED <<reader, length, newlines>>
  BY Zenon DEF LogsTooManyLines, LogsTooManyBytes, LogsLine, LogsEOF, LogsEnd, Fixed
<1>2. /\ length \in Nat /\ newlines \in SUBSET (1 .. length)
      /\ pos \in Nat /\ pos <= length /\ pos <= Limit
      /\ Gathered(kept, pos) /\ Len(kept) <= MaxLines /\ Len(kept) \in Nat
  <2>1. Gathered(kept, pos) => Len(kept) \in Nat
    BY DEF Gathered
  <2> QED BY <1>1, <2>1 DEF LogsInv
<1>3. /\ RawEnd \in Nat /\ pos <= RawEnd /\ RawEnd <= length /\ RawEnd <= Limit + 1
      /\ RawEnd \notin newlines \/ pos = RawEnd => RawEnd = length \/ RawEnd = Limit + 1
  BY <1>2, RawEndIs
<1>4. Limit \in Nat /\ MaxLines \in Nat /\ LogEnvelope \in Nat
  BY BoundedIOAssumption
<1>5. ASSUME NEW b \in Nat, pos < b, ~LogsFull, pos < RawEnd
      PROVE  Gathered(Line(pos, b), b) /\ Len(Line(pos, b)) <= MaxLines
  <2>1. Len(kept) < MaxLines
    BY <1>2, <1>4, <1>5 DEF LogsFull
  <2> QED BY <1>2, <1>4, <1>5, <2>1, GatheredMore DEF Line
<1>6. ASSUME NEW b \in Nat, pos' = b, b <= length, b <= Limit,
             Gathered(kept', b), Len(kept') <= MaxLines,
             ended' = "done" => (cutOff' <=> b < length \/ b + LogEnvelope > Limit)
      PROVE  LogsInv'
  BY <1>1, <1>2, <1>6 DEF LogsInv
<1>7. CASE LogsTooManyLines
  <2>1. /\ pos < RawEnd /\ pos' = pos /\ kept' = kept
        /\ cutOff' = (TRUE \/ pos + LogEnvelope > Limit)
    BY <1>7, Zenon DEF LogsTooManyLines, LogsFull, LogsEnd
  <2>2. cutOff'
    BY <2>1, Zenon
  <2>3. pos < length
    BY <1>2, <1>3, <2>1
  <2> QED BY <1>2, <1>6, <2>1, <2>2, <2>3
<1>8. CASE LogsTooManyBytes
  <2>1. /\ ~LogsFull /\ RawEnd > Limit /\ pos' = Limit
        /\ kept' = IF pos < Limit THEN Line(pos, Limit) ELSE kept
        /\ cutOff' = (TRUE \/ Limit + LogEnvelope > Limit)
    BY <1>8, Zenon DEF LogsTooManyBytes, LogsEnd
  <2>2. Limit < length /\ pos < RawEnd
    BY <1>2, <1>3, <1>4, <2>1
  <2>3. Gathered(kept', Limit) /\ Len(kept') <= MaxLines
    <3>1. CASE pos < Limit
      BY <1>4, <1>5, <2>1, <2>2, <3>1
    <3>2. CASE ~(pos < Limit)
      <4>1. pos = Limit /\ kept' = kept
        BY <1>2, <1>4, <2>1, <3>2
      <4> QED BY <1>2, <4>1
    <3> QED BY <3>1, <3>2
  <2>4. cutOff'
    BY <2>1, Zenon
  <2>5. Limit <= Limit /\ Limit <= length
    BY <1>2, <1>4, <2>2
  <2> QED BY <1>4, <1>6, <2>1, <2>2, <2>3, <2>4, <2>5
<1>9. CASE LogsLine
  <2>1. /\ ~LogsFull /\ pos < RawEnd /\ RawEnd <= Limit
        /\ pos' = RawEnd /\ kept' = Line(pos, RawEnd)
    BY <1>9, Zenon DEF LogsLine
  <2>2. ended' # "done"
    BY <1>9, Zenon DEF LogsLine
  <2> QED BY <1>3, <1>5, <1>6, <2>1, <2>2
<1>10. CASE LogsEOF
  <2>1. /\ ~LogsFull /\ RawEnd <= Limit /\ (RawEnd \notin newlines \/ pos = RawEnd)
        /\ pos' = RawEnd
        /\ kept' = IF pos < RawEnd THEN Line(pos, RawEnd) ELSE kept
        /\ cutOff' = (FALSE \/ RawEnd + LogEnvelope > Limit)
    BY <1>10, Zenon DEF LogsEOF, LogsEnd
  <2>2. RawEnd = length
    BY <1>3, <1>4, <2>1
  <2>3. Gathered(kept', RawEnd) /\ Len(kept') <= MaxLines
    <3>1. CASE pos < RawEnd
      BY <1>3, <1>5, <2>1, <3>1
    <3>2. CASE ~(pos < RawEnd)
      <4>1. pos = RawEnd /\ kept' = kept
        BY <1>2, <1>3, <2>1, <3>2
      <4> QED BY <1>2, <4>1
    <3> QED BY <3>1, <3>2
  <2>4. cutOff' <=> RawEnd < length \/ RawEnd + LogEnvelope > Limit
    <3>1. ~(RawEnd < length)
      BY <1>2, <2>2
    <3> QED BY <2>1, <3>1, Zenon
  <2> QED BY <1>3, <1>6, <2>1, <2>3, <2>4
<1> QED BY <1>7, <1>8, <1>9, <1>10

\* logs with follow: however the lines lie to the limits, the result is the beginning of the
\* log, byte for byte, and is marked exactly when something is missing.
THEOREM LogsFollowedExactly == IOSpec => []LogsExact
<1>1. IOInit => LogsInv
  <2> SUFFICES ASSUME IOInit, reader = "logs" PROVE LogsInv
    BY DEF LogsInv
  <2>1. length \in 0 .. MaxLength /\ pos = 0
    BY Zenon DEF IOInit
  <2>2. kept = <<>> /\ ended # "done"
    BY Zenon DEF IOInit
  <2>3. newlines \in SUBSET (1 .. length)
    BY Zenon DEF IOInit
  <2>4. Gathered(<<>>, 0) /\ Len(<<>>) = 0
    BY DEF Gathered
  <2> QED BY <2>1, <2>2, <2>3, <2>4, BoundedIOAssumption DEF LogsInv
<1>2. LogsInv /\ [IONext]_ioVars => LogsInv'
  <2> SUFFICES ASSUME LogsInv, [IONext]_ioVars PROVE LogsInv'
    OBVIOUS
  <2>1. CASE LogsTooManyLines \/ LogsTooManyBytes \/ LogsLine \/ LogsEOF
    BY <2>1, LogsStep
  <2>2. CASE StreamFails
    BY <2>2, Zenon DEF StreamFails, Fixed, LogsInv
  <2>3. CASE reader' # "logs"
    BY <2>3 DEF LogsInv
  <2>4. CASE UNCHANGED ioVars
    BY <2>4, Zenon DEF ioVars, LogsInv
  <2>5. ASSUME NEW size, NEW got,
               \/ BodyRead(size, got) \/ BodyEOF(size) \/ BufferWrite(size)
               \/ BodyDeclared \/ BufferDone
        PROVE  reader' # "logs"
    BY <2>5, Zenon DEF BodyRead, BodyEOF, BufferWrite, BodyDeclared, BufferDone, Fixed
  <2> QED BY <2>1, <2>2, <2>3, <2>4, <2>5 DEF IONext
<1>3. LogsInv => LogsExact
  <2> SUFFICES ASSUME LogsInv, reader = "logs", ended = "done"
               PROVE  /\ {kept[t[1]][t[2]] : t \in Joined} = 1 .. pos /\ Cardinality(Joined) = pos
                      /\ \A s, t \in Joined : s[1] < t[1] => kept[s[1]][s[2]] < kept[t[1]][t[2]]
                      /\ pos <= Limit /\ Len(kept) <= MaxLines
                      /\ cutOff <=> pos < length \/ pos + LogEnvelope > Limit
    BY DEF LogsExact
  <2> QED BY GatheredJoined DEF LogsInv
<1> QED BY <1>1, <1>2, <1>3, PTL DEF IOSpec

=============================================================================
