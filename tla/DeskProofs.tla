----------------------------- MODULE DeskProofs -----------------------------
(***************************************************************************)
(* What holds of the desk for every number of pages, requests and posts:   *)
(* the cache of a workspace's feed events, the import of posts from a CSV  *)
(* file, the media of the composer's pages, the media library, the figures *)
(* of an account's posts, the calendar, the recurring posts, the statuses  *)
(* and approvals of a post's channels, the board of ideas, and the folders *)
(* of the library.                                                         *)
(***************************************************************************)
EXTENDS Feeds, CsvImport, Composer, MediaLibrary, Analytics, Calendar,
        Recurrences, Approvals, PostLifecycle, Ideas, MediaFolders,
        FiniteSetTheorems, SequenceTheorems, WellFoundedInduction, TLAPS

-----------------------------------------------------------------------------
(* The cache of a workspace's feed events                                  *)


Listings == SUBSET [id : Nat, url : Urls]
PageStates ==
    {Blind} \cup [pc : {"create"}, url : Urls, explored : BOOLEAN]
            \cup [pc : {"forget"}, explored : BOOLEAN]
            \cup [pc : {"list"}]
            \cup [pc : {"look", "fetch"}, listed : Listings]
            \cup [pc : {"store", "shown"}, listed : Listings, of : Listings, missed : Listings]
Entries ==
    {NoEntry} \cup [cached : {TRUE}, signature : Listings, of : Listings, missed : Listings]

FeedsTypeOK ==
    /\ feeds \in Listings
    /\ subscribed \in Nat
    /\ entry \in Entries
    /\ feedPage \in [FeedPages -> PageStates]

\* What a page is about to store, what it shows, and what the entry holds are
\* the events of some of the feeds it was built from, and the others are missed.
Covers(of, missed, listed) == of \cup missed = listed /\ of \cap missed = {}
FeedsInv ==
    /\ \A v \in FeedPages :
        feedPage[v].pc \in {"store", "shown"}
            => Covers(feedPage[v].of, feedPage[v].missed, feedPage[v].listed)
    /\ entry.cached => Covers(entry.of, entry.missed, entry.signature)

-----------------------------------------------------------------------------
\* The fields of a page are those of its place in the request.
LEMMA PageFields ==
    ASSUME NEW r \in PageStates
    PROVE  /\ r.pc = "create" => r.url \in Urls /\ r.explored \in BOOLEAN
           /\ r.pc = "forget" => r.explored \in BOOLEAN
           /\ r.pc \in {"look", "fetch"} => r.listed \in Listings
           /\ r.pc \in {"store", "shown"} =>
                r \in [pc : {"store", "shown"}, listed : Listings, of : Listings, missed : Listings]
  BY DEF PageStates, Blind

\* A page that goes on leaves the others where they are.
LEMMA PageGoesOn ==
    ASSUME FeedsTypeOK, FeedsInv, NEW v \in FeedPages, NEW r \in PageStates, PageGoes(v, r),
           r.pc \in {"store", "shown"} => Covers(r.of, r.missed, r.listed)
    PROVE  /\ feedPage' \in [FeedPages -> PageStates]
           /\ \A w \in FeedPages :
                feedPage'[w].pc \in {"store", "shown"}
                    => Covers(feedPage'[w].of, feedPage'[w].missed, feedPage'[w].listed)
  BY DEF FeedsTypeOK, FeedsInv, PageGoes

-----------------------------------------------------------------------------
\* At the start no page shows anything and nothing is cached.
LEMMA FeedsInvInit == FeedsInit => FeedsTypeOK /\ FeedsInv
  BY DEF FeedsInit, FeedsTypeOK, FeedsInv, Listings, PageStates, Entries, Blind, NoEntry

\* No step of a page breaks the covering.
LEMMA FeedsInvNext ==
    FeedsTypeOK /\ FeedsInv /\ [FeedsNext]_FeedsVars => (FeedsTypeOK /\ FeedsInv)'
<1> SUFFICES ASSUME FeedsTypeOK, FeedsInv, [FeedsNext]_FeedsVars
             PROVE  FeedsTypeOK' /\ FeedsInv'
  OBVIOUS
<1> DEFINE PagesKept ==
             /\ feedPage' \in [FeedPages -> PageStates]
             /\ \A w \in FeedPages :
                  feedPage'[w].pc \in {"store", "shown"}
                    => Covers(feedPage'[w].of, feedPage'[w].missed, feedPage'[w].listed)
<1>1. CASE EntryExpires
  BY <1>1 DEF EntryExpires, FeedsTypeOK, FeedsInv, Entries, NoEntry
<1>2. ASSUME NEW v \in FeedPages, FeedAdd(v)
      PROVE  FeedsTypeOK' /\ FeedsInv'
  <2>1. PagesKept
    <3>1. PICK u \in Urls, valid \in BOOLEAN, explored \in BOOLEAN :
            \/ PageGoes(v, [pc |-> "create", url |-> u, explored |-> explored])
            \/ PageGoes(v, [pc |-> "list"])
      BY <1>2 DEF FeedAdd
    <3>2. /\ [pc |-> "create", url |-> u, explored |-> explored] \in PageStates
          /\ [pc |-> "list"] \in PageStates
      BY DEF PageStates
    <3> QED
      BY <3>1, <3>2, PageGoesOn
  <2> QED
    BY <1>2, <2>1 DEF FeedAdd, FeedsTypeOK, FeedsInv
<1>3. ASSUME NEW v \in FeedPages, FeedCreate(v)
      PROVE  FeedsTypeOK' /\ FeedsInv'
  <2>1. feedPage[v] \in PageStates /\ feedPage[v].pc = "create"
    BY <1>3 DEF FeedCreate, FeedsTypeOK
  <2>2. feedPage[v].url \in Urls /\ feedPage[v].explored \in BOOLEAN
    BY <2>1, PageFields
  <2>3. PagesKept
    <3>1. Blind \in PageStates /\ [pc |-> "forget", explored |-> feedPage[v].explored] \in PageStates
      BY <2>2 DEF PageStates
    <3>2. Blind.pc = "blind"
      BY DEF Blind
    <3> QED
      BY <1>3, <3>1, <3>2, PageGoesOn DEF FeedCreate
  <2>4. feeds' \in Listings /\ subscribed' \in Nat
    BY <1>3, <2>2 DEF FeedCreate, FeedsTypeOK, Listings
  <2> QED
    BY <1>3, <2>3, <2>4 DEF FeedCreate, FeedsTypeOK, FeedsInv
<1>4. ASSUME NEW v \in FeedPages, FeedDelete(v)
      PROVE  FeedsTypeOK' /\ FeedsInv'
  <2>1. PagesKept
    <3>1. [pc |-> "forget", explored |-> FALSE] \in PageStates
      BY DEF PageStates
    <3> QED
      BY <1>4, <3>1, PageGoesOn DEF FeedDelete
  <2>2. feeds' \in Listings
    BY <1>4 DEF FeedDelete, FeedsTypeOK, Listings
  <2> QED
    BY <1>4, <2>1, <2>2 DEF FeedDelete, FeedsTypeOK, FeedsInv
<1>5. ASSUME NEW v \in FeedPages, Forget(v)
      PROVE  FeedsTypeOK' /\ FeedsInv'
  <2>1. PagesKept
    <3>1. Blind \in PageStates /\ [pc |-> "list"] \in PageStates /\ Blind.pc = "blind"
      BY DEF PageStates, Blind
    <3> QED
      BY <1>5, <3>1, PageGoesOn DEF Forget
  <2> QED
    BY <1>5, <2>1 DEF Forget, FeedsTypeOK, FeedsInv, Entries, NoEntry
<1>6. ASSUME NEW v \in FeedPages, FeedList(v)
      PROVE  FeedsTypeOK' /\ FeedsInv'
  <2>1. PagesKept
    <3>1. [pc |-> "list"] \in PageStates
      BY DEF PageStates
    <3> QED
      BY <1>6, <3>1, PageGoesOn DEF FeedList
  <2> QED
    BY <1>6, <2>1 DEF FeedList, FeedsTypeOK, FeedsInv
<1>7. ASSUME NEW v \in FeedPages, ListFeeds(v)
      PROVE  FeedsTypeOK' /\ FeedsInv'
  <2>1. PagesKept
    <3>1. [pc |-> "look", listed |-> feeds] \in PageStates
      BY DEF PageStates, FeedsTypeOK
    <3> QED
      BY <1>7, <3>1, PageGoesOn DEF ListFeeds
  <2> QED
    BY <1>7, <2>1 DEF ListFeeds, FeedsTypeOK, FeedsInv
\* A hit has the signature of the feeds listed, so what the entry covers is they.
<1>8. ASSUME NEW v \in FeedPages, ReadCache(v)
      PROVE  FeedsTypeOK' /\ FeedsInv'
  <2>1. feedPage[v].listed \in Listings
    BY <1>8, PageFields DEF ReadCache, FeedsTypeOK
  <2>2. CASE IsHit(feedPage[v].listed)
    <3> DEFINE r == [pc |-> "shown", listed |-> feedPage[v].listed,
                     of |-> entry.of, missed |-> entry.missed]
    <3>1. entry.of \in Listings /\ entry.missed \in Listings
      <4>1. entry # NoEntry
        BY <2>2 DEF IsHit, NoEntry
      <4>2. entry \in [cached : {TRUE}, signature : Listings, of : Listings, missed : Listings]
        BY <4>1 DEF FeedsTypeOK, Entries
      <4> QED
        BY <4>2
    <3>2. r \in PageStates
      BY <2>1, <3>1 DEF PageStates
    <3>3. Covers(r.of, r.missed, r.listed)
      BY <2>2 DEF IsHit, FeedsInv
    <3>4. PageGoes(v, r)
      BY <1>8, <2>2 DEF ReadCache
    <3>5. PagesKept
      BY <3>2, <3>3, <3>4, PageGoesOn
    <3> QED
      BY <1>8, <3>5 DEF ReadCache, FeedsTypeOK, FeedsInv
  <2>3. CASE ~IsHit(feedPage[v].listed)
    <3>1. [pc |-> "fetch", listed |-> feedPage[v].listed] \in PageStates
      BY <2>1 DEF PageStates
    <3>2. PagesKept
      BY <1>8, <2>3, <3>1, PageGoesOn DEF ReadCache
    <3> QED
      BY <1>8, <3>2 DEF ReadCache, FeedsTypeOK, FeedsInv
  <2> QED
    BY <2>2, <2>3
<1>9. ASSUME NEW v \in FeedPages, Fetch(v)
      PROVE  FeedsTypeOK' /\ FeedsInv'
  <2>1. feedPage[v].listed \in Listings
    BY <1>9, PageFields DEF Fetch, FeedsTypeOK
  <2>2. PICK read \in SUBSET feedPage[v].listed :
          PageGoes(v, [pc |-> "store", listed |-> feedPage[v].listed,
                       of |-> read, missed |-> feedPage[v].listed \ read])
    BY <1>9 DEF Fetch, Readable
  <2> DEFINE r == [pc |-> "store", listed |-> feedPage[v].listed,
                   of |-> read, missed |-> feedPage[v].listed \ read]
  <2>3. r \in PageStates
    BY <2>1 DEF PageStates, Listings
  <2>4. Covers(r.of, r.missed, r.listed)
    BY DEF Covers
  <2>5. PagesKept
    BY <2>2, <2>3, <2>4, PageGoesOn
  <2> QED
    BY <1>9, <2>5 DEF Fetch, FeedsTypeOK, FeedsInv
<1>10. ASSUME NEW v \in FeedPages, StoreEvents(v)
       PROVE  FeedsTypeOK' /\ FeedsInv'
  <2> DEFINE r == [feedPage[v] EXCEPT !.pc = "shown"]
  <2>1. feedPage[v] \in [pc : {"store", "shown"}, listed : Listings,
                         of : Listings, missed : Listings]
    BY <1>10, PageFields DEF StoreEvents, FeedsTypeOK
  <2>2. /\ r \in PageStates
        /\ r.of = feedPage[v].of /\ r.missed = feedPage[v].missed
        /\ r.listed = feedPage[v].listed
    BY <2>1 DEF PageStates
  <2>3. Covers(feedPage[v].of, feedPage[v].missed, feedPage[v].listed)
    BY <1>10 DEF StoreEvents, FeedsInv
  <2>4. PagesKept
    BY <1>10, <2>2, <2>3, PageGoesOn DEF StoreEvents
  <2>5. entry' \in Entries /\ Covers(entry'.of, entry'.missed, entry'.signature)
    BY <1>10, <2>1, <2>3 DEF StoreEvents, Entries
  <2> QED
    BY <1>10, <2>4, <2>5 DEF StoreEvents, FeedsTypeOK, FeedsInv
<1>11. ASSUME NEW v \in FeedPages, PageLeft(v)
       PROVE  FeedsTypeOK' /\ FeedsInv'
  <2>1. PagesKept
    <3>1. Blind \in PageStates /\ Blind.pc = "blind"
      BY DEF PageStates, Blind
    <3> QED
      BY <1>11, <3>1, PageGoesOn DEF PageLeft
  <2> QED
    BY <1>11, <2>1 DEF PageLeft, FeedsTypeOK, FeedsInv
<1>12. CASE UNCHANGED FeedsVars
  BY <1>12 DEF FeedsVars, FeedsTypeOK, FeedsInv
<1> QED
  BY <1>1, <1>2, <1>3, <1>4, <1>5, <1>6, <1>7, <1>8, <1>9, <1>10, <1>11, <1>12
  DEF FeedsNext

-----------------------------------------------------------------------------
\* Every page shows the events of the feeds it lists and of no other
\* (composer/views.py, _get_cached_workspace_feed_events), however many pages
\* add, delete, fetch and store at once.
THEOREM ShownMatches == FeedsSpec => []PagesMatchTheirFeeds
<1>1. FeedsInv => PagesMatchTheirFeeds
  BY DEF FeedsInv, Covers, PagesMatchTheirFeeds
<1> QED
  BY <1>1, FeedsInvInit, FeedsInvNext, PTL DEF FeedsSpec

-----------------------------------------------------------------------------
(* The import of posts from a file                                         *)

FileNames == Files \cup {NoCsv}
Session == [file : FileNames, mapping : FileNames]
Question == [pc : {"upload", "preview", "other", "import"}, had : Session, file : FileNames]
Importing == [pc : {"import"}, had : Session, file : FileNames, row : 1 .. CsvRows]

CsvTyped ==
  /\ session_csv \in Session
  /\ tab \in [Tabs -> {"elsewhere", "mapping", "preview"}]
  /\ asked \in [Tabs -> {Unasked} \cup Question \cup Importing]
  /\ imported \in [Files \X (1 .. CsvRows) -> 0 .. 2]
  /\ given \in SUBSET Files
  /\ crossed \in BOOLEAN /\ cut \in BOOLEAN

\* None of the rows of a file is a post yet.
Unimported(f) == f \in Files => \A i \in 1 .. CsvRows : imported[<<f, i>>] = 0

\* The files the session and the requests hold have been uploaded, and nothing of the
\* others is imported.
HeldAreGiven ==
  /\ session_csv.file \in given \cup {NoCsv}
  /\ \A t \in InFlight : asked[t].had.file \in given \cup {NoCsv}
  /\ \A t \in Tabs : /\ asked[t].pc = "upload" => asked[t].file \in given
                     /\ asked[t].pc = "import" => asked[t].file \in given
  /\ \A f \in Files \ given : Unimported(f)

\* Alone, an import is of the file of the session, whose rows beyond the one it has
\* come to are no posts yet.
ImportFits(t) ==
  asked[t].pc = "import" =>
    /\ \A o \in Tabs \ {t} : asked[o] = Unasked
    /\ \A i \in 1 .. CsvRows : i > RowsDone(t) => imported[<<asked[t].file, i>>] = 0

\* Between imports, no file that a request or the session could bring back has a post.
HeldAreFresh ==
  (\A t \in Tabs : asked[t].pc # "import") =>
    /\ Unimported(session_csv.file)
    /\ \A t \in InFlight : /\ Unimported(asked[t].had.file)
                           /\ asked[t].pc = "upload" => Unimported(asked[t].file)

CsvInv ==
  /\ HeldAreGiven
  /\ ~crossed /\ ~cut =>
       /\ \A t \in Tabs : ImportFits(t)
       /\ HeldAreFresh
       /\ \A r \in Files \X (1 .. CsvRows) : imported[r] <= 1

\* What a tab waits for is of the kind its pc says.
LEMMA KindOfQuestion ==
  ASSUME CsvTyped, NEW t \in Tabs
  PROVE  /\ asked[t] = Unasked <=> asked[t].pc = "unasked"
         /\ asked[t] # Unasked => asked[t] \in Question \cup Importing
         /\ asked[t] # Unasked => asked[t].had \in Session /\ asked[t].file \in FileNames
         /\ RowsDone(t) \in 0 .. CsvRows
  BY CsvAssumption DEF CsvTyped, Unasked, Question, Importing, RowsDone

\* A request of the user begins, with the session as it is.
LEMMA AskingKeepsImports ==
  ASSUME CsvTyped, CsvInv, NEW t \in Tabs, NEW what \in {"upload", "preview", "other", "import"},
         NEW f \in FileNames, Asks(t, what, f),
         \/ what = "upload" /\ f \in Files \ given /\ given' = given \cup {f}
         \/ what = "import" /\ f = session_csv.file /\ f # NoCsv /\ UNCHANGED given
         \/ what \in {"preview", "other"} /\ UNCHANGED given
  PROVE  CsvTyped' /\ CsvInv'
<1>1. PICK q : q = [pc |-> what, had |-> session_csv, file |-> f]
  OBVIOUS
<1>2. /\ asked[t] = Unasked /\ asked' = [asked EXCEPT ![t] = q]
      /\ crossed' = (crossed \/ \E o \in InFlight : asked[o].pc = "import" \/ what = "import")
      /\ UNCHANGED <<session_csv, tab, imported, cut>>
  BY <1>1 DEF Asks
<1>3. q \in Question /\ q.pc = what /\ q.had = session_csv /\ q.file = f /\ q # Unasked /\ "row" \notin DOMAIN q
  BY <1>1 DEF Question, CsvTyped, Unasked
<1>4. asked'[t] = q /\ \A o \in Tabs \ {t} : asked'[o] = asked[o]
  BY <1>2 DEF CsvTyped
<1>5. CsvTyped'
  BY <1>2, <1>3 DEF CsvTyped
<1>6. HeldAreGiven'
  BY <1>2, <1>3, <1>4, CsvAssumption DEF CsvInv, HeldAreGiven, InFlight, Unimported, CsvTyped
<1>7. ASSUME ~crossed', ~cut'
      PROVE  /\ \A o \in Tabs : ImportFits(o)'
             /\ HeldAreFresh'
             /\ \A r \in Files \X (1 .. CsvRows) : imported'[r] <= 1
  <2>1. /\ ~crossed /\ ~cut /\ \A o \in InFlight : asked[o].pc # "import" /\ what # "import"
    BY <1>2, <1>7
  <2>2. HeldAreFresh
    BY <2>1 DEF CsvInv
  <2>3. \A o \in Tabs : asked[o].pc # "import"
    BY <2>1 DEF InFlight, Unasked
  <2>4. what = "import" => \A o \in Tabs \ {t} : asked[o] = Unasked
    BY <2>1 DEF InFlight
  <2>5. Unimported(session_csv.file) /\ \A o \in InFlight : /\ Unimported(asked[o].had.file)
                                                            /\ asked[o].pc = "upload" => Unimported(asked[o].file)
    BY <2>2, <2>3 DEF HeldAreFresh
  <2>6. ASSUME NEW o \in Tabs PROVE ImportFits(o)'
    <3>1. CASE o = t /\ what = "import"
      <4>1. f \in Files /\ Unimported(f)
        BY <2>5, <3>1 DEF FileNames
      <4> QED BY <1>2, <1>3, <1>4, <2>4, <3>1, <4>1 DEF ImportFits, Unimported
    <3>2. CASE o # t \/ what # "import"
      BY <1>3, <1>4, <2>3, <3>2 DEF ImportFits
    <3> QED BY <3>1, <3>2
  <2>7. HeldAreFresh'
    <3>1. Unimported(f) \/ what # "upload"
      BY DEF CsvInv, HeldAreGiven
    <3>2. /\ session_csv' = session_csv /\ imported' = imported
          /\ Unimported(session_csv.file)'
      BY <1>2, <2>5 DEF Unimported
    <3>3. ASSUME NEW o \in InFlight'
          PROVE  /\ Unimported(asked[o].had.file)'
                 /\ asked'[o].pc = "upload" => Unimported(asked[o].file)'
      <4>1. CASE o = t
        BY <1>3, <1>4, <2>5, <3>1, <3>2, <4>1 DEF InFlight, Unimported
      <4>2. CASE o # t
        <5>1. o \in InFlight /\ asked'[o] = asked[o]
          BY <1>4, <4>2 DEF InFlight
        <5> QED BY <2>5, <3>2, <5>1 DEF Unimported
      <4> QED BY <4>1, <4>2
    <3> QED BY <3>2, <3>3 DEF HeldAreFresh
  <2>8. \A r \in Files \X (1 .. CsvRows) : imported'[r] <= 1
    BY <1>2, <2>1 DEF CsvInv
  <2> QED BY <2>6, <2>7, <2>8
<1> QED BY <1>5, <1>6, <1>7 DEF CsvInv

\* A request that is no import ends: the session it saves has the file it had, or has
\* uploaded.
LEMMA AnsweringKeepsImports ==
  ASSUME CsvTyped, CsvInv, NEW t \in Tabs, asked[t] # Unasked, asked[t].pc # "import",
         NEW s \in Session, NEW next \in {"elsewhere", "mapping", "preview"}, Answers(t, s, next),
         s.file = asked[t].had.file \/ (asked[t].pc = "upload" /\ s.file = asked[t].file)
  PROVE  CsvTyped' /\ CsvInv'
<1>1. /\ session_csv' = s /\ asked' = [asked EXCEPT ![t] = Unasked]
      /\ UNCHANGED <<imported, given, crossed, cut>>
  BY DEF Answers
<1>2. asked'[t] = Unasked /\ \A o \in Tabs \ {t} : asked'[o] = asked[o]
  BY <1>1 DEF CsvTyped
<1>3. t \in InFlight /\ InFlight' \subseteq InFlight /\ t \notin InFlight' /\ Unasked.pc = "unasked"
  BY <1>2 DEF InFlight, Unasked
<1>4. CsvTyped'
  BY <1>1 DEF CsvTyped, Answers
<1>5. HeldAreGiven'
  <2>1. s.file \in given \cup {NoCsv}
    BY <1>3 DEF CsvInv, HeldAreGiven
  <2> QED BY <1>1, <1>2, <1>3, <2>1 DEF CsvInv, HeldAreGiven, InFlight, Unimported
<1>6. ASSUME ~crossed', ~cut'
      PROVE  /\ \A o \in Tabs : ImportFits(o)'
             /\ HeldAreFresh'
             /\ \A r \in Files \X (1 .. CsvRows) : imported'[r] <= 1
  <2>1. ~crossed /\ ~cut
    BY <1>1, <1>6
  <2>2. \A o \in Tabs : asked[o].pc # "import"
    BY <2>1 DEF CsvInv, ImportFits
  <2>3. Unimported(s.file) /\ \A o \in InFlight : /\ Unimported(asked[o].had.file)
                                                  /\ asked[o].pc = "upload" => Unimported(asked[o].file)
    BY <1>3, <2>1, <2>2 DEF CsvInv, HeldAreFresh
  <2>4. \A o \in Tabs : ImportFits(o)'
    BY <1>2, <1>3, <2>2 DEF ImportFits
  <2>5. HeldAreFresh'
    <3>1. session_csv' = s /\ imported' = imported /\ Unimported(session_csv.file)'
      BY <1>1, <2>3 DEF Unimported
    <3>2. ASSUME NEW o \in InFlight'
          PROVE  /\ Unimported(asked[o].had.file)'
                 /\ asked'[o].pc = "upload" => Unimported(asked[o].file)'
      <4>1. o \in InFlight /\ asked'[o] = asked[o]
        BY <1>2, <1>3 DEF InFlight
      <4> QED BY <2>3, <3>1, <4>1 DEF Unimported
    <3> QED BY <3>1, <3>2 DEF HeldAreFresh
  <2>6. \A r \in Files \X (1 .. CsvRows) : imported'[r] <= 1
    BY <1>1, <2>1 DEF CsvInv
  <2> QED BY <2>4, <2>5, <2>6
<1> QED BY <1>4, <1>5, <1>6 DEF CsvInv

\* The import itself, alone with its rows.
LEMMA ImportingKeepsImports ==
  ASSUME CsvTyped, CsvInv, NEW t \in Tabs, ImportRow(t) \/ Imported(t)
  PROVE  CsvTyped' /\ CsvInv'
<1>0. /\ asked[t].pc = "import" /\ asked[t] # Unasked /\ asked[t] \in Question \cup Importing
      /\ asked[t].had \in Session /\ RowsDone(t) \in 0 .. CsvRows /\ CsvRows \in Nat
  BY KindOfQuestion, CsvAssumption DEF ImportRow, Imported, Unasked
<1>f. asked[t].file \in given /\ asked[t].file \in Files
  BY <1>0 DEF CsvInv, HeldAreGiven, CsvTyped
<1>1. CASE ImportRow(t)
  <2>1. PICK f, n, q, r : /\ f = asked[t].file /\ n = RowsDone(t) + 1 /\ r = <<f, n>>
                          /\ q = [pc |-> "import", had |-> asked[t].had, file |-> f, row |-> n]
    OBVIOUS
  <2>2. /\ imported' = imported \/ imported' = [imported EXCEPT ![r] = IF @ < 2 THEN @ + 1 ELSE @]
        /\ asked' = [asked EXCEPT ![t] = q] /\ RowsDone(t) < CsvRows
        /\ UNCHANGED <<session_csv, tab, given, crossed, cut>>
    BY <1>1, <2>1 DEF ImportRow
  <2>3. n \in 1 .. CsvRows /\ r \in Files \X (1 .. CsvRows)
    BY <1>0, <1>f, <2>1, <2>2
  <2>4. /\ q \in Importing /\ q.pc = "import" /\ q.had = asked[t].had /\ q.file = f /\ q # Unasked
        /\ q.row = n /\ "row" \in DOMAIN q
    BY <1>0, <1>f, <2>1, <2>3 DEF Importing, FileNames, Unasked
  <2>5. asked'[t] = q /\ \A o \in Tabs \ {t} : asked'[o] = asked[o]
    BY <2>2 DEF CsvTyped
  <2>6. RowsDone(t)' = n
    BY <2>4, <2>5 DEF RowsDone
  <2>7. /\ imported' \in [Files \X (1 .. CsvRows) -> 0 .. 2]
        /\ imported[r] = 0 => imported'[r] <= 1
        /\ \A p \in Files \X (1 .. CsvRows) : p # r => imported'[p] = imported[p]
    <3>1. imported \in [Files \X (1 .. CsvRows) -> 0 .. 2]
      BY DEF CsvTyped
    <3>2. CASE imported' = imported
      BY <3>1, <3>2
    <3>3. CASE imported' = [imported EXCEPT ![r] = IF @ < 2 THEN @ + 1 ELSE @]
      <4>1. PICK k : k = IF imported[r] < 2 THEN imported[r] + 1 ELSE imported[r]
        OBVIOUS
      <4>2. imported[r] \in 0 .. 2
        BY <2>3, <3>1
      <4>3. k \in 0 .. 2 /\ (imported[r] = 0 => k <= 1)
        BY <4>1, <4>2
      <4>4. imported' = [imported EXCEPT ![r] = k]
        BY <3>3, <4>1
      <4> QED BY <2>3, <3>1, <4>3, <4>4
    <3> QED BY <2>2, <3>2, <3>3
  <2>8. CsvTyped'
    BY <2>2, <2>4, <2>7 DEF CsvTyped
  <2>9. HeldAreGiven'
    <3>1. ASSUME NEW g \in Files \ given PROVE Unimported(g)'
      <4>1. Unimported(g) /\ g # f
        BY <1>f, <2>1 DEF CsvInv, HeldAreGiven
      <4>2. \A i \in 1 .. CsvRows : <<g, i>> \in Files \X (1 .. CsvRows) /\ <<g, i>> # r
        BY <2>1, <4>1
      <4> QED BY <2>7, <4>1, <4>2 DEF Unimported
    <3>2. \A o \in InFlight' : asked'[o].had.file \in given \cup {NoCsv}
      BY <1>0, <2>4, <2>5 DEF CsvInv, HeldAreGiven, InFlight
    <3>3. \A o \in Tabs : /\ asked'[o].pc = "upload" => asked'[o].file \in given
                          /\ asked'[o].pc = "import" => asked'[o].file \in given
      BY <1>f, <2>1, <2>4, <2>5 DEF CsvInv, HeldAreGiven
    <3>4. session_csv.file \in given \cup {NoCsv}
      BY DEF CsvInv, HeldAreGiven
    <3> QED BY <2>2, <3>1, <3>2, <3>3, <3>4 DEF HeldAreGiven
  <2>10. ASSUME ~crossed', ~cut'
         PROVE  /\ \A o \in Tabs : ImportFits(o)'
                /\ HeldAreFresh'
                /\ \A p \in Files \X (1 .. CsvRows) : imported'[p] <= 1
    <3>1. /\ \A o \in Tabs \ {t} : asked[o] = Unasked
          /\ \A i \in 1 .. CsvRows : i > RowsDone(t) => imported[<<f, i>>] = 0
          /\ \A p \in Files \X (1 .. CsvRows) : imported[p] <= 1
      BY <1>0, <2>1, <2>2, <2>10 DEF CsvInv, ImportFits
    <3>2. ImportFits(t)'
      <4>1. ASSUME NEW i \in 1 .. CsvRows, i > n PROVE imported'[<<f, i>>] = 0
        <5>1. i > RowsDone(t) /\ <<f, i>> # r /\ <<f, i>> \in Files \X (1 .. CsvRows)
          BY <1>0, <1>f, <2>1, <4>1
        <5> QED BY <2>7, <3>1, <5>1
      <4> QED BY <2>4, <2>5, <2>6, <3>1, <4>1 DEF ImportFits
    <3>3. \A o \in Tabs \ {t} : ImportFits(o)'
      BY <2>5, <3>1 DEF ImportFits, Unasked
    <3>4. HeldAreFresh'
      BY <2>4, <2>5 DEF HeldAreFresh
    <3>5. imported[r] = 0
      BY <1>0, <2>1, <2>3, <3>1
    <3>6. \A p \in Files \X (1 .. CsvRows) : imported'[p] <= 1
      BY <2>7, <3>1, <3>5
    <3> QED BY <3>2, <3>3, <3>4, <3>6
  <2> QED BY <2>8, <2>9, <2>10 DEF CsvInv
<1>2. CASE Imported(t)
  <2>1. /\ session_csv' = Blank /\ asked' = [asked EXCEPT ![t] = Unasked]
        /\ tab' = [tab EXCEPT ![t] = "preview"]
        /\ UNCHANGED <<imported, given, crossed, cut>>
    BY <1>2 DEF Imported, Answers, Cleaned
  <2>2. asked'[t] = Unasked /\ \A o \in Tabs \ {t} : asked'[o] = asked[o]
    BY <2>1 DEF CsvTyped
  <2>3. Blank \in Session /\ Blank.file = NoCsv /\ Unasked.pc = "unasked"
    BY DEF Blank, Session, FileNames, Unasked
  <2>4. CsvTyped'
    BY <2>1, <2>3 DEF CsvTyped
  <2>5. HeldAreGiven'
    BY <2>1, <2>2, <2>3 DEF CsvInv, HeldAreGiven, InFlight, Unimported
  <2>6. ASSUME ~crossed', ~cut'
        PROVE  /\ \A o \in Tabs : asked'[o] = Unasked
               /\ \A p \in Files \X (1 .. CsvRows) : imported'[p] <= 1
    BY <1>0, <2>1, <2>2, <2>6 DEF CsvInv, ImportFits
  <2>7. Unimported(NoCsv)'
    BY CsvAssumption DEF Unimported
  <2>8. (\A o \in Tabs : asked'[o] = Unasked) => HeldAreFresh' /\ \A o \in Tabs : ImportFits(o)'
    BY <2>1, <2>3, <2>7 DEF HeldAreFresh, InFlight, ImportFits
  <2> QED BY <2>4, <2>5, <2>6, <2>8 DEF CsvInv
<1> QED BY <1>1, <1>2

\* A request is cut: the session and the posts stay.
LEMMA CuttingKeepsImports ==
  ASSUME CsvTyped, CsvInv, NEW t \in Tabs, CsvCut(t)
  PROVE  CsvTyped' /\ CsvInv'
<1>1. /\ asked' = [asked EXCEPT ![t] = Unasked] /\ cut' = (cut \/ asked[t].pc = "import")
      /\ UNCHANGED <<session_csv, tab, imported, given, crossed>>
  BY DEF CsvCut
<1>2. asked'[t] = Unasked /\ (\A o \in Tabs \ {t} : asked'[o] = asked[o]) /\ Unasked.pc = "unasked"
  BY <1>1 DEF CsvTyped, Unasked
<1>3. CsvTyped'
  BY <1>1 DEF CsvTyped
<1>4. HeldAreGiven'
  BY <1>1, <1>2 DEF CsvInv, HeldAreGiven, InFlight, Unimported
<1>5. ASSUME ~crossed', ~cut'
      PROVE  /\ \A o \in Tabs : ImportFits(o)'
             /\ HeldAreFresh'
             /\ \A p \in Files \X (1 .. CsvRows) : imported'[p] <= 1
  <2>1. ~crossed /\ ~cut /\ asked[t].pc # "import"
    BY <1>1, <1>5
  <2>2. (\A o \in Tabs : asked'[o].pc # "import") => \A o \in Tabs : asked[o].pc # "import"
    BY <1>2, <2>1
  <2>3. HeldAreFresh'
    BY <1>1, <1>2, <2>1, <2>2 DEF CsvInv, HeldAreFresh, InFlight, Unimported
  <2>4. \A o \in Tabs : ImportFits(o)'
    BY <1>1, <1>2, <2>1 DEF CsvInv, ImportFits, RowsDone
  <2>5. \A p \in Files \X (1 .. CsvRows) : imported'[p] <= 1
    BY <1>1, <2>1 DEF CsvInv
  <2> QED BY <2>3, <2>4, <2>5
<1> QED BY <1>3, <1>4, <1>5 DEF CsvInv

\* Types and invariant are inductive.
LEMMA ImportsInductive == CsvSpec => [](CsvTyped /\ CsvInv)
<1>1. CsvInit => CsvTyped /\ CsvInv
  <2> SUFFICES ASSUME CsvInit PROVE CsvTyped /\ CsvInv
    OBVIOUS
  <2>1. /\ session_csv = Blank /\ Blank \in Session /\ Blank.file = NoCsv
        /\ \A t \in Tabs : asked[t] = Unasked /\ asked[t].pc = "unasked"
        /\ imported = [r \in Files \X (1 .. CsvRows) |-> 0]
    BY DEF CsvInit, Blank, Session, FileNames, Unasked
  <2>2. CsvTyped
    <3>1. imported \in [Files \X (1 .. CsvRows) -> 0 .. 2]
      BY <2>1
    <3>2. asked \in [Tabs -> {Unasked} \cup Question \cup Importing]
      BY DEF CsvInit
    <3>3. tab \in [Tabs -> {"elsewhere", "mapping", "preview"}]
      BY DEF CsvInit
    <3> QED BY <2>1, <3>1, <3>2, <3>3 DEF CsvInit, CsvTyped
  <2>3. \A f : Unimported(f)
    BY <2>1 DEF Unimported
  <2>4. InFlight = {}
    BY <2>1 DEF InFlight
  <2> QED BY <2>1, <2>2, <2>3, <2>4 DEF CsvInit, CsvInv, HeldAreGiven, HeldAreFresh, ImportFits
<1>2. CsvTyped /\ CsvInv /\ [CsvNext]_CsvVars => (CsvTyped /\ CsvInv)'
  <2> SUFFICES ASSUME CsvTyped, CsvInv, [CsvNext]_CsvVars PROVE CsvTyped' /\ CsvInv'
    OBVIOUS
  <2>0. session_csv \in Session /\ session_csv.file \in FileNames /\ NoCsv \in FileNames
    BY DEF CsvTyped, Session, FileNames
  <2>1. ASSUME NEW t \in Tabs, CsvUpload(t) PROVE CsvTyped' /\ CsvInv'
    <3>1. PICK f \in Files \ given : Asks(t, "upload", f) /\ given' = given \cup {f}
      BY <2>1 DEF CsvUpload
    <3>2. f \in FileNames
      BY DEF FileNames
    <3> QED BY <3>1, <3>2, AskingKeepsImports
  <2>2. ASSUME NEW t \in Tabs, CsvPreview(t) \/ OtherPage(t) \/ CsvConfirm(t) PROVE CsvTyped' /\ CsvInv'
    BY <2>0, <2>2, AskingKeepsImports DEF CsvPreview, OtherPage, CsvConfirm
  <2>3. ASSUME NEW t \in Tabs, Uploaded(t) \/ Previewed(t) \/ OtherShown(t) PROVE CsvTyped' /\ CsvInv'
    <3>1. asked[t] # Unasked /\ asked[t].had \in Session /\ asked[t].file \in FileNames /\ asked[t].pc # "import"
      BY <2>3, KindOfQuestion DEF Uploaded, Previewed, OtherShown, Unasked
    <3>2. PICK had, file : had = asked[t].had /\ file = asked[t].file
      OBVIOUS
    <3>3. /\ [had EXCEPT !.file = file] \in Session /\ [had EXCEPT !.file = file].file = file
          /\ [had EXCEPT !.mapping = file] \in Session /\ [had EXCEPT !.mapping = file].file = had.file
      BY <3>1, <3>2 DEF Session
    <3>4. CASE Uploaded(t)
      <4>1. PICK s : s = [had EXCEPT !.file = file]
        OBVIOUS
      <4> QED BY <3>1, <3>2, <3>3, <3>4, <4>1, AnsweringKeepsImports DEF Uploaded
    <3>5. CASE Previewed(t)
      <4>1. PICK s : s = [had EXCEPT !.mapping = file]
        OBVIOUS
      <4> QED BY <3>1, <3>2, <3>3, <3>5, <4>1, AnsweringKeepsImports DEF Previewed
    <3>6. CASE OtherShown(t)
      BY <3>1, <3>6, AnsweringKeepsImports DEF OtherShown
    <3> QED BY <2>3, <3>4, <3>5, <3>6
  <2>4. ASSUME UNCHANGED CsvVars PROVE CsvTyped' /\ CsvInv'
    BY <2>4 DEF CsvVars, CsvTyped, CsvInv, HeldAreGiven, HeldAreFresh, ImportFits, InFlight, Unimported, RowsDone
  <2> QED BY <2>1, <2>2, <2>3, <2>4, ImportingKeepsImports, CuttingKeepsImports DEF CsvNext
<1> QED BY <1>1, <1>2, PTL DEF CsvSpec

\* However many tabs, files and rows there are: a row of a file becomes a post once,
\* unless an import overlapped another request of the user or was cut
\* (composer/views.py, csv_confirm_import).
THEOREM RowsOnlyOnce == CsvSpec => []RowsImportedOnce
<1>1. CsvInv => RowsImportedOnce
  BY DEF CsvInv, RowsImportedOnce
<1> QED BY <1>1, ImportsInductive, PTL

-----------------------------------------------------------------------------
(* The media of the composer's pages                                       *)

PostOrNone == Drafts \cup {NoPost}
Saved == {"autosave", "save", "queue"}
Handling == {"upload", "pick", "remove", "detach"}
Asked(kinds, what) ==
  [pc : {"work", "answer"}, kind : kinds, page : Pages, asset : what, post : PostOrNone,
   list : SUBSET PickedFiles, new : BOOLEAN]
Sent == Asked(Handling, PickedFiles) \cup Asked({"compose"} \cup Saved, PostOrNone)

ComposerFields ==
  /\ pending \in SUBSET PickedFiles /\ library \in SUBSET PickedFiles
  /\ page \in [Pages -> {Unopened} \cup [picks : PostOrNone, saves : PostOrNone]]
  /\ posts \in SUBSET Drafts
  /\ media \in [Drafts -> SUBSET PickedFiles]
  /\ saving \in [Requests -> {NoRequest} \cup Sent]
  /\ latest \in Pages \cup {NoPost}
  /\ added \in [Pages -> SUBSET PickedFiles]
  /\ made \in [Pages -> SUBSET Drafts]
  /\ mixed \in BOOLEAN

\* Only a page that is open asks for anything but itself.
WorkedPagesAreOpen ==
  \A r \in Requests :
    saving[r] # NoRequest /\ saving[r].kind # "compose" => page[saving[r].page] # Unopened

ComposerTyped == ComposerFields /\ WorkedPagesAreOpen

\* A post has no media but what was put into a page of it.
MediaWereAdded ==
  \A d \in posts : \A a \in media[d] : \E p \in Pages : d \in made[p] /\ a \in added[p]

\* The posts of a page exist, a page works on its own, and one that is not open has
\* nothing.
PagesFit ==
  \A p \in Pages :
    /\ made[p] \subseteq posts
    /\ page[p] = Unopened => added[p] = {}
    /\ page[p] # Unopened => /\ {page[p].picks, page[p].saves} \subseteq made[p] \cup {NoPost}
                             /\ latest # NoPost

\* What is put into the page opened last waits in a list, or is on a post of the page.
Kept(list) ==
  \A a \in (added[latest] \cap library) \ Shared :
    a \in list \/ \E d \in made[latest] : a \in media[d]

\* The page opened last on a new post has the shared library only in its list.
NewPostsDropShared ==
  latest # NoPost =>
    (page[latest] # Unopened /\ page[latest].picks = NoPost =>
       \A d \in made[latest] : media[d] \cap Shared = {})

\* The list of the session, or the one a request is about to store: it holds what
\* waits, all of it put into the page opened last, and is empty once the page knows of
\* its post.
ListFits(list) ==
  /\ list \subseteq added[latest] /\ Kept(list)
  /\ page[latest] # Unopened /\ page[latest].saves # NoPost => list = {}

OneAtATime ==
  \A r, o \in Requests : saving[r] # NoRequest /\ saving[o] # NoRequest => r = o

\* A request is of the page opened last, and knows that page's post and its list.
Fit(w) ==
  /\ w.page = latest /\ latest # NoPost
  /\ w.pc = "answer" => ListFits(w.list)
  /\ w.pc = "answer" /\ w.kind = "autosave" /\ w.new => w.list = {}
  /\ w.kind = "compose" =>
       /\ page[latest] = Unopened
       /\ made[latest] = {w.post} \ {NoPost}
       /\ w.pc = "answer" => w.list = {}
       /\ ~w.new
  /\ w.kind # "compose" =>
       /\ page[latest] # Unopened
       /\ w.post \in made[latest] \cup {NoPost}
       /\ w.pc = "work" => w.list = pending /\ ListFits(w.list) /\ w.post = page[latest].saves
  /\ w.pc = "work" => ~w.new
  /\ w.kind = "upload" => w.asset \notin Shared
  /\ w.kind = "pick" /\ w.pc = "work" => w.post = page[latest].picks
  /\ w.kind = "remove" => page[latest].picks = NoPost
  /\ w.kind = "detach" => w.post # NoPost

RequestsFit == \A r \in Requests : saving[r] # NoRequest => Fit(saving[r])

\* Between requests the list of the session is that of the page opened last.
SessionFits ==
  /\ latest = NoPost => pending = {}
  /\ latest # NoPost /\ (\A r \in Requests : Free(r)) => ListFits(pending)

ComposerInv ==
  ~mixed => /\ MediaWereAdded /\ PagesFit /\ NewPostsDropShared /\ SessionFits
            /\ OneAtATime /\ RequestsFit

\* No request is a request that was sent.
LEMMA SentIsNotNone == NoRequest \notin Sent
  BY DEF Sent, Asked, NoRequest

\* What the stored session begins with.
LEMMA ComposerStart == ComposerInit => ComposerTyped /\ ComposerInv
<1> SUFFICES ASSUME ComposerInit PROVE ComposerTyped /\ ComposerInv
  OBVIOUS
<1>1. ComposerFields
  BY ComposerAssumption DEF ComposerInit, ComposerFields, Unopened, NoRequest
<1>2. \A r \in Requests : saving[r] = NoRequest
  BY DEF ComposerInit
<1>3. OneAtATime /\ RequestsFit /\ WorkedPagesAreOpen
  BY <1>2 DEF OneAtATime, RequestsFit, WorkedPagesAreOpen
<1>4. MediaWereAdded /\ PagesFit /\ NewPostsDropShared /\ SessionFits
  BY DEF ComposerInit, MediaWereAdded, PagesFit, NewPostsDropShared, SessionFits, Unopened
<1> QED BY <1>1, <1>3, <1>4 DEF ComposerInv, ComposerTyped

\* A request that is sent carries what it says.
LEMMA SendsTyped ==
  ASSUME ComposerFields, NEW r \in Requests, NEW p \in Pages, NEW kind, NEW picture,
         Sends(r, p, kind, picture),
         \/ kind = "compose" /\ picture \in PostOrNone
         \/ kind \in Handling /\ picture \in PickedFiles /\ page[p] # Unopened
         \/ kind \in Saved /\ picture = NoPost /\ page[p] # Unopened
  PROVE  /\ saving' \in [Requests -> {NoRequest} \cup Sent]
         /\ mixed' \in BOOLEAN
<1> DEFINE w == [pc |-> "work", kind |-> kind, page |-> p, asset |-> picture,
          post |-> IF kind = "compose" THEN picture ELSE IF kind = "pick" THEN page[p].picks ELSE page[p].saves,
          list |-> pending, new |-> FALSE]
<1>1. kind # "compose" => page[p].picks \in PostOrNone /\ page[p].saves \in PostOrNone
  BY DEF ComposerFields, Saved, Handling
<1>2. w.post \in PostOrNone
  <2>1. CASE kind = "compose"
    BY <2>1 DEF Saved, Handling
  <2>2. CASE kind # "compose"
    BY <2>2, <1>1
  <2> QED BY <2>1, <2>2
<1>5. pending \in SUBSET PickedFiles
  BY DEF ComposerFields
<1>6. w \in Sent
  <2>1. CASE kind \in Handling
    BY <2>1, <1>2, <1>5 DEF Sent, Asked, Handling, Saved
  <2>2. CASE kind \in {"compose"} \cup Saved
    BY <2>2, <1>2, <1>5 DEF Sent, Asked, Handling, Saved, PostOrNone
  <2> QED BY <2>1, <2>2
<1>7. saving' = [saving EXCEPT ![r] = w] /\ saving \in [Requests -> {NoRequest} \cup Sent]
  BY DEF Sends, ComposerFields
<1> HIDE DEF w
<1>8. saving' \in [Requests -> {NoRequest} \cup Sent]
  BY <1>6, <1>7
<1>9. mixed' \in BOOLEAN
  BY Zenon DEF Sends, ComposerFields
<1> QED BY <1>8, <1>9

\* What is done with a request's list is a list, when it is.
LEMMA DoneTyped ==
  ASSUME ComposerFields, NEW r \in Requests, saving[r].pc = "work",
         NEW list \in SUBSET PickedFiles, Done(r, list)
  PROVE  saving' \in [Requests -> {NoRequest} \cup Sent]
<1>1. saving[r] \in Sent
  BY DEF ComposerFields, NoRequest
<1> DEFINE w == [saving[r] EXCEPT !.pc = "answer", !.list = list]
<1>2. saving' = [saving EXCEPT ![r] = w]
  BY <1>1 DEF Done, ComposerFields, Sent, Asked
<1>3. w \in Sent
  BY <1>1 DEF Sent, Asked
<1> HIDE DEF w
<1> QED BY <1>2, <1>3 DEF ComposerFields

\* A session that is read and stored keeps its type.
LEMMA ComposerFieldsNext ==
  ASSUME ComposerFields, WorkedPagesAreOpen, ComposerNext PROVE ComposerFields'
<1> PICK r \in Requests :
        \/ Compose(r) \/ Upload(r) \/ Pick(r) \/ RemovePending(r) \/ RemoveMedia(r)
        \/ Autosave(r) \/ SaveDraft(r) \/ SaveToQueue(r)
        \/ DoCompose(r) \/ DoUpload(r) \/ DoPick(r) \/ DoRemovePending(r) \/ DoRemoveMedia(r)
        \/ DoAutosave(r) \/ DoSavePost(r) \/ DoQueuePost(r) \/ SavesPost(r)
        \/ Answer(r)
  BY DEF ComposerNext
<1>w. ASSUME saving[r].pc \in {"work", "answer"}
      PROVE  /\ saving[r] \in Sent /\ saving[r].list \in SUBSET PickedFiles
             /\ saving[r].page \in Pages /\ saving[r].post \in Drafts \cup {NoPost}
             /\ saving[r].new \in BOOLEAN
  BY <1>w DEF ComposerFields, NoRequest, Sent, Asked, PostOrNone
<1>a. ASSUME saving[r].pc \in {"work", "answer"}, saving[r].kind \in Handling
      PROVE  saving[r].asset \in PickedFiles
  BY <1>a, <1>w DEF Sent, Asked, Handling, Saved
<1>1. CASE Compose(r)
  <2> PICK p \in Pages, post \in {NoPost} \cup posts :
        /\ Sends(r, p, "compose", post)
        /\ latest' = p
        /\ made' = [made EXCEPT ![p] = {post} \ {NoPost}]
        /\ UNCHANGED <<pending, page, posts, media, library, added>>
    BY <1>1 DEF Compose
  <2>1. post \in PostOrNone /\ {post} \ {NoPost} \subseteq Drafts
    BY DEF ComposerFields, PostOrNone
  <2>2. saving' \in [Requests -> {NoRequest} \cup Sent] /\ mixed' \in BOOLEAN
    BY <2>1, SendsTyped
  <2> QED BY <2>1, <2>2 DEF ComposerFields
<1>2. ASSUME NEW kind \in {"upload", "pick"}, NEW a \in PickedFiles, Acts(r, kind, a)
      PROVE  ComposerFields'
  <2> PICK p \in Pages : page[p] # Unopened /\ Sends(r, p, kind, a)
    BY <1>2 DEF Acts
  <2>1. saving' \in [Requests -> {NoRequest} \cup Sent] /\ mixed' \in BOOLEAN
    BY <1>2, SendsTyped DEF Handling
  <2> QED BY <1>2, <2>1 DEF Acts, ComposerFields
<1>3. ASSUME NEW kind \in Saved, Acts(r, kind, NoPost) PROVE ComposerFields'
  <2> PICK p \in Pages : page[p] # Unopened /\ Sends(r, p, kind, NoPost)
    BY <1>3 DEF Acts
  <2>1. saving' \in [Requests -> {NoRequest} \cup Sent] /\ mixed' \in BOOLEAN
    BY <1>3, SendsTyped
  <2> QED BY <1>3, <2>1 DEF Acts, ComposerFields
<1>4. ASSUME NEW kind \in {"remove", "detach"}, RemoveThumbnail(r, kind) PROVE ComposerFields'
  <2> PICK p \in Pages : \E a \in added[p] :
        /\ page[p] # Unopened /\ Sends(r, p, kind, a)
        /\ UNCHANGED <<pending, page, posts, media, library, latest, added, made>>
    BY <1>4 DEF RemoveThumbnail
  <2> PICK a \in added[p] :
        /\ page[p] # Unopened /\ Sends(r, p, kind, a)
        /\ UNCHANGED <<pending, page, posts, media, library, latest, added, made>>
    OBVIOUS
  <2>1. a \in PickedFiles
    BY DEF ComposerFields
  <2>2. saving' \in [Requests -> {NoRequest} \cup Sent] /\ mixed' \in BOOLEAN
    BY <2>1, <1>4, SendsTyped DEF Handling
  <2> QED BY <2>2 DEF ComposerFields
<1>5. CASE DoCompose(r)
  <2>1. saving' \in [Requests -> {NoRequest} \cup Sent]
    BY <1>5, DoneTyped DEF DoCompose, FreshList, Works
  <2> QED BY <1>5, <2>1 DEF DoCompose, ComposerFields
<1>6. CASE DoUpload(r)
  <2> DEFINE w == saving[r]
  <2>1. w.pc = "work" /\ w.asset \in PickedFiles /\ w.list \in SUBSET PickedFiles
    BY <1>6, <1>w, <1>a DEF DoUpload, Works, Handling
  <2>2. Done(r, WithUpload(w.list, w.asset)) \/ Done(r, {})
    BY <1>6 DEF DoUpload
  <2>3. saving' \in [Requests -> {NoRequest} \cup Sent]
    BY <2>1, <2>2, DoneTyped DEF WithUpload
  <2>4. added' \in [Pages -> SUBSET PickedFiles]
    BY <1>6, <2>1 DEF DoUpload, Adds, ComposerFields
  <2>5. media' \in [Drafts -> SUBSET PickedFiles]
    BY <1>6, <2>1 DEF DoUpload, Attachable, ComposerFields
  <2>6. library' \in SUBSET PickedFiles
    BY <1>6, <2>1 DEF DoUpload, ComposerFields
  <2> QED BY <1>6, <2>3, <2>4, <2>5, <2>6 DEF DoUpload, ComposerFields
<1>7. CASE DoPick(r)
  <2> DEFINE w == saving[r]
  <2>1. w.pc = "work" /\ w.asset \in PickedFiles /\ w.list \in SUBSET PickedFiles
    BY <1>7, <1>w, <1>a DEF DoPick, Works, Handling
  <2>2. Done(r, w.list \cup {w.asset}) \/ Done(r, w.list)
    BY <1>7 DEF DoPick
  <2>3. saving' \in [Requests -> {NoRequest} \cup Sent]
    BY <2>1, <2>2, DoneTyped
  <2>4. added' \in [Pages -> SUBSET PickedFiles]
    BY <1>7, <2>1 DEF DoPick, Adds, ComposerFields
  <2>5. media' \in [Drafts -> SUBSET PickedFiles]
    BY <1>7, <2>1 DEF DoPick, ComposerFields
  <2> QED BY <1>7, <2>3, <2>4, <2>5 DEF DoPick, ComposerFields
<1>8. CASE DoRemovePending(r)
  <2> DEFINE w == saving[r]
  <2>1. w.pc = "work" /\ w.list \in SUBSET PickedFiles /\ Done(r, w.list \ {w.asset})
    BY <1>8, <1>w DEF DoRemovePending, Works
  <2>2. saving' \in [Requests -> {NoRequest} \cup Sent]
    BY <2>1, DoneTyped
  <2>3. added' \in [Pages -> SUBSET PickedFiles]
    <3>1. PICK protected \in BOOLEAN :
            added' = [added EXCEPT ![w.page] = IF protected /\ {d \in posts : w.asset \in media[d]} \cap made[w.page] # {}
                                               THEN @ ELSE @ \ {w.asset}]
      BY <1>8 DEF DoRemovePending
    <3> QED BY <3>1 DEF ComposerFields
  <2>4. library' \in SUBSET PickedFiles
    BY <1>8 DEF DoRemovePending, ComposerFields
  <2>5. media' \in [Drafts -> SUBSET PickedFiles]
    BY <1>8 DEF DoRemovePending, ComposerFields
  <2> QED BY <1>8, <2>2, <2>3, <2>4, <2>5 DEF DoRemovePending, ComposerFields
<1>9. CASE DoRemoveMedia(r)
  <2> DEFINE w == saving[r]
  <2>1. w.pc = "work" /\ w.list \in SUBSET PickedFiles /\ Done(r, w.list)
    BY <1>9, <1>w DEF DoRemoveMedia, Works
  <2>2. saving' \in [Requests -> {NoRequest} \cup Sent]
    BY <2>1, DoneTyped
  <2>3. added' \in [Pages -> SUBSET PickedFiles]
    BY <1>9 DEF DoRemoveMedia, ComposerFields
  <2>4. media' \in [Drafts -> SUBSET PickedFiles]
    BY <1>9 DEF DoRemoveMedia, ComposerFields
  <2> QED BY <1>9, <2>2, <2>3, <2>4 DEF DoRemoveMedia, ComposerFields
<1>10. ASSUME NEW kind \in Saved, CreatesPost(r, kind) PROVE ComposerFields'
  <2> DEFINE w == saving[r]
             keeps == kind = "queue"
  <2>1. w.pc = "work" /\ w.kind = kind
    BY <1>10 DEF CreatesPost, Works
  <2>2. w \in Asked(Saved, PostOrNone) /\ w.list \in SUBSET PickedFiles
    BY <2>1, <1>w DEF Sent, Asked, Saved, Handling
  <2> PICK d \in Drafts \ posts :
         /\ posts' = posts \cup {d}
         /\ media' = [media EXCEPT ![d] = IF keeps THEN {} ELSE Attachable(w.list)]
         /\ made' = [made EXCEPT ![w.page] = @ \cup {d}]
         /\ saving' = [saving EXCEPT ![r].pc = "answer", ![r].new = TRUE, ![r].post = d,
                                       ![r].list = IF keeps THEN @ ELSE {}]
    BY <1>10 DEF CreatesPost
  <2> DEFINE v == [w EXCEPT !.pc = "answer", !.new = TRUE, !.post = d,
                            !.list = IF keeps THEN @ ELSE {}]
  <2>3. saving' = [saving EXCEPT ![r] = v]
    BY <2>2 DEF ComposerFields, Asked
  <2>4. v \in Asked(Saved, PostOrNone)
    BY <2>2 DEF Asked, PostOrNone
  <2>5. v \in Sent
    BY <2>4 DEF Sent, Asked
  <2> HIDE DEF v
  <2>6. saving' \in [Requests -> {NoRequest} \cup Sent]
    BY <2>3, <2>5 DEF ComposerFields
  <2>7. media' \in [Drafts -> SUBSET PickedFiles]
    BY <2>2 DEF Attachable, ComposerFields
  <2> QED BY <1>10, <2>6, <2>7 DEF CreatesPost, ComposerFields
<1>11. CASE SavesPost(r)
  <2>1. saving' \in [Requests -> {NoRequest} \cup Sent]
    BY <1>11, <1>w, DoneTyped DEF SavesPost
  <2> QED BY <1>11, <2>1 DEF SavesPost, ComposerFields
<1>12. CASE Answer(r)
  <2> PICK arrives \in BOOLEAN :
        LET w == saving[r] IN
        /\ w.pc = "answer"
        /\ pending' = w.list
        /\ page' = IF ~arrives THEN page
                   ELSE IF w.kind = "compose" THEN [page EXCEPT ![w.page] = [picks |-> w.post, saves |-> w.post]]
                   ELSE IF Tells(w.kind) /\ w.new THEN [page EXCEPT ![w.page].saves = w.post] ELSE page
        /\ saving' = [saving EXCEPT ![r] = NoRequest]
        /\ mixed' = (mixed \/ (w.new /\ ~arrives))
    BY <1>12 DEF Answer
  <2>1. page' \in [Pages -> {Unopened} \cup [picks : PostOrNone, saves : PostOrNone]]
    <3>1. CASE ~arrives
      BY <3>1 DEF ComposerFields
    <3>2. CASE arrives /\ saving[r].kind = "compose"
      BY <3>2, <1>w DEF ComposerFields, PostOrNone
    <3>3. CASE arrives /\ saving[r].kind # "compose" /\ Tells(saving[r].kind) /\ saving[r].new
      <4>1. page[saving[r].page] # Unopened
        BY <3>3, <1>w, SentIsNotNone DEF WorkedPagesAreOpen
      <4> QED BY <3>3, <4>1, <1>w DEF ComposerFields, PostOrNone
    <3> QED BY <3>1, <3>2, <3>3 DEF ComposerFields
  <2>2. saving' \in [Requests -> {NoRequest} \cup Sent]
    BY DEF ComposerFields
  <2>3. pending' \in SUBSET PickedFiles /\ mixed' \in BOOLEAN
    BY <1>w DEF ComposerFields
  <2> QED BY <1>12, <2>1, <2>2, <2>3 DEF Answer, ComposerFields
<1>13. CASE Upload(r) \/ Pick(r)
  <2>1. PICK a \in PickedFiles : Acts(r, "upload", a) \/ Acts(r, "pick", a)
    BY <1>13 DEF Upload, Pick, ComposerFields
  <2> QED BY <2>1, <1>2
<1>14. CASE RemovePending(r) \/ RemoveMedia(r)
  BY <1>14, <1>4 DEF RemovePending, RemoveMedia
<1>15. CASE Autosave(r) \/ SaveDraft(r) \/ SaveToQueue(r)
  BY <1>15, <1>3 DEF Autosave, SaveDraft, SaveToQueue, Saved
<1>16. CASE DoAutosave(r) \/ DoSavePost(r) \/ DoQueuePost(r)
  BY <1>16, <1>10 DEF DoAutosave, DoSavePost, DoQueuePost, Saved
<1> QED BY <1>1, <1>5, <1>6, <1>7, <1>8, <1>9, <1>11, <1>12, <1>13, <1>14, <1>15, <1>16

\* A page that is open stays open.
LEMMA PagesStayOpen ==
  ASSUME ComposerTyped, ComposerNext, NEW p \in Pages, page[p] # Unopened
  PROVE  page'[p] # Unopened
<1>1. CASE page' = page
  BY <1>1
<1>2. CASE page' # page
  <2> PICK r \in Requests : Answer(r)
    BY <1>2 DEF ComposerNext, Compose, Upload, Pick, RemovePending, RemoveMedia, RemoveThumbnail, Autosave,
                SaveDraft, SaveToQueue, Acts, DoCompose, DoUpload, DoPick, DoRemovePending, DoRemoveMedia,
                DoAutosave, DoSavePost, DoQueuePost, CreatesPost, SavesPost
  <2> PICK w \in Sent : w = saving[r]
    BY DEF Answer, ComposerTyped, ComposerFields, NoRequest
  <2>1. w.post \in Drafts \cup {NoPost} /\ w.page \in Pages
    BY DEF Sent, Asked, PostOrNone
  <2>2. "unopened" # w.post
    BY <2>1, ComposerAssumption DEF NoPost
  <2>3. \/ page' = [page EXCEPT ![w.page] = [picks |-> w.post, saves |-> w.post]]
        \/ page' = [page EXCEPT ![w.page].saves = w.post]
    BY <1>2 DEF Answer
  <2>4. page[p] \in [picks : PostOrNone, saves : PostOrNone]
    BY DEF ComposerTyped, ComposerFields
  <2>5. page[p].picks # "unopened"
    BY <2>4, ComposerAssumption DEF PostOrNone, NoPost
  <2>6. page'[p].picks # "unopened"
    BY <2>1, <2>2, <2>3, <2>5 DEF ComposerTyped, ComposerFields
  <2> QED BY <2>6 DEF Unopened
<1> QED BY <1>1, <1>2

\* A request that is in progress was in progress, or is sent by a page that may send it.
LEMMA RequestsCome ==
  ASSUME ComposerTyped, ComposerNext, NEW o \in Requests, saving'[o] # NoRequest
  PROVE  \/ /\ saving[o] # NoRequest
            /\ saving'[o].kind = saving[o].kind /\ saving'[o].page = saving[o].page
         \/ saving'[o].kind = "compose"
         \/ saving'[o].page \in Pages /\ page[saving'[o].page] # Unopened
<1> USE DEF ComposerTyped, ComposerFields
<1>1. ASSUME NEW r \in Requests, NEW p \in Pages, NEW kind, NEW a, Sends(r, p, kind, a),
             kind = "compose" \/ page[p] # Unopened
      PROVE  \/ saving'[o] = saving[o]
             \/ saving'[o].kind = "compose"
             \/ saving'[o].page \in Pages /\ page[saving'[o].page] # Unopened
  BY <1>1 DEF Sends
<1>2. ASSUME NEW r \in Requests, NEW list, saving[r].pc = "work", Done(r, list)
      PROVE  /\ saving[o] # NoRequest
             /\ saving'[o].kind = saving[o].kind /\ saving'[o].page = saving[o].page
  BY <1>2 DEF Done, NoRequest, Sent, Asked
<1>3. ASSUME NEW r \in Requests, NEW kind, CreatesPost(r, kind)
      PROVE  /\ saving[o] # NoRequest
             /\ saving'[o].kind = saving[o].kind /\ saving'[o].page = saving[o].page
  BY <1>3 DEF CreatesPost, Works, NoRequest, Sent, Asked
<1>4. ASSUME NEW r \in Requests, Answer(r) PROVE saving'[o] = saving[o]
  BY <1>4 DEF Answer
<1> PICK r \in Requests :
        \/ Compose(r) \/ Upload(r) \/ Pick(r) \/ RemovePending(r) \/ RemoveMedia(r)
        \/ Autosave(r) \/ SaveDraft(r) \/ SaveToQueue(r)
        \/ DoCompose(r) \/ DoUpload(r) \/ DoPick(r) \/ DoRemovePending(r) \/ DoRemoveMedia(r)
        \/ DoAutosave(r) \/ DoSavePost(r) \/ DoQueuePost(r) \/ SavesPost(r)
        \/ Answer(r)
  BY DEF ComposerNext
<1>5. CASE Compose(r)
  BY <1>5, <1>1 DEF Compose
<1>6. CASE Upload(r) \/ Pick(r) \/ Autosave(r) \/ SaveDraft(r) \/ SaveToQueue(r)
  BY <1>6, <1>1 DEF Upload, Pick, Autosave, SaveDraft, SaveToQueue, Acts
<1>7. CASE RemovePending(r) \/ RemoveMedia(r)
  BY <1>7, <1>1 DEF RemovePending, RemoveMedia, RemoveThumbnail
<1>8. CASE DoCompose(r) \/ DoUpload(r) \/ DoPick(r) \/ DoRemovePending(r) \/ DoRemoveMedia(r) \/ SavesPost(r)
  BY <1>8, <1>2 DEF DoCompose, DoUpload, DoPick, DoRemovePending, DoRemoveMedia, SavesPost, Works
<1>9. CASE DoAutosave(r) \/ DoSavePost(r) \/ DoQueuePost(r)
  BY <1>9, <1>3 DEF DoAutosave, DoSavePost, DoQueuePost
<1>10. CASE Answer(r)
  BY <1>10, <1>4
<1> QED BY <1>5, <1>6, <1>7, <1>8, <1>9, <1>10

\* The composer keeps its types.
LEMMA ComposerTypedStep == ASSUME ComposerTyped, [ComposerNext]_ComposerVars PROVE ComposerTyped'
<1>1. CASE ComposerNext
  <2>1. ComposerFields'
    BY <1>1, ComposerFieldsNext DEF ComposerTyped
  <2>2. ASSUME NEW o \in Requests, saving'[o] # NoRequest, saving'[o].kind # "compose"
        PROVE  page'[saving'[o].page] # Unopened
    <3>1. CASE saving[o] # NoRequest /\ saving'[o].kind = saving[o].kind /\ saving'[o].page = saving[o].page
      <4>1. page[saving[o].page] # Unopened /\ saving[o].page \in Pages
        BY <3>1, <2>2 DEF ComposerTyped, ComposerFields, WorkedPagesAreOpen, Sent, Asked
      <4> QED BY <3>1, <4>1, <1>1, PagesStayOpen
    <3> QED BY <3>1, <1>1, <2>2, RequestsCome, PagesStayOpen
  <2> QED BY <2>1, <2>2 DEF ComposerTyped, WorkedPagesAreOpen
<1>2. CASE UNCHANGED ComposerVars
  BY <1>2 DEF ComposerVars, ComposerTyped, ComposerFields, WorkedPagesAreOpen
<1> QED BY <1>1, <1>2

\* A request in hand fits, and is the only one.
LEMMA InHandFits ==
  ASSUME ComposerTyped, ComposerInv, ~mixed, NEW r \in Requests, saving[r].pc \in {"work", "answer"}
  PROVE  /\ saving[r] \in Sent /\ Fit(saving[r])
         /\ \A o \in Requests \ {r} : saving[o] = NoRequest
<1>1. saving[r] # NoRequest
  BY DEF NoRequest
<1> QED BY <1>1 DEF ComposerTyped, ComposerFields, ComposerInv, RequestsFit, OneAtATime

\* While one request is in progress the session says nothing yet.
LEMMA OneStaysAlone ==
  ASSUME ComposerTyped, NEW r \in Requests, \A o \in Requests \ {r} : saving[o] = NoRequest,
         NEW v \in Sent, saving' = [saving EXCEPT ![r] = v], Fit(v)'
  PROVE  OneAtATime' /\ RequestsFit' /\ SessionFits'
<1>1. saving'[r] = v /\ v # NoRequest /\ (\A o \in Requests \ {r} : saving'[o] = NoRequest)
  BY SentIsNotNone DEF ComposerTyped, ComposerFields
<1>2. latest' # NoPost
  BY DEF Fit
<1>3. OneAtATime'
  BY <1>1 DEF OneAtATime
<1>4. RequestsFit'
  BY <1>1 DEF RequestsFit
<1>5. SessionFits'
  BY <1>1, <1>2 DEF SessionFits, Free
<1> QED BY <1>3, <1>4, <1>5

\* A request that has worked fits with a list that does.
LEMMA DoneFits ==
  ASSUME ComposerTyped, ComposerInv, ~mixed, NEW r \in Requests, saving[r].pc = "work",
         NEW list \in SUBSET PickedFiles, Done(r, list), saving[r].kind = "compose" => list = {},
         UNCHANGED <<latest, page, made>>, ListFits(list)'
  PROVE  OneAtATime' /\ RequestsFit' /\ SessionFits'
<1> PICK w \in Sent : w = saving[r]
  BY InHandFits
<1>1. Fit(w) /\ \A o \in Requests \ {r} : saving[o] = NoRequest
  BY InHandFits
<1> PICK v \in Sent : v = [w EXCEPT !.pc = "answer", !.list = list]
  <2>1. [w EXCEPT !.pc = "answer", !.list = list] \in Sent
    BY DEF Sent, Asked
  <2> QED BY <2>1
<1>2. /\ v.pc = "answer" /\ v.list = list /\ v.kind = w.kind /\ v.page = w.page /\ v.new = w.new
      /\ v.asset = w.asset /\ v.post = w.post
  BY DEF Sent, Asked
<1>3. saving' = [saving EXCEPT ![r] = v]
  BY DEF Done, ComposerTyped, ComposerFields, Sent, Asked
<1>4. Fit(v)'
  BY <1>1, <1>2 DEF Fit
<1> QED BY <1>1, <1>3, <1>4, OneStaysAlone

\* A page's posts and media are what they were when none of it changed.
LEMMA NothingMoves ==
  ASSUME ComposerInv, ~mixed, UNCHANGED <<page, posts, media, library, latest, added, made>>
  PROVE  /\ MediaWereAdded' /\ PagesFit' /\ NewPostsDropShared'
         /\ \A list : ListFits(list) => ListFits(list)'
  BY DEF ComposerInv, MediaWereAdded, PagesFit, NewPostsDropShared, ListFits, Kept

\* A request is sent.
LEMMA SendsFit ==
  ASSUME ComposerTyped, ComposerInv, ~mixed', NEW r \in Requests, NEW p \in Pages, NEW kind, NEW picture,
         Sends(r, p, kind, picture), page[p] # Unopened,
         kind \in Handling \cup Saved,
         kind \in Handling => picture \in PickedFiles,
         kind \in Saved => picture = NoPost,
         kind = "upload" => picture \notin Shared,
         kind = "remove" => page[p].picks = NoPost,
         kind = "detach" => page[p].saves # NoPost,
         UNCHANGED <<pending, page, posts, media, library, latest, added, made>>
  PROVE  ComposerInv'
<1>1. /\ ~mixed /\ (\A o \in Requests : saving[o] = NoRequest)
      /\ p = latest /\ (kind = "pick" => page[p].picks = page[p].saves)
  BY DEF Sends, Free, Handling, Saved
<1>2. kind # "compose" /\ latest # NoPost
  BY <1>1, ComposerAssumption DEF Handling, Saved
<1>3. SessionFits /\ PagesFit
  BY <1>1 DEF ComposerInv
<1>4. ListFits(pending) /\ page[p].saves \in made[p] \cup {NoPost}
  BY <1>1, <1>2, <1>3 DEF SessionFits, PagesFit, Free
<1> PICK v : v = [pc |-> "work", kind |-> kind, page |-> p, asset |-> picture,
          post |-> IF kind = "pick" THEN page[p].picks ELSE page[p].saves,
          list |-> pending, new |-> FALSE]
  OBVIOUS
<1>5. /\ v.pc = "work" /\ v.kind = kind /\ v.page = p /\ v.asset = picture /\ ~v.new /\ v.list = pending
      /\ v.post = page[p].saves /\ (kind = "pick" => v.post = page[p].picks)
  BY <1>1
<1>6. v = saving'[r] /\ saving' = [saving EXCEPT ![r] = v]
  BY <1>2 DEF Sends, ComposerTyped, ComposerFields
<1>7. v \in Sent
  <2>1. saving' \in [Requests -> {NoRequest} \cup Sent]
    BY SendsTyped DEF ComposerTyped
  <2>2. v # NoRequest
    BY <1>5 DEF NoRequest
  <2> QED BY <2>1, <2>2, <1>6
<1>8. ListFits(pending)'
  BY <1>4 DEF ListFits, Kept
<1>9. v.list = pending'
  BY <1>5
<1>10. Fit(v)'
  <2>1. v.page = latest' /\ latest' # NoPost
    BY <1>1, <1>2, <1>5
  <2>2. v.pc = "work" /\ ~v.new /\ v.kind # "compose"
    BY <1>2, <1>5
  <2>3. page'[latest'] # Unopened /\ v.post \in made'[latest'] \cup {NoPost} /\ v.post = page'[latest'].saves
    BY <1>1, <1>4, <1>5
  <2>4. ListFits(v.list)'
    BY <1>8, <1>9
  <2>5. /\ v.kind = "upload" => v.asset \notin Shared
        /\ v.kind = "pick" => v.post = page'[latest'].picks
        /\ v.kind = "remove" => page'[latest'].picks = NoPost
        /\ v.kind = "detach" => v.post # NoPost
    BY <1>1, <1>5
  <2> QED BY <1>9, <2>1, <2>2, <2>3, <2>4, <2>5 DEF Fit
<1>11. OneAtATime' /\ RequestsFit' /\ SessionFits'
  BY <1>1, <1>6, <1>7, <1>10, OneStaysAlone
<1> QED BY <1>1, <1>11, NothingMoves DEF ComposerInv

\* The page opened last is opened.
LEMMA ComposeFits ==
  ASSUME ComposerTyped, ComposerInv, ~mixed', NEW r \in Requests, Compose(r)
  PROVE  ComposerInv'
<1> PICK p \in Pages, post \in {NoPost} \cup posts :
        /\ page[p] = Unopened
        /\ Sends(r, p, "compose", post)
        /\ latest' = p
        /\ made' = [made EXCEPT ![p] = {post} \ {NoPost}]
        /\ UNCHANGED <<pending, page, posts, media, library, added>>
  BY DEF Compose
<1>1. ~mixed /\ \A o \in Requests : saving[o] = NoRequest
  BY DEF Sends, Free
<1>2. MediaWereAdded /\ PagesFit
  BY <1>1 DEF ComposerInv
<1>3. p # NoPost /\ post \in PostOrNone
  BY ComposerAssumption DEF ComposerTyped, ComposerFields, PostOrNone
<1>4. made'[p] = {post} \ {NoPost} /\ \A q \in Pages \ {p} : made'[q] = made[q]
  BY DEF ComposerTyped, ComposerFields
<1>5. MediaWereAdded'
  <2> SUFFICES ASSUME NEW d \in posts, NEW a \in media[d]
               PROVE  \E q \in Pages : d \in made'[q] /\ a \in added[q]
    BY DEF MediaWereAdded
  <2>1. PICK q \in Pages : d \in made[q] /\ a \in added[q]
    BY <1>2 DEF MediaWereAdded
  <2>2. q # p
    BY <1>2, <2>1 DEF PagesFit
  <2> QED BY <2>1, <2>2, <1>4
<1>6. PagesFit'
  <2> SUFFICES ASSUME NEW q \in Pages
               PROVE  /\ made'[q] \subseteq posts
                      /\ page[q] = Unopened => added[q] = {}
                      /\ page[q] # Unopened => /\ {page[q].picks, page[q].saves} \subseteq made'[q] \cup {NoPost}
                                               /\ latest' # NoPost
    BY DEF PagesFit
  <2>1. CASE q = p
    BY <2>1, <1>2, <1>4 DEF PagesFit
  <2>2. CASE q # p
    BY <2>2, <1>2, <1>3, <1>4 DEF PagesFit
  <2> QED BY <2>1, <2>2
<1>7. NewPostsDropShared'
  BY DEF NewPostsDropShared
<1> PICK v : v = [pc |-> "work", kind |-> "compose", page |-> p, asset |-> post,
          post |-> post, list |-> pending, new |-> FALSE]
  OBVIOUS
<1>8. v = saving'[r] /\ saving' = [saving EXCEPT ![r] = v]
  BY DEF Sends, ComposerTyped, ComposerFields
<1>9. v \in Sent
  <2>1. saving' \in [Requests -> {NoRequest} \cup Sent]
    BY <1>3, SendsTyped DEF ComposerTyped
  <2>2. v # NoRequest
    BY DEF NoRequest
  <2> QED BY <2>1, <2>2, <1>8
<1>10. Fit(v)'
  BY <1>3, <1>4 DEF Fit
<1>11. OneAtATime' /\ RequestsFit' /\ SessionFits'
  BY <1>1, <1>8, <1>9, <1>10, OneStaysAlone
<1> QED BY <1>5, <1>6, <1>7, <1>11 DEF ComposerInv

\* Every page load starts with an empty list, and a post that is saved again keeps its media.
LEMMA QuietWorkFits ==
  ASSUME ComposerTyped, ComposerInv, ~mixed', NEW r \in Requests, DoCompose(r) \/ SavesPost(r)
  PROVE  ComposerInv'
<1>1. ~mixed /\ UNCHANGED <<page, posts, media, library, latest, added, made>>
  BY DEF DoCompose, SavesPost
<1>2. saving[r].pc = "work"
  BY DEF DoCompose, SavesPost, Works
<1> PICK w \in Sent : w = saving[r]
  BY <1>1, <1>2, InHandFits
<1>3. Fit(w)
  BY <1>1, <1>2, InHandFits
<1>4. w.list \in SUBSET PickedFiles
  BY DEF Sent, Asked
<1>5. CASE DoCompose(r)
  <2>1. w.kind = "compose" /\ Done(r, {})
    BY <1>5 DEF DoCompose, Works, FreshList
  <2>2. latest \in Pages /\ page[latest] = Unopened
    BY <2>1, <1>3 DEF Fit, ComposerTyped, ComposerFields
  <2>3. added[latest] = {}
    BY <2>2, <1>1 DEF ComposerInv, PagesFit
  <2>4. ListFits({})
    BY <2>2, <2>3 DEF ListFits, Kept
  <2>5. ListFits({})'
    BY <1>1, <2>4, NothingMoves
  <2> QED BY <1>1, <1>2, <2>1, <2>5, DoneFits, NothingMoves DEF ComposerInv
<1>6. CASE SavesPost(r)
  <2>1. w.kind # "compose" /\ w.pc = "work" /\ Done(r, w.list)
    BY <1>6, <1>2 DEF SavesPost
  <2>2. ListFits(w.list)
    BY <2>1, <1>3 DEF Fit
  <2>3. ListFits(w.list)'
    BY <1>1, <2>2, NothingMoves
  <2> QED BY <1>1, <1>2, <1>4, <2>1, <2>3, DoneFits, NothingMoves DEF ComposerInv
<1> QED BY <1>5, <1>6

\* What a request that is working knows.
LEMMA WorkFits ==
  ASSUME ComposerTyped, ComposerInv, ~mixed, NEW r \in Requests, NEW w, w = saving[r],
         w.pc = "work", w.kind # "compose"
  PROVE  /\ w.page = latest /\ latest \in Pages /\ page[latest] # Unopened
         /\ w.list \in SUBSET PickedFiles /\ ListFits(w.list)
         /\ w.post = page[latest].saves /\ w.post \in made[latest] \cup {NoPost}
         /\ made[latest] \subseteq posts /\ posts \subseteq Drafts /\ NoPost \notin Drafts
<1>1. w \in Sent /\ Fit(w)
  BY InHandFits
<1>2. latest \in Pages
  BY <1>1 DEF Fit, ComposerTyped, ComposerFields
<1>3. NoPost \notin Drafts
  BY ComposerAssumption
<1> QED BY <1>1, <1>2, <1>3 DEF Fit, Sent, Asked, ComposerTyped, ComposerFields, ComposerInv, PagesFit

\* Media that are put into the page opened last, and on a post of it, were added.
LEMMA AddingFits ==
  ASSUME ComposerTyped, ComposerInv, ~mixed, latest \in Pages, page[latest] # Unopened,
         NEW picture \in PickedFiles, NEW new \in SUBSET PickedFiles, NEW post,
         added' = [added EXCEPT ![latest] = @ \cup {picture}],
         new \subseteq added[latest] \cup {picture},
         media' = media \/ (post \in made[latest] /\ media' = [media EXCEPT ![post] = @ \cup new]),
         UNCHANGED <<page, posts, latest, made>>
  PROVE  /\ MediaWereAdded' /\ PagesFit'
         /\ page[latest].picks # NoPost \/ new \cap Shared = {} \/ media' = media => NewPostsDropShared'
<1>1. MediaWereAdded /\ PagesFit /\ NewPostsDropShared
  BY DEF ComposerInv
<1>2. added'[latest] = added[latest] \cup {picture} /\ \A q \in Pages \ {latest} : added'[q] = added[q]
  BY DEF ComposerTyped, ComposerFields
<1>3. \A d \in Drafts : media'[d] \subseteq media[d] \cup new /\ (d # post => media'[d] = media[d])
  BY DEF ComposerTyped, ComposerFields
<1>4. media' # media => post \in made[latest]
  OBVIOUS
<1>5. posts \subseteq Drafts
  BY DEF ComposerTyped, ComposerFields
<1>6. MediaWereAdded'
  <2> SUFFICES ASSUME NEW d \in posts, NEW a \in media'[d]
               PROVE  \E q \in Pages : d \in made[q] /\ a \in added'[q]
    BY DEF MediaWereAdded
  <2>1. CASE a \in media[d]
    <3>1. PICK q \in Pages : d \in made[q] /\ a \in added[q]
      BY <2>1, <1>1 DEF MediaWereAdded
    <3> QED BY <3>1, <1>2
  <2>2. CASE a \notin media[d]
    <3>1. d = post /\ d \in made[latest] /\ a \in new
      BY <2>2, <1>3, <1>4, <1>5
    <3> QED BY <3>1, <1>2
  <2> QED BY <2>1, <2>2
<1>7. PagesFit'
  BY <1>1, <1>2 DEF PagesFit
<1>8. ASSUME page[latest].picks # NoPost \/ new \cap Shared = {} \/ media' = media
      PROVE  NewPostsDropShared'
  <2> SUFFICES ASSUME page[latest].picks = NoPost, NEW d \in made[latest]
               PROVE  media'[d] \cap Shared = {}
    BY DEF NewPostsDropShared
  <2>1. latest # NoPost /\ media[d] \cap Shared = {}
    BY <1>1, ComposerAssumption DEF NewPostsDropShared
  <2>2. d \in Drafts
    BY <1>1, <1>5 DEF PagesFit
  <2> QED BY <1>8, <2>1, <2>2, <1>3
<1> QED BY <1>6, <1>7, <1>8

\* upload_media.
LEMMA UploadFits ==
  ASSUME ComposerTyped, ComposerInv, ~mixed', NEW r \in Requests, DoUpload(r)
  PROVE  ComposerInv'
<1>1. ~mixed /\ UNCHANGED <<page, posts, latest, made>>
  BY DEF DoUpload
<1> PICK w : w = saving[r]
  OBVIOUS
<1>2. w.pc = "work" /\ w.kind = "upload"
  BY DEF DoUpload, Works
<1>3. /\ w.page = latest /\ latest \in Pages /\ page[latest] # Unopened
      /\ w.list \in SUBSET PickedFiles /\ ListFits(w.list)
      /\ w.post = page[latest].saves /\ w.post \in made[latest] \cup {NoPost}
      /\ made[latest] \subseteq posts /\ posts \subseteq Drafts /\ NoPost \notin Drafts
  BY <1>1, <1>2, WorkFits
<1>4. w.asset \in PickedFiles \ Shared
  <2>1. w \in Sent /\ Fit(w)
    BY <1>1, <1>2, InHandFits
  <2> QED BY <1>2, <2>1 DEF Fit, Sent, Asked, Handling, Saved
<1> PICK a \in PickedFiles \ Shared : a = w.asset
  BY <1>4
<1> PICK list \in SUBSET PickedFiles : list = w.list
  BY <1>3
<1> PICK new \in SUBSET PickedFiles : new = Attachable(list) \cup {a}
  BY DEF Attachable
<1>5. /\ library' = library \cup {a}
      /\ added' = [added EXCEPT ![latest] = @ \cup {a}]
  BY <1>3 DEF DoUpload, Adds
<1>6. new \subseteq added[latest] \cup {a} /\ new \cap Shared = {} /\ new \in SUBSET PickedFiles
  BY <1>3 DEF Attachable, ListFits
<1>7. /\ w.post = NoPost => media' = media /\ Done(r, list \cup {a})
      /\ w.post # NoPost => /\ media' = [media EXCEPT ![w.post] = @ \cup new]
                            /\ Done(r, {})
  BY DEF DoUpload, WithUpload
<1>8. w.post # NoPost => w.post \in made[latest] /\ w.post \in Drafts
  BY <1>3
<1>9. MediaWereAdded' /\ PagesFit' /\ NewPostsDropShared'
  <2>1. CASE w.post = NoPost
    BY <2>1, <1>1, <1>3, <1>5, <1>6, <1>7, AddingFits
  <2>2. CASE w.post # NoPost
    BY ZenonT(60), <2>2, <1>1, <1>3, <1>5, <1>6, <1>7, <1>8, AddingFits
  <2> QED BY <2>1, <2>2
<1>10. added'[latest] = added[latest] \cup {a} /\ media \in [Drafts -> SUBSET PickedFiles]
  BY <1>3, <1>5 DEF ComposerTyped, ComposerFields
<1>k. \A x \in (added[latest] \cap library) \ Shared : x \in list \/ \E d \in made[latest] : x \in media[d]
  BY <1>3 DEF ListFits, Kept
<1>11. CASE w.post = NoPost
  <2>1. Kept(list \cup {a})'
    BY <1>1, <1>5, <1>7, <1>10, <1>11, <1>k DEF Kept
  <2>2. ListFits(list \cup {a})'
    BY <2>1, <1>1, <1>3, <1>10, <1>11 DEF ListFits
  <2> QED BY <2>2, <1>1, <1>2, <1>7, <1>9, <1>11, DoneFits DEF ComposerInv
<1>12. CASE w.post # NoPost
  <2>1. media'[w.post] = media[w.post] \cup new /\ \A d \in Drafts \ {w.post} : media'[d] = media[d]
    BY <1>7, <1>8, <1>10, <1>12
  <2>2. Kept({})'
    <3> SUFFICES ASSUME NEW x \in (added'[latest] \cap library') \ Shared
                 PROVE  \E d \in made[latest] : x \in media'[d]
      BY <1>1 DEF Kept
    <3>1. CASE x \in new
      BY <3>1, <2>1, <1>8, <1>12
    <3>2. CASE x \notin new
      <4>1. x \in (added[latest] \cap library) \ Shared
        BY <3>2, <1>5, <1>10
      <4>2. x \notin list
        BY <3>2, <4>1 DEF Attachable
      <4>3. PICK d \in made[latest] : x \in media[d]
        BY <4>1, <4>2, <1>k
      <4> QED BY <4>3, <2>1, <1>3
    <3> QED BY <3>1, <3>2
  <2>3. ListFits({})'
    BY <2>2 DEF ListFits
  <2> QED BY <2>3, <1>1, <1>2, <1>7, <1>9, <1>12, DoneFits DEF ComposerInv
<1> QED BY <1>11, <1>12

\* attach_media and attach_pending_media.
LEMMA PickFits ==
  ASSUME ComposerTyped, ComposerInv, ~mixed', NEW r \in Requests, DoPick(r)
  PROVE  ComposerInv'
<1>1. ~mixed /\ UNCHANGED <<page, posts, latest, made, library>>
  BY DEF DoPick
<1> PICK w : w = saving[r]
  OBVIOUS
<1>2. w.pc = "work" /\ w.kind = "pick"
  BY DEF DoPick, Works
<1>3. /\ w.page = latest /\ latest \in Pages /\ page[latest] # Unopened
      /\ w.list \in SUBSET PickedFiles /\ ListFits(w.list)
      /\ w.post = page[latest].saves /\ w.post \in made[latest] \cup {NoPost}
      /\ made[latest] \subseteq posts /\ posts \subseteq Drafts /\ NoPost \notin Drafts
  BY <1>1, <1>2, WorkFits
<1>4. w.asset \in PickedFiles /\ w.post = page[latest].picks
  <2>1. w \in Sent /\ Fit(w)
    BY <1>1, <1>2, InHandFits
  <2> QED BY <1>2, <2>1 DEF Fit, Sent, Asked, Handling, Saved
<1> PICK a \in PickedFiles : a = w.asset
  BY <1>4
<1> PICK list \in SUBSET PickedFiles : list = w.list
  BY <1>3
<1>k. \A x \in (added[latest] \cap library) \ Shared : x \in list \/ \E d \in made[latest] : x \in media[d]
  BY <1>3 DEF ListFits, Kept
<1>5. CASE a \notin library
  <2>1. UNCHANGED <<page, posts, media, library, latest, added, made>> /\ Done(r, list)
    BY <1>1, <1>5 DEF DoPick
  <2>2. ListFits(list)'
    BY <1>1, <1>3, <2>1, NothingMoves
  <2> QED BY <1>1, <1>2, <2>1, <2>2, DoneFits, NothingMoves DEF ComposerInv
<1>6. CASE a \in library
  <2>1. added' = [added EXCEPT ![latest] = @ \cup {a}]
    BY <1>3, <1>6 DEF DoPick, Adds
  <2>2. /\ w.post = NoPost => media' = media /\ Done(r, list \cup {a})
        /\ w.post # NoPost => media' = [media EXCEPT ![w.post] = @ \cup {a}] /\ Done(r, list)
    BY <1>6 DEF DoPick
  <2>3. w.post # NoPost => w.post \in made[latest] /\ w.post \in Drafts
    BY <1>3
  <2>4. MediaWereAdded' /\ PagesFit' /\ NewPostsDropShared'
    <3>1. CASE w.post = NoPost
      <4>1. media' = media /\ {a} \in SUBSET PickedFiles /\ {a} \subseteq added[latest] \cup {a}
        BY <3>1, <2>2
      <4> QED BY <4>1, <1>1, <1>3, <2>1, AddingFits
    <3>2. CASE w.post # NoPost
      <4>1. media' = [media EXCEPT ![w.post] = @ \cup {a}] /\ page[latest].picks # NoPost
        BY <3>2, <1>4, <2>2
      <4>2. {a} \in SUBSET PickedFiles /\ {a} \subseteq added[latest] \cup {a}
        OBVIOUS
      <4> QED BY <3>2, <4>1, <4>2, <1>1, <1>3, <2>1, <2>3, AddingFits
    <3> QED BY <3>1, <3>2
  <2>5. added'[latest] = added[latest] \cup {a} /\ media \in [Drafts -> SUBSET PickedFiles]
    BY <1>3, <2>1 DEF ComposerTyped, ComposerFields
  <2>6. CASE w.post = NoPost
    <3>1. Kept(list \cup {a})'
      BY <1>1, <2>2, <2>5, <2>6, <1>k DEF Kept
    <3>2. ListFits(list \cup {a})'
      BY <3>1, <1>1, <1>3, <2>5, <2>6 DEF ListFits
    <3> QED BY <3>2, <1>1, <1>2, <2>2, <2>4, <2>6, DoneFits DEF ComposerInv
  <2>7. CASE w.post # NoPost
    <3>1. media'[w.post] = media[w.post] \cup {a} /\ \A d \in Drafts \ {w.post} : media'[d] = media[d]
      BY <2>2, <2>3, <2>5, <2>7
    <3>2. Kept(list)'
      <4> SUFFICES ASSUME NEW x \in (added'[latest] \cap library) \ Shared, x \notin list
                   PROVE  \E d \in made[latest] : x \in media'[d]
        BY <1>1 DEF Kept
      <4>1. CASE x = a
        BY <4>1, <3>1, <2>3, <2>7
      <4>2. CASE x # a
        <5>1. PICK d \in made[latest] : x \in media[d]
          BY <4>2, <2>5, <1>k
        <5> QED BY <5>1, <3>1, <1>3
      <4> QED BY <4>1, <4>2
    <3>3. ListFits(list)'
      BY <3>2, <1>1, <1>3, <2>5, <2>7 DEF ListFits
    <3> QED BY <3>3, <1>1, <1>2, <2>2, <2>4, <2>7, DoneFits DEF ComposerInv
  <2> QED BY <2>6, <2>7
<1> QED BY <1>5, <1>6

\* remove_pending_media.
LEMMA RemovePendingFits ==
  ASSUME ComposerTyped, ComposerInv, ~mixed', NEW r \in Requests, DoRemovePending(r)
  PROVE  ComposerInv'
<1>1. ~mixed /\ UNCHANGED <<page, posts, latest, made>>
  BY DEF DoRemovePending
<1> PICK w : w = saving[r]
  OBVIOUS
<1>2. w.pc = "work" /\ w.kind = "remove"
  BY DEF DoRemovePending, Works
<1>3. /\ w.page = latest /\ latest \in Pages /\ page[latest] # Unopened
      /\ w.list \in SUBSET PickedFiles /\ ListFits(w.list)
      /\ w.post = page[latest].saves /\ w.post \in made[latest] \cup {NoPost}
      /\ made[latest] \subseteq posts /\ posts \subseteq Drafts /\ NoPost \notin Drafts
  BY <1>1, <1>2, WorkFits
<1>4. page[latest].picks = NoPost
  BY <1>1, <1>2, InHandFits DEF Fit
<1> PICK a : a = w.asset
  OBVIOUS
<1> PICK list \in SUBSET PickedFiles : list = w.list
  BY <1>3
<1> PICK protected \in BOOLEAN :
         /\ added' = [added EXCEPT ![latest] = IF protected /\ {d \in posts : a \in media[d]} \cap made[latest] # {}
                                               THEN @ ELSE @ \ {a}]
         /\ library' = IF protected \/ a \in Shared THEN library ELSE library \ {a}
         /\ media' = IF protected \/ a \in Shared THEN media ELSE [d \in Drafts |-> media[d] \ {a}]
  BY <1>3 DEF DoRemovePending
<1> DEFINE stays == protected /\ \E d \in made[latest] : a \in media[d]
<1>5. added'[latest] = IF stays THEN added[latest] ELSE added[latest] \ {a}
  BY <1>3 DEF ComposerTyped, ComposerFields
<1>6. \A q \in Pages \ {latest} : added'[q] = added[q]
  BY DEF ComposerTyped, ComposerFields
<1>7. \A d \in Drafts : media'[d] = IF protected \/ a \in Shared THEN media[d] ELSE media[d] \ {a}
  OBVIOUS
<1>8. MediaWereAdded /\ PagesFit /\ NewPostsDropShared /\ latest # NoPost
  BY <1>1, <1>3, ComposerAssumption DEF ComposerInv
<1>9. \A d \in made[latest] : media[d] \cap Shared = {}
  BY <1>3, <1>4, <1>8 DEF NewPostsDropShared
<1> HIDE DEF stays
<1>10. MediaWereAdded'
  <2> SUFFICES ASSUME NEW d \in posts, NEW x \in media'[d]
               PROVE  \E q \in Pages : d \in made[q] /\ x \in added'[q]
    BY <1>1 DEF MediaWereAdded
  <2>1. x \in media[d]
    BY <1>3, <1>7
  <2>2. PICK q \in Pages : d \in made[q] /\ x \in added[q]
    BY <1>8, <2>1 DEF MediaWereAdded
  <2>3. CASE q = latest /\ x = a
    <3>1. protected
      BY <2>1, <2>2, <2>3, <1>3, <1>7, <1>9
    <3>2. stays
      BY <3>1, <2>1, <2>2, <2>3 DEF stays
    <3> QED BY <3>2, <2>2, <2>3, <1>5
  <2> QED BY <2>2, <2>3, <1>5, <1>6
<1>11. PagesFit'
  BY <1>1, <1>3, <1>6, <1>8 DEF PagesFit
<1>12. NewPostsDropShared'
  <2> SUFFICES ASSUME NEW d \in made[latest] PROVE media'[d] \cap Shared = {}
    BY <1>1 DEF NewPostsDropShared
  <2> QED BY <1>3, <1>7, <1>9
<1>k. \A x \in (added[latest] \cap library) \ Shared : x \in list \/ \E d \in made[latest] : x \in media[d]
  BY <1>3 DEF ListFits, Kept
<1>13. Kept(list \ {a})'
  <2> SUFFICES ASSUME NEW x \in (added'[latest] \cap library') \ Shared, x \notin list \/ x = a
               PROVE  \E d \in made[latest] : x \in media'[d]
    BY <1>1 DEF Kept
  <2>1. CASE x = a
    <3>1. stays
      BY <2>1, <1>5
    <3>2. PICK d \in made[latest] : a \in media[d]
      BY <3>1 DEF stays
    <3>3. media'[d] = media[d]
      BY <3>1, <1>3, <1>7 DEF stays
    <3> QED BY <2>1, <3>2, <3>3
  <2>2. CASE x # a
    <3>1. x \in (added[latest] \cap library) \ Shared
      BY <1>5
    <3>2. PICK d \in made[latest] : x \in media[d]
      BY <2>2, <3>1, <1>k
    <3> QED BY <2>2, <3>2, <1>3, <1>7
  <2> QED BY <2>1, <2>2
<1>14. ListFits(list \ {a})'
  <2>1. list \ {a} \subseteq added'[latest]
    BY <1>3, <1>5 DEF ListFits
  <2>2. page[latest].saves # NoPost => list \ {a} = {}
    BY <1>3 DEF ListFits
  <2> QED BY <1>1, <1>13, <2>1, <2>2 DEF ListFits
<1>15. Done(r, list \ {a})
  BY DEF DoRemovePending
<1> QED BY <1>1, <1>2, <1>10, <1>11, <1>12, <1>14, <1>15, DoneFits DEF ComposerInv

\* remove_media.
LEMMA RemoveMediaFits ==
  ASSUME ComposerTyped, ComposerInv, ~mixed', NEW r \in Requests, DoRemoveMedia(r)
  PROVE  ComposerInv'
<1>1. ~mixed /\ UNCHANGED <<page, posts, latest, made, library>>
  BY DEF DoRemoveMedia
<1> PICK w : w = saving[r]
  OBVIOUS
<1>2. w.pc = "work" /\ w.kind = "detach"
  BY DEF DoRemoveMedia, Works
<1>3. /\ w.page = latest /\ latest \in Pages /\ page[latest] # Unopened
      /\ w.list \in SUBSET PickedFiles /\ ListFits(w.list)
      /\ w.post = page[latest].saves /\ w.post \in made[latest] \cup {NoPost}
      /\ made[latest] \subseteq posts /\ posts \subseteq Drafts /\ NoPost \notin Drafts
  BY <1>1, <1>2, WorkFits
<1>4. w.post \in made[latest] /\ w.post \in Drafts
  BY <1>1, <1>2, <1>3, InHandFits DEF Fit
<1>5. w.list = {}
  BY <1>3, <1>4 DEF ListFits
<1> PICK a : a = w.asset
  OBVIOUS
<1> PICK post \in Drafts : post = w.post
  BY <1>4
<1> DEFINE stays == \E d \in made[latest] \ {post} : a \in media[d]
<1>6. /\ added' = [added EXCEPT ![latest] = IF stays THEN @ ELSE @ \ {a}]
      /\ media' = [media EXCEPT ![post] = @ \ {a}]
      /\ Done(r, w.list)
  BY <1>3 DEF DoRemoveMedia
<1>7. added'[latest] = IF stays THEN added[latest] ELSE added[latest] \ {a}
  BY <1>3, <1>6 DEF ComposerTyped, ComposerFields
<1>8. \A q \in Pages \ {latest} : added'[q] = added[q]
  BY <1>6 DEF ComposerTyped, ComposerFields
<1>9. media'[post] = media[post] \ {a} /\ \A d \in Drafts \ {post} : media'[d] = media[d]
  BY <1>6 DEF ComposerTyped, ComposerFields
<1>10. MediaWereAdded /\ PagesFit /\ NewPostsDropShared
  BY <1>1 DEF ComposerInv
<1> HIDE DEF stays
<1>11. MediaWereAdded'
  <2> SUFFICES ASSUME NEW d \in posts, NEW x \in media'[d]
               PROVE  \E q \in Pages : d \in made[q] /\ x \in added'[q]
    BY <1>1 DEF MediaWereAdded
  <2>1. x \in media[d] /\ (d # post \/ x # a)
    BY <1>3, <1>9
  <2>2. PICK q \in Pages : d \in made[q] /\ x \in added[q]
    BY <1>10, <2>1 DEF MediaWereAdded
  <2>3. CASE q = latest /\ x = a
    <3>1. stays
      BY <2>1, <2>2, <2>3 DEF stays
    <3> QED BY <3>1, <2>2, <2>3, <1>7
  <2> QED BY <2>2, <2>3, <1>7, <1>8
<1>12. PagesFit'
  BY <1>1, <1>3, <1>8, <1>10 DEF PagesFit
<1>13. NewPostsDropShared'
  <2> SUFFICES ASSUME latest # NoPost, page[latest] # Unopened, page[latest].picks = NoPost, NEW d \in made[latest]
               PROVE  media'[d] \cap Shared = {}
    BY <1>1 DEF NewPostsDropShared
  <2>1. media[d] \cap Shared = {} /\ d \in Drafts
    BY <1>3, <1>10 DEF NewPostsDropShared
  <2> QED BY <2>1, <1>9
<1>k. \A x \in (added[latest] \cap library) \ Shared : \E d \in made[latest] : x \in media[d]
  BY <1>3, <1>5 DEF ListFits, Kept
<1>14. Kept({})'
  <2> SUFFICES ASSUME NEW x \in (added'[latest] \cap library) \ Shared
               PROVE  \E d \in made[latest] : x \in media'[d]
    BY <1>1 DEF Kept
  <2>1. CASE x = a
    <3>1. PICK d \in made[latest] \ {post} : a \in media[d]
      BY <2>1, <1>7 DEF stays
    <3> QED BY <2>1, <3>1, <1>3, <1>9
  <2>2. CASE x # a
    <3>1. PICK d \in made[latest] : x \in media[d]
      BY <2>2, <1>7, <1>k
    <3> QED BY <2>2, <3>1, <1>3, <1>9
  <2> QED BY <2>1, <2>2
<1>15. ListFits({})'
  BY <1>14 DEF ListFits
<1> QED BY <1>1, <1>2, <1>5, <1>6, <1>11, <1>12, <1>13, <1>15, DoneFits DEF ComposerInv

\* autosave and save_post of a new post.
LEMMA CreatesFit ==
  ASSUME ComposerTyped, ComposerInv, ~mixed', NEW r \in Requests, NEW kind \in Saved, CreatesPost(r, kind)
  PROVE  ComposerInv'
<1>1. ~mixed /\ UNCHANGED <<page, latest, library, added>>
  BY DEF CreatesPost
<1> PICK w : w = saving[r]
  OBVIOUS
<1>2. w.pc = "work" /\ w.kind = kind /\ w.post = NoPost /\ kind # "compose"
  BY DEF CreatesPost, Works, Saved
<1>3. /\ w.page = latest /\ latest \in Pages /\ page[latest] # Unopened
      /\ w.list \in SUBSET PickedFiles /\ ListFits(w.list)
      /\ w.post = page[latest].saves /\ w.post \in made[latest] \cup {NoPost}
      /\ made[latest] \subseteq posts /\ posts \subseteq Drafts /\ NoPost \notin Drafts
  BY <1>1, <1>2, WorkFits
<1>4. w \in Sent /\ \A o \in Requests \ {r} : saving[o] = NoRequest
  BY <1>1, <1>2, InHandFits
<1> PICK list \in SUBSET PickedFiles : list = w.list
  BY <1>3
<1> PICK rest : rest = IF kind = "queue" THEN list ELSE {}
  OBVIOUS
<1> PICK gets \in SUBSET PickedFiles : gets = IF kind = "queue" THEN {} ELSE Attachable(list)
  BY DEF Attachable
<1> PICK d \in Drafts \ posts :
         /\ posts' = posts \cup {d}
         /\ media' = [media EXCEPT ![d] = gets]
         /\ made' = [made EXCEPT ![latest] = @ \cup {d}]
         /\ saving' = [saving EXCEPT ![r].pc = "answer", ![r].new = TRUE, ![r].post = d,
                                       ![r].list = IF kind = "queue" THEN @ ELSE {}]
  BY <1>3 DEF CreatesPost
<1> PICK v : v = [w EXCEPT !.pc = "answer", !.new = TRUE, !.post = d,
                           !.list = IF kind = "queue" THEN @ ELSE {}]
  OBVIOUS
<1>5. saving' = [saving EXCEPT ![r] = v]
  BY <1>4 DEF ComposerTyped, ComposerFields, Sent, Asked
<1>6. v \in Sent
  BY <1>3, <1>4 DEF Sent, Asked, PostOrNone
<1>7. /\ v.pc = "answer" /\ v.list = rest /\ v.kind = kind /\ v.page = latest /\ v.new /\ v.post = d
  BY <1>2, <1>3, <1>4 DEF Sent, Asked
<1>8. gets \subseteq list /\ gets \cap Shared = {} /\ rest \subseteq list
  BY DEF Attachable
<1>9. made'[latest] = made[latest] \cup {d} /\ \A q \in Pages \ {latest} : made'[q] = made[q]
  BY <1>3 DEF ComposerTyped, ComposerFields
<1>10. media'[d] = gets /\ \A e \in Drafts \ {d} : media'[e] = media[e]
  BY DEF ComposerTyped, ComposerFields
<1>11. MediaWereAdded /\ PagesFit /\ NewPostsDropShared
  BY <1>1 DEF ComposerInv
<1>12. MediaWereAdded'
  <2> SUFFICES ASSUME NEW e \in posts \cup {d}, NEW x \in media'[e]
               PROVE  \E q \in Pages : e \in made'[q] /\ x \in added[q]
    BY <1>1 DEF MediaWereAdded
  <2>1. CASE e = d
    <3>1. x \in added[latest]
      BY <2>1, <1>3, <1>8, <1>10 DEF ListFits
    <3> QED BY <2>1, <3>1, <1>3, <1>9
  <2>2. CASE e # d
    <3>1. x \in media[e]
      BY <2>2, <1>3, <1>10
    <3>2. PICK q \in Pages : e \in made[q] /\ x \in added[q]
      BY <2>2, <3>1, <1>11 DEF MediaWereAdded
    <3> QED BY <3>2, <1>9
  <2> QED BY <2>1, <2>2
<1>13. PagesFit'
  <2> SUFFICES ASSUME NEW q \in Pages
               PROVE  /\ made'[q] \subseteq posts \cup {d}
                      /\ page[q] = Unopened => added[q] = {}
                      /\ page[q] # Unopened => /\ {page[q].picks, page[q].saves} \subseteq made'[q] \cup {NoPost}
                                               /\ latest # NoPost
    BY <1>1 DEF PagesFit
  <2>1. made[q] \subseteq made'[q] /\ made'[q] \subseteq made[q] \cup {d}
    BY <1>9
  <2> QED BY <2>1, <1>11 DEF PagesFit
<1>14. NewPostsDropShared'
  <2> SUFFICES ASSUME latest # NoPost, page[latest] # Unopened, page[latest].picks = NoPost,
                      NEW e \in made[latest] \cup {d}
               PROVE  media'[e] \cap Shared = {}
    BY <1>1, <1>9 DEF NewPostsDropShared
  <2>1. CASE e = d
    BY <2>1, <1>8, <1>10
  <2>2. CASE e # d
    <3>1. media[e] \cap Shared = {} /\ e \in Drafts
      BY <2>2, <1>3, <1>11 DEF NewPostsDropShared
    <3> QED BY <2>2, <3>1, <1>10
  <2> QED BY <2>1, <2>2
<1>15. Kept(rest)'
  <2> SUFFICES ASSUME NEW x \in (added[latest] \cap library) \ Shared, x \notin rest
               PROVE  \E e \in made'[latest] : x \in media'[e]
    BY <1>1 DEF Kept
  <2>1. CASE x \in list
    <3>1. x \in gets
      BY <2>1 DEF Attachable
    <3> QED BY <3>1, <1>9, <1>10
  <2>2. CASE x \notin list
    <3>1. PICK e \in made[latest] : x \in media[e]
      BY <2>2, <1>3 DEF ListFits, Kept
    <3>2. e # d /\ e \in Drafts
      BY <1>3
    <3> QED BY <3>1, <3>2, <1>9, <1>10
  <2> QED BY <2>1, <2>2
<1>16. ListFits(rest)'
  <2>1. rest \subseteq added'[latest'] /\ page'[latest'].saves = NoPost
    BY <1>1, <1>2, <1>3, <1>8 DEF ListFits
  <2> QED BY <1>15, <2>1 DEF ListFits
<1>17. Fit(v)'
  <2>1. v.page = latest' /\ latest' # NoPost /\ page'[latest'] # Unopened
    BY <1>1, <1>3, <1>7, ComposerAssumption
  <2>2. v.post \in made'[latest'] /\ ListFits(v.list)'
    BY <1>1, <1>7, <1>9, <1>16
  <2>3. v.kind = "autosave" => v.list = {}
    BY <1>7
  <2>4. v.kind \in Saved /\ v.pc = "answer"
    BY <1>7
  <2> QED BY <2>1, <2>2, <2>3, <2>4 DEF Fit, Saved
<1>18. OneAtATime' /\ RequestsFit' /\ SessionFits'
  BY <1>4, <1>5, <1>6, <1>17, OneStaysAlone
<1> QED BY <1>12, <1>13, <1>14, <1>18 DEF ComposerInv

\* The session is stored, and the page hears of its post.
LEMMA AnswerFits ==
  ASSUME ComposerTyped, ComposerInv, ~mixed', NEW r \in Requests, Answer(r)
  PROVE  ComposerInv'
<1>1. ~mixed /\ UNCHANGED <<posts, media, library, latest, added, made>>
  BY DEF Answer
<1> PICK w : w = saving[r]
  OBVIOUS
<1>2. w.pc = "answer"
  BY DEF Answer
<1>3. w \in Sent /\ Fit(w) /\ \A o \in Requests \ {r} : saving[o] = NoRequest
  BY <1>1, <1>2, InHandFits
<1>4. w.page = latest /\ latest \in Pages /\ latest # NoPost /\ ListFits(w.list)
  BY <1>2, <1>3 DEF Fit, ComposerTyped, ComposerFields
<1>5. /\ pending' = w.list
      /\ saving' = [saving EXCEPT ![r] = NoRequest]
      /\ \/ page' = page
         \/ w.kind = "compose" /\ page' = [page EXCEPT ![latest] = [picks |-> w.post, saves |-> w.post]]
         \/ w.kind = "autosave" /\ w.new /\ page' = [page EXCEPT ![latest].saves = w.post]
  BY <1>4 DEF Answer, Tells
<1>6. \A q \in Pages \ {latest} : page'[q] = page[q]
  BY <1>5 DEF ComposerTyped, ComposerFields
<1>7. \/ page'[latest] = page[latest]
      \/ w.kind = "compose" /\ page'[latest] = [picks |-> w.post, saves |-> w.post]
      \/ /\ w.kind = "autosave" /\ w.new /\ page[latest] # Unopened
         /\ page'[latest].picks = page[latest].picks /\ page'[latest].saves = w.post
  <2>1. w.kind = "autosave" => page[latest] # Unopened /\ page[latest] \in [picks : PostOrNone, saves : PostOrNone]
    BY <1>3, <1>4 DEF Fit, ComposerTyped, ComposerFields
  <2> QED BY <2>1, <1>4, <1>5 DEF ComposerTyped, ComposerFields
<1>8. MediaWereAdded /\ PagesFit /\ NewPostsDropShared
  BY <1>1 DEF ComposerInv
<1>9. MediaWereAdded'
  BY <1>1, <1>8 DEF MediaWereAdded
<1>10. w.kind = "compose" => made[latest] = {w.post} \ {NoPost} /\ w.list = {}
  BY <1>2, <1>3 DEF Fit
<1>11. w.kind = "autosave" => w.post \in made[latest] \cup {NoPost} /\ (w.new => w.list = {})
  BY <1>2, <1>3 DEF Fit
<1>12. PagesFit'
  <2> SUFFICES ASSUME NEW q \in Pages
               PROVE  /\ made[q] \subseteq posts
                      /\ page'[q] = Unopened => added[q] = {}
                      /\ page'[q] # Unopened => /\ {page'[q].picks, page'[q].saves} \subseteq made[q] \cup {NoPost}
                                                /\ latest # NoPost
    BY <1>1 DEF PagesFit
  <2>1. CASE q # latest \/ page'[q] = page[q]
    BY <2>1, <1>4, <1>6, <1>8 DEF PagesFit
  <2>2. CASE q = latest /\ w.kind = "compose" /\ page'[latest] = [picks |-> w.post, saves |-> w.post]
    <3>1. page[latest] = Unopened
      BY <2>2, <1>3 DEF Fit
    <3> QED BY <2>2, <3>1, <1>4, <1>8, <1>10 DEF PagesFit
  <2>3. CASE /\ q = latest /\ w.kind = "autosave" /\ page[latest] # Unopened
             /\ page'[latest].picks = page[latest].picks /\ page'[latest].saves = w.post
    <3>1. page'[latest] # Unopened
      <4>1. page[latest] \in [picks : PostOrNone, saves : PostOrNone]
        BY <2>3, <1>4 DEF ComposerTyped, ComposerFields
      <4>2. page'[latest].picks # "unopened"
        BY <2>3, <4>1, ComposerAssumption DEF PostOrNone, NoPost
      <4> QED BY <4>2 DEF Unopened
    <3> QED BY <2>3, <3>1, <1>4, <1>8, <1>11 DEF PagesFit
  <2> QED BY <2>1, <2>2, <2>3, <1>7
<1>13. NewPostsDropShared'
  <2> SUFFICES ASSUME page'[latest] # Unopened, page'[latest].picks = NoPost, NEW d \in made[latest]
               PROVE  media[d] \cap Shared = {}
    BY <1>1 DEF NewPostsDropShared
  <2>1. CASE w.kind = "compose" /\ page'[latest] = [picks |-> w.post, saves |-> w.post]
    BY <2>1, <1>10
  <2>2. CASE page[latest] # Unopened /\ page'[latest].picks = page[latest].picks
    BY <2>2, <1>4, <1>8 DEF NewPostsDropShared
  <2> QED BY <2>1, <2>2, <1>7
<1> PICK list : list = w.list
  OBVIOUS
<1>14. ListFits(list)'
  <2>1. list \subseteq added'[latest'] /\ Kept(list)'
    BY <1>1, <1>4 DEF ListFits, Kept
  <2>2. page'[latest'] # Unopened /\ page'[latest'].saves # NoPost => list = {}
    BY <1>1, <1>4, <1>7, <1>10, <1>11 DEF ListFits
  <2> QED BY <2>1, <2>2 DEF ListFits
<1>15. \A o \in Requests : saving'[o] = NoRequest
  BY <1>3, <1>5 DEF ComposerTyped, ComposerFields
<1>16. ListFits(pending)'
  <2>1. pending' = list
    BY <1>5
  <2> QED BY <1>14, <2>1 DEF ListFits, Kept
<1>17. OneAtATime' /\ RequestsFit'
  BY <1>15 DEF OneAtATime, RequestsFit
<1>18. SessionFits'
  BY <1>1, <1>4, <1>16 DEF SessionFits
<1> QED BY <1>9, <1>12, <1>13, <1>17, <1>18 DEF ComposerInv

\* The media of a page stay with it, whatever the browser asks for.
LEMMA ComposerInvStep ==
  ASSUME ComposerTyped, ComposerInv, [ComposerNext]_ComposerVars PROVE ComposerInv'
<1>1. CASE UNCHANGED ComposerVars
  BY <1>1 DEF ComposerVars, ComposerInv, MediaWereAdded, PagesFit, NewPostsDropShared, SessionFits, Free,
              OneAtATime, RequestsFit, Fit, ListFits, Kept
<1>2. CASE mixed'
  BY <1>2 DEF ComposerInv
<1>3. CASE ComposerNext /\ ~mixed'
  <2> PICK r \in Requests :
        \/ Compose(r) \/ Upload(r) \/ Pick(r) \/ RemovePending(r) \/ RemoveMedia(r)
        \/ Autosave(r) \/ SaveDraft(r) \/ SaveToQueue(r)
        \/ DoCompose(r) \/ DoUpload(r) \/ DoPick(r) \/ DoRemovePending(r) \/ DoRemoveMedia(r)
        \/ DoAutosave(r) \/ DoSavePost(r) \/ DoQueuePost(r) \/ SavesPost(r)
        \/ Answer(r)
    BY <1>3 DEF ComposerNext
  <2>1. CASE Compose(r) \/ Answer(r)
    BY <1>3, <2>1, ComposeFits, AnswerFits
  <2>2. CASE Upload(r) \/ Pick(r)
    <3>1. PICK kind \in {"upload", "pick"}, a \in PickedFiles :
            Acts(r, kind, a) /\ (kind = "upload" => a \notin Shared)
      BY <2>2 DEF Upload, Pick, ComposerTyped, ComposerFields
    <3>2. PICK p \in Pages : page[p] # Unopened /\ Sends(r, p, kind, a)
      BY <3>1 DEF Acts
    <3>3. UNCHANGED <<pending, page, posts, media, library, latest, added, made>>
      BY <3>1 DEF Acts
    <3>4. kind \in Handling /\ kind # "remove" /\ kind # "detach"
      BY DEF Handling
    <3>5. /\ kind = "upload" => a \notin Shared
          /\ kind = "remove" => page[p].picks = NoPost
          /\ kind = "detach" => page[p].saves # NoPost
      BY <3>1, <3>4
    <3>6. kind \notin Saved
      BY DEF Saved
    <3> QED BY <1>3, <3>2, <3>3, <3>4, <3>5, <3>6, SendsFit
  <2>3. CASE Autosave(r) \/ SaveDraft(r) \/ SaveToQueue(r)
    <3>1. PICK kind \in Saved : Acts(r, kind, NoPost)
      BY <2>3 DEF Autosave, SaveDraft, SaveToQueue, Saved
    <3>2. PICK p \in Pages : page[p] # Unopened /\ Sends(r, p, kind, NoPost)
      BY <3>1 DEF Acts
    <3>3. UNCHANGED <<pending, page, posts, media, library, latest, added, made>>
      BY <3>1 DEF Acts
    <3>4. kind \notin Handling /\ kind \notin {"upload", "remove", "detach"}
      BY DEF Handling, Saved
    <3> QED BY <1>3, <3>2, <3>3, <3>4, SendsFit
  <2>4. CASE RemovePending(r) \/ RemoveMedia(r)
    <3>1. PICK kind \in {"remove", "detach"} : RemoveThumbnail(r, kind)
      BY <2>4 DEF RemovePending, RemoveMedia
    <3>2. PICK p \in Pages : \E a \in added[p] :
            /\ page[p] # Unopened
            /\ kind = "remove" => page[p].picks = NoPost
            /\ kind = "detach" => page[p].saves # NoPost
            /\ Sends(r, p, kind, a)
      BY <3>1 DEF RemoveThumbnail
    <3>3. PICK a \in added[p] :
            /\ page[p] # Unopened
            /\ kind = "remove" => page[p].picks = NoPost
            /\ kind = "detach" => page[p].saves # NoPost
            /\ Sends(r, p, kind, a)
      BY <3>2
    <3>4. a \in PickedFiles
      BY DEF ComposerTyped, ComposerFields
    <3>5. UNCHANGED <<pending, page, posts, media, library, latest, added, made>>
      BY <3>1 DEF RemoveThumbnail
    <3>6. kind \in Handling /\ kind # "upload"
      BY DEF Handling
    <3>7. kind = "upload" => a \notin Shared
      BY <3>6
    <3>8. ~mixed' /\ Sends(r, p, kind, a) /\ page[p] # Unopened
      BY <1>3, <3>3
    <3>9. kind \notin Saved
      BY DEF Saved
    <3> QED BY <3>3, <3>4, <3>5, <3>6, <3>7, <3>8, <3>9, SendsFit
  <2>5. CASE DoCompose(r) \/ SavesPost(r)
    BY <1>3, <2>5, QuietWorkFits
  <2>6. CASE DoUpload(r) \/ DoPick(r)
    BY <1>3, <2>6, UploadFits, PickFits
  <2>7. CASE DoRemovePending(r) \/ DoRemoveMedia(r)
    BY <1>3, <2>7, RemovePendingFits, RemoveMediaFits
  <2>8. CASE DoAutosave(r) \/ DoSavePost(r) \/ DoQueuePost(r)
    BY <1>3, <2>8, CreatesFit DEF DoAutosave, DoSavePost, DoQueuePost, Saved
  <2> QED BY <2>1, <2>2, <2>3, <2>4, <2>5, <2>6, <2>7, <2>8
<1> QED BY <1>1, <1>2, <1>3

\* However many pages, posts, assets and requests there are: as long as requests follow
\* one another in the page opened last, a post has no media but what was put into a page
\* of it, and what is put into the page is on a post of the page or waits in the session
\* (composer/views.py: upload_media, attach_pending_media, autosave, save_post).
THEOREM MediaAlwaysFollow == ComposerSpec => []MediaFollowsItsPage
<1>1. ComposerTyped /\ ComposerInv => MediaFollowsItsPage
  <2> SUFFICES ASSUME ComposerTyped, ComposerInv, ~mixed
               PROVE  /\ \A d \in posts : \A a \in media[d] : \E p \in Pages : d \in made[p] /\ a \in added[p]
                      /\ latest # NoPost /\ (\A r \in Requests : Free(r)) =>
                           \A a \in (added[latest] \cap library) \ Shared :
                             a \in pending \/ \E d \in made[latest] : a \in media[d]
    BY DEF MediaFollowsItsPage
  <2>1. MediaWereAdded /\ SessionFits
    BY DEF ComposerInv
  <2> QED BY <2>1 DEF MediaWereAdded, SessionFits, ListFits, Kept
<1> QED
  BY <1>1, ComposerStart, ComposerTypedStep, ComposerInvStep, PTL DEF ComposerSpec

-----------------------------------------------------------------------------
(* The media of the library                                                *)

Served == [file : Nat, thumb : Nat]
Removing == {"files", "versions", "row"}
Work ==
    {Idle} \cup [pc : {"keep"}, asset : Assets, todo : {{}}]
           \cup [pc : {"cleanup"}, asset : {"none"}, todo : SUBSET Assets]
           \cup [pc : Removing, asset : Assets, todo : SUBSET Assets, file : Nat]

MediaTyped ==
  /\ asset \in [Assets -> {Fresh, Gone} \cup Served]
  /\ versions \in [Assets -> Seq(Served)]
  /\ stored \in [Assets -> SUBSET Nat]
  /\ tasks \in SUBSET [kind : {"process", "edit"}, asset : Assets, version : Nat]
  /\ uses \in SUBSET (MediaPosts \X Assets)
  /\ postState \in [MediaPosts -> {"draft", "scheduled", "publishing", "sent", "failed"}]
  /\ hand \in [Hands -> Work]
  /\ planned \in [MediaPosts -> SUBSET Assets]
  /\ raced \in [MediaPosts -> BOOLEAN]
  /\ outcome \in [MediaPosts -> SUBSET Assets]

\* Posts use assets there are.
UsesExist == \A u \in uses : Exists(u[2])

\* An upload in progress is of an asset that is not there yet and no other has in hand,
\* and a deletion of one that has been there.
HandsFit ==
  \A h \in Hands :
    /\ hand[h].pc = "keep" =>
         /\ hand[h].asset \in Assets \ Composed
         /\ asset[hand[h].asset] = Fresh
         /\ \A o \in Hands \ {h} : hand[o].pc = "keep" => hand[o].asset # hand[h].asset
    /\ hand[h].pc \in Removing => asset[hand[h].asset] # Fresh

\* All files of an asset are there, and no deletion is after it.
Whole(a) == Exists(a) /\ FilesOf(a) \subseteq stored[a]
Spared(a) == \A h \in Hands : hand[h].pc \in Removing => hand[h].asset # a

\* What is going to be sent is what was planned, whole and spared; what was sent was.
PostFits(p) ==
  ~raced[p] =>
    /\ postState[p] \in {"scheduled", "publishing"} =>
         planned[p] = MediaOf(p) /\ \A a \in MediaOf(p) : Whole(a) /\ Spared(a)
    /\ postState[p] \in {"sent", "failed"} => postState[p] = "sent" /\ outcome[p] = planned[p]

\* What counts, and what is about to.
Stock == {a \in Assets \ Composed : Exists(a)}
Coming == {h \in Hands : hand[h].pc = "keep"}
QuotaFits ==
  /\ IsFiniteSet(Stock)
  /\ Cardinality(Stock) + Cardinality(Coming) <= StorageLimit + Cardinality(Hands) - 1

MediaInv == UsesExist /\ HandsFit /\ (\A p \in MediaPosts : PostFits(p)) /\ QuotaFits

\* The library starts empty.
LEMMA MediaStarts == MediaInit => MediaTyped /\ MediaInv
<1> SUFFICES ASSUME MediaInit PROVE MediaTyped /\ MediaInv
  OBVIOUS
<1>1. MediaTyped
  BY DEF MediaInit, MediaTyped, Work
<1>2. UsesExist /\ HandsFit /\ \A p \in MediaPosts : PostFits(p)
  BY DEF MediaInit, UsesExist, HandsFit, PostFits, Idle, Removing
<1>3. Stock = {} /\ Coming = {}
  BY DEF MediaInit, Stock, Coming, Idle, Exists
<1>4. Cardinality(Hands) \in Nat /\ Cardinality(Hands) # 0
  BY FS_CardinalityType, FS_EmptySet, MediaAssumption
<1>5. QuotaFits
  BY <1>3, <1>4, FS_EmptySet, MediaAssumption DEF QuotaFits
<1>. QED
  BY <1>1, <1>2, <1>5 DEF MediaInv

\* An asset that is there has files.
LEMMA ThereIsAFile ==
  ASSUME MediaTyped, NEW a \in Assets, Exists(a)
  PROVE  asset[a] \in Served
BY DEF MediaTyped, Exists

\* Every step keeps the library well formed: uploads and edits ...
LEMMA UploadsTyped ==
  ASSUME MediaTyped, NEW h \in Hands, BeginUpload(h) \/ KeepUpload(h) \/ ComposerUpload
  PROVE  MediaTyped'
<1>1. CASE BeginUpload(h)
  <2>1. PICK a \in Assets \ Composed :
           hand' = [hand EXCEPT ![h] = IF WithinQuota THEN [pc |-> "keep", asset |-> a, todo |-> {}] ELSE Idle]
    BY <1>1 DEF BeginUpload
  <2>2. [pc |-> "keep", asset |-> a, todo |-> {}] \in Work /\ Idle \in Work
    BY DEF Work
  <2>3. hand' \in [Hands -> Work]
    BY <2>1, <2>2 DEF MediaTyped
  <2>. QED
    BY <1>1, <2>3 DEF BeginUpload, MediaTyped
<1>2. CASE KeepUpload(h)
  <2>1. hand[h] \in Work
    BY DEF MediaTyped
  <2>2. hand[h].asset \in Assets
    BY <1>2, <2>1 DEF KeepUpload, Work, Idle, Removing
  <2>3. Idle \in Work /\ [file |-> 0, thumb |-> NoFile] \in Served
    BY MediaAssumption DEF Work, Served, NoFile
  <2>4. tasks' \in SUBSET [kind : {"process", "edit"}, asset : Assets, version : Nat]
    BY <1>2, <2>2 DEF KeepUpload, MediaTyped
  <2>. QED
    BY <1>2, <2>2, <2>3, <2>4 DEF KeepUpload, Keeps, MediaTyped
<1>3. CASE ComposerUpload
  <2>1. [file |-> 0, thumb |-> NoFile] \in Served
    BY MediaAssumption DEF Served, NoFile
  <2>. QED
    BY <1>3, <2>1, MediaAssumption DEF ComposerUpload, Keeps, MediaTyped
<1>. QED
  BY <1>1, <1>2, <1>3

\* ... versions and the tasks that work on them ...
LEMMA VersionsTyped ==
  ASSUME MediaTyped, AssetEdit \/ VersionRestore \/ RunProcess \/ RunEdit
  PROVE  MediaTyped'
<1>0. NoFile \in Nat
  BY MediaAssumption DEF NoFile
<1>1. CASE AssetEdit
  <2>1. PICK a \in Assets :
           /\ Exists(a)
           /\ AddVersion(a, asset[a].file)
           /\ tasks' = tasks \cup {[kind |-> "edit", asset |-> a, version |-> Len(versions[a]) + 1]}
    BY <1>1 DEF AssetEdit
  <2>2. asset[a] \in Served /\ versions[a] \in Seq(Served)
    BY <2>1, ThereIsAFile DEF MediaTyped
  <2>3. [file |-> asset[a].file, thumb |-> NoFile] \in Served
    BY <1>0, <2>2 DEF Served
  <2>4. versions' \in [Assets -> Seq(Served)]
    BY <2>1, <2>2, <2>3 DEF AddVersion, MediaTyped
  <2>5. [kind |-> "edit", asset |-> a, version |-> Len(versions[a]) + 1]
           \in [kind : {"process", "edit"}, asset : Assets, version : Nat]
    BY <2>2
  <2>. QED
    BY <1>1, <2>1, <2>4, <2>5 DEF AssetEdit, MediaTyped
<1>2. CASE VersionRestore
  <2>0. PICK a \in Assets :
           \E n \in DOMAIN versions[a] :
             /\ AddVersion(a, versions[a][n].file)
             /\ asset' = [asset EXCEPT ![a] = [file |-> versions[a][n].file, thumb |-> versions[a][n].thumb]]
    BY <1>2 DEF VersionRestore
  <2>1. PICK n \in DOMAIN versions[a] :
           /\ AddVersion(a, versions[a][n].file)
           /\ asset' = [asset EXCEPT ![a] = [file |-> versions[a][n].file, thumb |-> versions[a][n].thumb]]
    BY <2>0
  <2>2. versions[a] \in Seq(Served) /\ versions[a][n] \in Served
    BY DEF MediaTyped
  <2>3. /\ [file |-> versions[a][n].file, thumb |-> NoFile] \in Served
        /\ [file |-> versions[a][n].file, thumb |-> versions[a][n].thumb] \in Served
    BY <1>0, <2>2 DEF Served
  <2>4. versions' \in [Assets -> Seq(Served)]
    BY <2>1, <2>2, <2>3 DEF AddVersion, MediaTyped
  <2>. QED
    BY <1>2, <2>1, <2>3, <2>4 DEF VersionRestore, MediaTyped
<1>3. CASE RunProcess
  <2>1. PICK t \in tasks :
           /\ tasks' = tasks \ {t}
           /\ asset' = IF Exists(t.asset) /\ asset[t.asset].file \in stored[t.asset]
                       THEN [asset EXCEPT ![t.asset].thumb = asset[t.asset].file] ELSE asset
           /\ UNCHANGED <<versions, stored, uses, postState, hand, edits, planned, raced, outcome>>
    BY <1>3 DEF RunProcess
  <2>2. PICK a \in Assets : t.asset = a
    BY DEF MediaTyped
  <2>3. CASE Exists(a)
    <3>1. asset[a] \in Served
      BY <2>3, ThereIsAFile
    <3>2. [asset[a] EXCEPT !.thumb = asset[a].file] \in Served
      BY <3>1 DEF Served
    <3>. QED
      BY <2>1, <2>2, <3>2 DEF MediaTyped
  <2>. QED
    BY <2>1, <2>2, <2>3 DEF MediaTyped
<1>4. CASE RunEdit
  <2>1. PICK t \in tasks :
           /\ tasks' = tasks \ {t}
           /\ IF Exists(t.asset) /\ asset[t.asset].file \in stored[t.asset]
                THEN /\ stored' = [stored EXCEPT ![t.asset] = WithEdited(t.asset, t.version)]
                     /\ versions' = [versions EXCEPT ![t.asset][t.version] = [file |-> t.version, thumb |-> t.version]]
                     /\ asset' = [asset EXCEPT ![t.asset].thumb = t.version]
                ELSE UNCHANGED <<stored, versions, asset>>
           /\ UNCHANGED <<uses, postState, hand, edits, planned, raced, outcome>>
    BY <1>4 DEF RunEdit
  <2>2. PICK a \in Assets, n \in Nat : t.asset = a /\ t.version = n
    BY DEF MediaTyped
  <2>3. CASE Exists(a) /\ asset[a].file \in stored[a]
    <3>1. asset[a] \in Served /\ versions[a] \in Seq(Served)
      BY <2>3, ThereIsAFile DEF MediaTyped
    <3>2. [asset[a] EXCEPT !.thumb = n] \in Served /\ [file |-> n, thumb |-> n] \in Served
      BY <3>1 DEF Served
    <3>3. [versions[a] EXCEPT ![n] = [file |-> n, thumb |-> n]] \in Seq(Served)
      <4>. PICK v \in Seq(Served), r \in Served : v = versions[a] /\ r = [file |-> n, thumb |-> n]
        BY <3>1, <3>2
      <4>1. [v EXCEPT ![n] = r] = [k \in 1 .. Len(v) |-> IF k = n THEN r ELSE v[k]]
        OBVIOUS
      <4>2. [k \in 1 .. Len(v) |-> IF k = n THEN r ELSE v[k]] \in Seq(Served)
        OBVIOUS
      <4>. QED
        BY <4>1, <4>2
    <3>4. versions' \in [Assets -> Seq(Served)]
      BY <2>1, <2>2, <2>3, <3>3 DEF MediaTyped
    <3>5. asset' \in [Assets -> {Fresh, Gone} \cup Served]
      BY <2>1, <2>2, <2>3, <3>2 DEF MediaTyped
    <3>6. stored' \in [Assets -> SUBSET Nat]
      <4>1. PICK files \in SUBSET Nat : files = WithEdited(t.asset, t.version)
        BY <2>2 DEF WithEdited, MediaTyped
      <4>. QED
        BY <2>1, <2>2, <2>3, <4>1 DEF MediaTyped
    <3>. QED
      BY <2>1, <3>4, <3>5, <3>6 DEF MediaTyped
  <2>. QED
    BY <2>1, <2>2, <2>3 DEF MediaTyped
<1>. QED
  BY <1>1, <1>2, <1>3, <1>4

\* ... posts ...
LEMMA PostsTyped ==
  ASSUME MediaTyped, Attach \/ SchedulePost \/ \E p \in MediaPosts : ClaimPost(p) \/ SendPost(p)
  PROVE  MediaTyped'
<1>1. CASE Attach
  BY <1>1 DEF Attach, MediaTyped
<1>2. CASE SchedulePost
  BY <1>2 DEF SchedulePost, MediaTyped, MediaOf
<1>3. ASSUME NEW p \in MediaPosts, ClaimPost(p) PROVE MediaTyped'
  BY <1>3 DEF ClaimPost, MediaTyped
<1>4. ASSUME NEW p \in MediaPosts, SendPost(p) PROVE MediaTyped'
  BY <1>4 DEF SendPost, MediaTyped, MediaOf
<1>. QED
  BY <1>1, <1>2, <1>3, <1>4

\* ... and deletions.
LEMMA DeletionsTyped ==
  ASSUME MediaTyped, NEW h \in Hands,
         \/ DeleteLooks(h) \/ CleanupScans(h) \/ CleanupLooks(h)
         \/ DeleteFile(h) \/ DeleteVersions(h) \/ DeleteRow(h) \/ Stops(h)
  PROVE  MediaTyped'
<1>. PICK w \in Work : hand[h] = w
  BY DEF MediaTyped
<1>0. /\ Idle \in Work
      /\ \A a \in Assets, todo \in SUBSET Assets : Exists(a) => Deletes(a, todo) \in Work
      /\ \A todo \in SUBSET Assets : [pc |-> "cleanup", asset |-> "none", todo |-> todo] \in Work
  <2>1. ASSUME NEW a \in Assets, NEW todo \in SUBSET Assets, Exists(a)
        PROVE  Deletes(a, todo) \in Work
    <3>1. asset[a].file \in Nat
      BY <2>1, ThereIsAFile DEF Served
    <3>. QED
      BY <3>1 DEF Deletes, Work, Removing
  <2>. QED
    BY <2>1 DEF Work
<1>1. CASE DeleteLooks(h)
  <2>1. PICK a \in Assets : Exists(a) /\ hand' = [hand EXCEPT ![h] = Deletes(a, {})]
    BY <1>1 DEF DeleteLooks
  <2>2. Deletes(a, {}) \in Work
    BY <1>0, <2>1
  <2>. QED
    BY <1>1, <2>1, <2>2 DEF DeleteLooks, MediaTyped
<1>2. CASE CleanupScans(h)
  <2>1. PICK todo \in SUBSET Assets :
           hand' = [hand EXCEPT ![h] = [pc |-> "cleanup", asset |-> "none", todo |-> todo]]
    BY <1>2 DEF CleanupScans
  <2>2. [pc |-> "cleanup", asset |-> "none", todo |-> todo] \in Work
    BY <1>0
  <2>. QED
    BY <1>2, <2>1, <2>2 DEF CleanupScans, MediaTyped
<1>3. CASE CleanupLooks(h)
  <2>1. w.todo \in SUBSET Assets
    BY <1>3 DEF CleanupLooks, Work, Idle, Removing
  <2>2. PICK r \in Work : hand' = [hand EXCEPT ![h] = r]
    BY <1>0, <1>3, <2>1 DEF CleanupLooks
  <2>. QED
    BY <1>3, <2>2 DEF CleanupLooks, MediaTyped
<1>4. CASE DeleteFile(h)
  <2>1. [w EXCEPT !.pc = "versions"] \in Work /\ w.asset \in Assets
    BY <1>4 DEF DeleteFile, Work, Idle, Removing
  <2>. QED
    BY <1>4, <2>1 DEF DeleteFile, MediaTyped
<1>5. CASE DeleteVersions(h)
  <2>1. [w EXCEPT !.pc = "row"] \in Work /\ w.asset \in Assets
    BY <1>5 DEF DeleteVersions, Work, Idle, Removing
  <2>. QED
    BY <1>5, <2>1 DEF DeleteVersions, MediaTyped
<1>6. ASSUME w.pc \in {"versions", "row"} PROVE AfterDelete(h) \in Work
  <2>1. w.todo \in SUBSET Assets
    BY <1>6 DEF Work, Idle, Removing
  <2>. QED
    BY <1>0, <2>1 DEF AfterDelete
<1>7. CASE DeleteRow(h)
  <2>1. w.asset \in Assets /\ AfterDelete(h) \in Work
    BY <1>6, <1>7 DEF DeleteRow, Work, Idle, Removing
  <2>2. uses' \in SUBSET (MediaPosts \X Assets)
    BY <1>7 DEF DeleteRow, MediaTyped
  <2>. QED
    BY <1>7, <2>1, <2>2 DEF DeleteRow, MediaTyped
<1>8. CASE Stops(h)
  BY <1>0, <1>6, <1>8 DEF Stops, MediaTyped
<1>. QED
  BY <1>1, <1>2, <1>3, <1>4, <1>5, <1>7, <1>8

\* A file that an asset serves or can be restored to stays in the storage, and no deletion
\* turns up, while assets are uploaded ...
LEMMA UploadsSpare ==
  ASSUME MediaTyped, HandsFit, NEW h \in Hands, BeginUpload(h) \/ KeepUpload(h) \/ ComposerUpload,
         NEW a \in Assets, Exists(a)
  PROVE  Exists(a)' /\ (Whole(a) => Whole(a)') /\ (Spared(a) => Spared(a)')
<1>1. CASE BeginUpload(h)
  <2>1. Exists(a)' /\ (Whole(a) => Whole(a)')
    BY <1>1 DEF BeginUpload, Exists, Whole, FilesOf
  <2>2. PICK b \in Assets :
           hand' = [hand EXCEPT ![h] = IF WithinQuota THEN [pc |-> "keep", asset |-> b, todo |-> {}] ELSE Idle]
    BY <1>1 DEF BeginUpload
  <2>3. \A o \in Hands : hand'[o].pc \in Removing => hand'[o] = hand[o]
    BY <2>2 DEF MediaTyped, Idle, Removing
  <2>. QED
    BY <2>1, <2>3 DEF Spared
<1>2. CASE KeepUpload(h)
  <2>0. PICK w \in Work : hand[h] = w
    BY DEF MediaTyped
  <2>1. w.pc = "keep" /\ w.asset \in Assets /\ asset[w.asset] = Fresh
    BY <1>2, <2>0 DEF KeepUpload, HandsFit
  <2>2. w.asset # a
    BY <2>1 DEF Exists
  <2>3. asset'[a] = asset[a] /\ stored'[a] = stored[a] /\ versions' = versions
    BY <1>2, <2>0, <2>2 DEF KeepUpload, Keeps, MediaTyped
  <2>4. \A o \in Hands : hand'[o].pc \in Removing => hand'[o] = hand[o]
    BY <1>2 DEF KeepUpload, MediaTyped, Idle, Removing
  <2>. QED
    BY <2>3, <2>4 DEF Exists, Whole, FilesOf, Spared
<1>3. CASE ComposerUpload
  <2>1. PICK b \in Composed : asset[b] = Fresh /\ Keeps(b)
    BY <1>3 DEF ComposerUpload
  <2>2. asset'[a] = asset[a] /\ stored'[a] = stored[a] /\ versions' = versions /\ hand' = hand
    BY <1>3, <2>1 DEF ComposerUpload, Keeps, MediaTyped, Exists
  <2>. QED
    BY <2>2 DEF Exists, Whole, FilesOf, Spared
<1>. QED
  BY <1>1, <1>2, <1>3

\* ... and while versions are made of them: an edit adds a file, and a restore goes back to
\* one of those there are.
LEMMA VersionsSpare ==
  ASSUME MediaTyped, AssetEdit \/ VersionRestore \/ RunProcess \/ RunEdit,
         NEW a \in Assets, Exists(a)
  PROVE  Exists(a)' /\ (Whole(a) => Whole(a)') /\ (Spared(a) => Spared(a)')
<1>0. Spared(a) => Spared(a)'
  BY DEF AssetEdit, VersionRestore, RunProcess, RunEdit, Spared
<1>1. PICK v \in Seq(Served), s \in Served : v = versions[a] /\ s = asset[a]
  BY ThereIsAFile DEF MediaTyped
<1>2. CASE AssetEdit
  <2>1. PICK b \in Assets : AddVersion(b, asset[b].file)
    BY <1>2 DEF AssetEdit
  <2>2. asset' = asset /\ stored' = stored
    BY <1>2 DEF AssetEdit
  <2>3. versions'[a] = IF a = b THEN Append(v, [file |-> s.file, thumb |-> NoFile]) ELSE v
    BY <1>1, <2>1 DEF AddVersion, MediaTyped
  <2>4. FilesOf(a)' \subseteq FilesOf(a)
    BY <1>1, <2>2, <2>3 DEF FilesOf
  <2>. QED
    BY <1>0, <2>2, <2>4 DEF Whole, Exists
<1>3. CASE VersionRestore
  <2>1. PICK b \in Assets :
           \E n \in DOMAIN versions[b] :
             /\ AddVersion(b, versions[b][n].file)
             /\ asset' = [asset EXCEPT ![b] = [file |-> versions[b][n].file, thumb |-> versions[b][n].thumb]]
    BY <1>3 DEF VersionRestore
  <2>2. PICK n \in DOMAIN versions[b] :
             /\ AddVersion(b, versions[b][n].file)
             /\ asset' = [asset EXCEPT ![b] = [file |-> versions[b][n].file, thumb |-> versions[b][n].thumb]]
    BY <2>1
  <2>3. stored' = stored
    BY <1>3 DEF VersionRestore
  <2>4. CASE a = b
    <3>1. asset'[a] = [file |-> v[n].file, thumb |-> v[n].thumb]
      BY <1>1, <2>2, <2>4 DEF MediaTyped
    <3>2. versions'[a] = Append(v, [file |-> v[n].file, thumb |-> NoFile])
      BY <1>1, <2>2, <2>4 DEF AddVersion, MediaTyped
    <3>3. n \in DOMAIN v
      BY <1>1, <2>4
    <3>4. FilesOf(a)' \subseteq FilesOf(a)
      BY <1>1, <3>1, <3>2, <3>3 DEF FilesOf
    <3>5. Exists(a)'
      BY <3>1 DEF Exists, Fresh, Gone
    <3>. QED
      BY <1>0, <2>3, <3>4, <3>5 DEF Whole
  <2>5. CASE a # b
    <3>1. asset'[a] = asset[a] /\ versions'[a] = versions[a]
      BY <2>2, <2>5 DEF AddVersion, MediaTyped
    <3>. QED
      BY <1>0, <2>3, <3>1 DEF Whole, Exists, FilesOf
  <2>. QED
    BY <2>4, <2>5
<1>4. CASE RunProcess
  <2>1. PICK t \in tasks :
           asset' = IF Exists(t.asset) /\ asset[t.asset].file \in stored[t.asset]
                       THEN [asset EXCEPT ![t.asset].thumb = asset[t.asset].file] ELSE asset
    BY <1>4 DEF RunProcess
  <2>2. asset'[a] = s \/ asset'[a] = [s EXCEPT !.thumb = s.file]
    BY <1>1, <2>1 DEF MediaTyped
  <2>3. asset'[a] \in Served /\ asset'[a].file = s.file
    BY <2>2 DEF Served
  <2>4. Exists(a)'
    BY <2>3 DEF Exists, Fresh, Gone, Served
  <2>5. versions' = versions /\ stored' = stored
    BY <1>4 DEF RunProcess
  <2>. QED
    BY <1>0, <1>1, <2>3, <2>4, <2>5 DEF Whole, FilesOf
<1>5. CASE RunEdit
  <2>1. PICK t \in tasks :
            IF Exists(t.asset) /\ asset[t.asset].file \in stored[t.asset]
                THEN /\ stored' = [stored EXCEPT ![t.asset] = WithEdited(t.asset, t.version)]
                     /\ versions' = [versions EXCEPT ![t.asset][t.version] = [file |-> t.version, thumb |-> t.version]]
                     /\ asset' = [asset EXCEPT ![t.asset].thumb = t.version]
                ELSE UNCHANGED <<stored, versions, asset>>
    BY <1>5 DEF RunEdit
  <2>2. PICK b \in Assets, n \in Nat : t.asset = b /\ t.version = n
    BY DEF MediaTyped
  <2>3. CASE a = b /\ s.file \in stored[a]
    <3>1. /\ stored'[a] = stored[a] \cup {n}
          /\ versions'[a] = [v EXCEPT ![n] = [file |-> n, thumb |-> n]]
          /\ asset'[a] = [s EXCEPT !.thumb = n]
      BY <1>1, <2>1, <2>2, <2>3 DEF MediaTyped, WithEdited
    <3>2. \A k \in DOMAIN versions'[a] :
              k \in DOMAIN v /\ (versions'[a][k] = v[k] \/ versions'[a][k].file = n)
      BY <3>1
    <3>3. asset'[a] \in Served /\ asset'[a].file = s.file
      BY <3>1 DEF Served
    <3>4. Exists(a)'
      BY <3>3 DEF Exists, Fresh, Gone, Served
    <3>5. FilesOf(a)' \subseteq FilesOf(a) \cup {n}
      BY <1>1, <3>2, <3>3 DEF FilesOf
    <3>. QED
      BY <1>0, <3>1, <3>4, <3>5 DEF Whole
  <2>4. CASE ~(a = b /\ s.file \in stored[a])
    <3>1. stored'[a] = stored[a] /\ versions'[a] = versions[a] /\ asset'[a] = asset[a]
      BY <1>1, <2>1, <2>2, <2>4 DEF MediaTyped
    <3>. QED
      BY <1>0, <3>1 DEF Whole, FilesOf, Exists
  <2>. QED
    BY <2>3, <2>4
<1>. QED
  BY <1>2, <1>3, <1>4, <1>5

\* A deletion takes only what it has in hand, and turns up only where no post that is
\* going to be sent uses the asset.
LEMMA DeletionsSpare ==
  ASSUME MediaTyped, NEW h \in Hands,
         \/ DeleteLooks(h) \/ CleanupScans(h) \/ CleanupLooks(h)
         \/ DeleteFile(h) \/ DeleteVersions(h) \/ DeleteRow(h) \/ Stops(h),
         NEW a \in Assets, Exists(a), Spared(a)
  PROVE  Exists(a)' /\ (Whole(a) => Whole(a)') /\ (Spared(a)' \/ ~Protected(a))
<1>. PICK w \in Work : hand[h] = w
  BY DEF MediaTyped
<1>0. ASSUME NEW r \in Work, hand' = [hand EXCEPT ![h] = r], r.pc \in Removing => r.asset # a
      PROVE  Spared(a)'
  <2>1. \A o \in Hands : hand'[o] = IF o = h THEN r ELSE hand[o]
    BY <1>0 DEF MediaTyped
  <2>. QED
    BY <1>0, <2>1 DEF Spared
<1>1. CASE DeleteLooks(h)
  <2>1. Exists(a)' /\ (Whole(a) => Whole(a)')
    BY <1>1 DEF DeleteLooks, Exists, Whole, FilesOf
  <2>2. PICK b \in Assets : Exists(b) /\ ~Protected(b) /\ hand' = [hand EXCEPT ![h] = Deletes(b, {})]
    BY <1>1 DEF DeleteLooks
  <2>3. Deletes(b, {}) \in Work /\ Deletes(b, {}).asset = b
    BY <2>2, ThereIsAFile DEF Deletes, Work, Removing, Served
  <2>4. CASE b = a
    BY <2>1, <2>2, <2>4
  <2>5. CASE b # a
    BY <1>0, <2>1, <2>2, <2>3, <2>5
  <2>. QED
    BY <2>4, <2>5
<1>2. CASE CleanupScans(h)
  <2>1. Exists(a)' /\ (Whole(a) => Whole(a)')
    BY <1>2 DEF CleanupScans, Exists, Whole, FilesOf
  <2>2. PICK todo \in SUBSET Assets :
           hand' = [hand EXCEPT ![h] = [pc |-> "cleanup", asset |-> "none", todo |-> todo]]
    BY <1>2 DEF CleanupScans
  <2>3. [pc |-> "cleanup", asset |-> "none", todo |-> todo] \in Work
    BY DEF Work
  <2>. QED
    BY <1>0, <2>1, <2>2, <2>3 DEF Removing
<1>3. CASE CleanupLooks(h)
  <2>1. Exists(a)' /\ (Whole(a) => Whole(a)')
    BY <1>3 DEF CleanupLooks, Exists, Whole, FilesOf
  <2>2. w.todo \in SUBSET Assets
    BY <1>3 DEF CleanupLooks, Work, Idle, Removing
  <2>3. /\ Idle \in Work /\ Idle.pc \notin Removing
        /\ \A todo \in SUBSET Assets :
              /\ [pc |-> "cleanup", asset |-> "none", todo |-> todo] \in Work
              /\ [pc |-> "cleanup", asset |-> "none", todo |-> todo].pc \notin Removing
    BY DEF Work, Idle, Removing
  <2>4. CASE w.todo = {}
    <3>1. hand' = [hand EXCEPT ![h] = Idle]
      BY <1>3, <2>4 DEF CleanupLooks
    <3>. QED
      BY <1>0, <2>1, <2>3, <3>1
  <2>5. CASE w.todo # {}
    <3>1. PICK b \in w.todo :
            hand' = [hand EXCEPT ![h] =
                 IF Exists(b) /\ ~Protected(b) THEN Deletes(b, w.todo \ {b})
                 ELSE [pc |-> "cleanup", asset |-> "none", todo |-> w.todo \ {b}]]
      BY <1>3, <2>5 DEF CleanupLooks
    <3>2. b \in Assets /\ w.todo \ {b} \in SUBSET Assets
      BY <2>2
    <3>3. CASE Exists(b) /\ ~Protected(b)
      <4>1. Deletes(b, w.todo \ {b}) \in Work /\ Deletes(b, w.todo \ {b}).asset = b
        BY <3>2, <3>3, ThereIsAFile DEF Deletes, Work, Removing, Served
      <4>2. CASE b = a
        BY <2>1, <3>3, <4>2
      <4>3. CASE b # a
        <5>1. hand' = [hand EXCEPT ![h] = Deletes(b, w.todo \ {b})]
          BY <3>1, <3>3
        <5>. QED
          BY <1>0, <2>1, <4>1, <4>3, <5>1
      <4>. QED
        BY <4>2, <4>3
    <3>4. CASE ~(Exists(b) /\ ~Protected(b))
      <4>1. hand' = [hand EXCEPT ![h] = [pc |-> "cleanup", asset |-> "none", todo |-> w.todo \ {b}]]
        BY <3>1, <3>4
      <4>. QED
        BY <1>0, <2>1, <2>3, <3>2, <4>1
    <3>. QED
      BY <3>3, <3>4
  <2>. QED
    BY <2>4, <2>5
<1>4. CASE DeleteFile(h)
  <2>1. [w EXCEPT !.pc = "versions"] \in Work /\ [w EXCEPT !.pc = "versions"].asset = w.asset /\ w.asset \in Assets
    BY <1>4 DEF DeleteFile, Work, Idle, Removing
  <2>2. w.asset # a
    BY <1>4 DEF DeleteFile, Spared, Removing
  <2>3. stored'[a] = stored[a] /\ asset' = asset /\ versions' = versions
    BY <1>4, <2>1, <2>2 DEF DeleteFile, MediaTyped
  <2>4. hand' = [hand EXCEPT ![h] = [w EXCEPT !.pc = "versions"]]
    BY <1>4 DEF DeleteFile
  <2>5. Spared(a)'
    BY <1>0, <2>1, <2>2, <2>4
  <2>. QED
    BY <2>3, <2>5 DEF Exists, Whole, FilesOf
<1>5. CASE DeleteVersions(h)
  <2>1. [w EXCEPT !.pc = "row"] \in Work /\ [w EXCEPT !.pc = "row"].asset = w.asset /\ w.asset \in Assets
    BY <1>5 DEF DeleteVersions, Work, Idle, Removing
  <2>2. w.asset # a
    BY <1>5 DEF DeleteVersions, Spared, Removing
  <2>3. stored'[a] = stored[a] /\ asset' = asset /\ versions' = versions
    BY <1>5, <2>1, <2>2 DEF DeleteVersions, MediaTyped
  <2>4. hand' = [hand EXCEPT ![h] = [w EXCEPT !.pc = "row"]]
    BY <1>5 DEF DeleteVersions
  <2>5. Spared(a)'
    BY <1>0, <2>1, <2>2, <2>4
  <2>. QED
    BY <2>3, <2>5 DEF Exists, Whole, FilesOf
<1>6. ASSUME w.pc \in {"versions", "row"} PROVE AfterDelete(h) \in Work /\ AfterDelete(h).pc \notin Removing
  <2>1. w.todo \in SUBSET Assets
    BY <1>6 DEF Work, Idle, Removing
  <2>. QED
    BY <2>1 DEF AfterDelete, Work, Idle, Removing
<1>7. CASE DeleteRow(h)
  <2>1. w.asset \in Assets /\ AfterDelete(h) \in Work /\ AfterDelete(h).pc \notin Removing
    BY <1>6, <1>7 DEF DeleteRow, Work, Idle, Removing
  <2>2. w.asset # a
    BY <1>7 DEF DeleteRow, Spared, Removing
  <2>3. stored' = stored /\ asset'[a] = asset[a] /\ versions'[a] = versions[a]
    BY <1>7, <2>1, <2>2 DEF DeleteRow, MediaTyped
  <2>4. Spared(a)'
    BY <1>0, <1>7, <2>1 DEF DeleteRow
  <2>. QED
    BY <2>3, <2>4 DEF Exists, Whole, FilesOf
<1>8. CASE Stops(h)
  <2>1. Idle \in Work /\ Idle.pc \notin Removing
    BY DEF Work, Idle, Removing
  <2>2. PICK r \in Work : hand' = [hand EXCEPT ![h] = r] /\ r.pc \notin Removing
    BY <1>6, <1>8, <2>1 DEF Stops
  <2>3. Spared(a)'
    BY <1>0, <2>2
  <2>. QED
    BY <1>8, <2>3 DEF Stops, Exists, Whole, FilesOf
<1>. QED
  BY <1>1, <1>2, <1>3, <1>4, <1>5, <1>7, <1>8

\* The steps of the library that leave the posts and their uses alone.
Handles(h) ==
  \/ BeginUpload(h) \/ KeepUpload(h) \/ ComposerUpload
  \/ AssetEdit \/ VersionRestore \/ RunProcess \/ RunEdit
  \/ DeleteLooks(h) \/ CleanupScans(h) \/ CleanupLooks(h)
  \/ DeleteFile(h) \/ DeleteVersions(h) \/ Stops(h)

\* None of them touches a post ...
LEMMA PostsAreLeft ==
  ASSUME NEW h \in Hands, Handles(h)
  PROVE  UNCHANGED <<uses, postState, planned, raced, outcome>>
BY DEF Handles, BeginUpload, KeepUpload, ComposerUpload, AssetEdit, VersionRestore, RunProcess, RunEdit,
   DeleteLooks, CleanupScans, CleanupLooks, DeleteFile, DeleteVersions, Stops

\* ... or takes an asset away.
LEMMA AssetsStay ==
  ASSUME MediaTyped, HandsFit, NEW h \in Hands, Handles(h), NEW a \in Assets, Exists(a)
  PROVE  Exists(a)'
<1>1. CASE BeginUpload(h) \/ KeepUpload(h) \/ ComposerUpload
  BY <1>1, UploadsSpare
<1>2. CASE AssetEdit \/ VersionRestore \/ RunProcess \/ RunEdit
  BY <1>2, VersionsSpare
<1>3. CASE DeleteLooks(h) \/ CleanupScans(h) \/ CleanupLooks(h) \/ DeleteFile(h) \/ DeleteVersions(h) \/ Stops(h)
  BY <1>3 DEF DeleteLooks, CleanupScans, CleanupLooks, DeleteFile, DeleteVersions, Stops, Exists
<1>. QED
  BY <1>1, <1>2, <1>3 DEF Handles

\* Assets that posts use are there, and stay until a deletion takes them and their uses
\* away together.
LEMMA UsesStay ==
  ASSUME MediaTyped, UsesExist, HandsFit, MediaNext
  PROVE  UsesExist'
<1>0. \A u \in uses : u[2] \in Assets
  BY DEF MediaTyped
<1>1. ASSUME NEW h \in Hands, Handles(h) PROVE UsesExist'
  BY <1>0, <1>1, PostsAreLeft, AssetsStay DEF UsesExist
<1>2. ASSUME SchedulePost \/ \E p \in MediaPosts : ClaimPost(p) \/ SendPost(p) PROVE UsesExist'
  BY <1>2 DEF SchedulePost, ClaimPost, SendPost, UsesExist, Exists
<1>3. CASE Attach
  <2>1. PICK p \in MediaPosts, a \in Assets : Exists(a) /\ uses' = uses \cup {<<p, a>>}
    BY <1>3 DEF Attach
  <2>2. asset' = asset
    BY <1>3 DEF Attach
  <2>. QED
    BY <2>1, <2>2 DEF UsesExist, Exists
<1>4. ASSUME NEW h \in Hands, DeleteRow(h) PROVE UsesExist'
  <2>1. \A a \in Assets : a # hand[h].asset => asset'[a] = asset[a]
    BY <1>4 DEF DeleteRow, MediaTyped
  <2>2. uses' = {u \in uses : u[2] # hand[h].asset}
    BY <1>4 DEF DeleteRow
  <2>. QED
    BY <1>0, <2>1, <2>2 DEF UsesExist, Exists
<1>. QED
  <2>1. PICK h : h \in Hands
    BY MediaAssumption
  <2>. QED
    BY <1>1, <1>2, <1>3, <1>4, <2>1 DEF MediaNext, Handles

\* A post that is going to be sent keeps what was planned, whole and spared.
LEMMA PostStaysFit ==
  ASSUME MediaTyped, UsesExist, HandsFit, MediaNext, NEW p \in MediaPosts, PostFits(p)
  PROVE  PostFits(p)'
<1>. DEFINE Due == postState[p] \in {"scheduled", "publishing"}
<1>0. \A a \in MediaOf(p) : a \in Assets /\ Exists(a)
  BY DEF MediaOf, UsesExist
<1>1. ASSUME NEW h \in Hands, Handles(h) PROVE PostFits(p)'
  <2>1. ASSUME NEW a \in MediaOf(p), Due, Whole(a), Spared(a) PROVE Whole(a)' /\ Spared(a)'
    <3>1. a \in Assets /\ Exists(a) /\ Protected(a)
      BY <1>0, <2>1 DEF MediaOf, Protected
    <3>2. CASE BeginUpload(h) \/ KeepUpload(h) \/ ComposerUpload
      BY <2>1, <3>1, <3>2, UploadsSpare
    <3>3. CASE AssetEdit \/ VersionRestore \/ RunProcess \/ RunEdit
      BY <2>1, <3>1, <3>3, VersionsSpare
    <3>4. CASE DeleteLooks(h) \/ CleanupScans(h) \/ CleanupLooks(h) \/ DeleteFile(h) \/ DeleteVersions(h) \/ Stops(h)
      BY <2>1, <3>1, <3>4, DeletionsSpare
    <3>. QED
      BY <1>1, <3>2, <3>3, <3>4 DEF Handles
  <2>2. UNCHANGED <<uses, postState, planned, raced, outcome>>
    BY <1>1, PostsAreLeft
  <2>3. MediaOf(p)' = MediaOf(p)
    BY <2>2 DEF MediaOf
  <2>. QED
    BY <2>1, <2>2, <2>3 DEF PostFits
<1>2. ASSUME NEW h \in Hands, DeleteRow(h) PROVE PostFits(p)'
  <2>1. ASSUME NEW a \in MediaOf(p), Due, Whole(a), Spared(a)
        PROVE  Whole(a)' /\ Spared(a)' /\ a # hand[h].asset
    <3>1. a \in Assets /\ Exists(a) /\ Protected(a)
      BY <1>0, <2>1 DEF MediaOf, Protected
    <3>. QED
      BY <1>2, <2>1, <3>1, DeletionsSpare DEF Spared, DeleteRow, Removing
  <2>2. UNCHANGED <<postState, planned, raced, outcome>> /\ uses' = {u \in uses : u[2] # hand[h].asset}
    BY <1>2 DEF DeleteRow
  <2>3. MediaOf(p)' = MediaOf(p) \ {hand[h].asset}
    BY <2>2 DEF MediaOf
  <2>. QED
    BY <2>1, <2>2, <2>3 DEF PostFits
<1>3. CASE Attach
  <2>1. PICK q \in MediaPosts, a \in Assets :
         /\ Exists(a) /\ <<q, a>> \notin uses /\ postState[q] \notin {"sent", "failed"}
         /\ uses' = uses \cup {<<q, a>>}
         /\ planned' = IF postState[q] = "draft" THEN planned ELSE [planned EXCEPT ![q] = @ \cup {a}]
         /\ raced' = [raced EXCEPT ![q] = @ \/ (postState[q] # "draft" /\ Deleting(a))]
    BY <1>3 DEF Attach
  <2>2. UNCHANGED <<asset, versions, stored, postState, hand, outcome>>
    BY <1>3 DEF Attach
  <2>3. \A b \in Assets : Whole(b)' = Whole(b) /\ Spared(b)' = Spared(b)
    BY <2>2 DEF Whole, Spared, Exists, FilesOf
  <2>4. CASE q # p
    <3>1. MediaOf(p)' = MediaOf(p)
      BY <2>1, <2>4 DEF MediaOf
    <3>2. planned'[p] = planned[p] /\ raced'[p] = raced[p]
      BY <2>1, <2>4 DEF MediaTyped
    <3>. QED
      BY <1>0, <2>2, <2>3, <3>1, <3>2 DEF PostFits
  <2>5. CASE q = p
    <3>1. MediaOf(p)' = MediaOf(p) \cup {a}
      BY <2>1, <2>5 DEF MediaOf
    <3>2. CASE postState[p] = "draft"
      BY <2>2, <3>2 DEF PostFits
    <3>3. CASE postState[p] # "draft" /\ ~raced'[p]
      <4>1. planned'[p] = planned[p] \cup {a} /\ ~raced[p] /\ ~Deleting(a)
        BY <2>1, <2>5, <3>3 DEF MediaTyped
      <4>2. Whole(a) /\ Spared(a)
        BY <2>1, <4>1 DEF Deleting, Whole, Spared, Removing
      <4>3. Due
        BY <2>1, <2>5, <3>3 DEF MediaTyped
      <4>. QED
        BY <1>0, <2>1, <2>2, <2>3, <2>5, <3>1, <4>1, <4>2, <4>3 DEF PostFits
    <3>. QED
      BY <3>2, <3>3 DEF PostFits
  <2>. QED
    BY <2>4, <2>5
<1>4. CASE SchedulePost
  <2>1. PICK q \in MediaPosts :
         /\ postState[q] = "draft"
         /\ postState' = [postState EXCEPT ![q] = "scheduled"]
         /\ planned' = [planned EXCEPT ![q] = MediaOf(q)]
         /\ raced' = [raced EXCEPT ![q] = \E a \in MediaOf(q) : Deleting(a)]
    BY <1>4 DEF SchedulePost
  <2>2. UNCHANGED <<asset, versions, stored, uses, hand, outcome>>
    BY <1>4 DEF SchedulePost
  <2>3. /\ MediaOf(p)' = MediaOf(p)
        /\ \A b \in Assets : Whole(b)' = Whole(b) /\ Spared(b)' = Spared(b)
    BY <2>2 DEF Whole, Spared, Exists, FilesOf, MediaOf
  <2>4. CASE q # p
    <3>1. planned'[p] = planned[p] /\ raced'[p] = raced[p] /\ postState'[p] = postState[p]
      BY <2>1, <2>4 DEF MediaTyped
    <3>. QED
      BY <1>0, <2>2, <2>3, <3>1 DEF PostFits
  <2>5. CASE q = p
    <3>1. /\ postState'[p] = "scheduled" /\ planned'[p] = MediaOf(p)
          /\ raced'[p] = (\E a \in MediaOf(p) : Deleting(a))
      BY <2>1, <2>5 DEF MediaTyped
    <3>2. \A a \in MediaOf(p) : ~Deleting(a) => Whole(a) /\ Spared(a)
      BY <1>0 DEF Deleting, Whole, Spared, Removing
    <3>. QED
      BY <1>0, <2>3, <3>1, <3>2 DEF PostFits
  <2>. QED
    BY <2>4, <2>5
<1>5. ASSUME NEW q \in MediaPosts, ClaimPost(q) PROVE PostFits(p)'
  <2>1. /\ MediaOf(p)' = MediaOf(p)
        /\ \A b \in Assets : Whole(b)' = Whole(b) /\ Spared(b)' = Spared(b)
    BY <1>5 DEF ClaimPost, Whole, Spared, Exists, FilesOf, MediaOf
  <2>2. /\ UNCHANGED <<planned, raced, outcome>>
        /\ postState'[p] = postState[p] \/ (postState[p] = "scheduled" /\ postState'[p] = "publishing")
    BY <1>5 DEF ClaimPost, MediaTyped
  <2>. QED
    BY <1>0, <2>1, <2>2 DEF PostFits
<1>6. ASSUME NEW q \in MediaPosts, SendPost(q) PROVE PostFits(p)'
  <2>1. /\ MediaOf(p)' = MediaOf(p)
        /\ \A b \in Assets : Whole(b)' = Whole(b) /\ Spared(b)' = Spared(b)
        /\ UNCHANGED <<planned, raced>>
    BY <1>6 DEF SendPost, Whole, Spared, Exists, FilesOf, MediaOf
  <2>2. CASE q # p
    <3>1. postState'[p] = postState[p] /\ outcome'[p] = outcome[p]
      BY <1>6, <2>2 DEF SendPost, MediaTyped
    <3>. QED
      BY <1>0, <2>1, <3>1 DEF PostFits
  <2>3. CASE q = p
    <3>1. CASE raced[p]
      BY <2>1, <3>1 DEF PostFits
    <3>2. CASE ~raced[p]
      <4>1. postState[p] = "publishing"
        BY <1>6, <2>3 DEF SendPost
      <4>2. planned[p] = MediaOf(p) /\ \A a \in MediaOf(p) : asset[a].file \in stored[a]
        BY <3>2, <4>1 DEF PostFits, Whole, FilesOf
      <4>3. postState'[p] = "sent" /\ outcome'[p] = MediaOf(p)
        BY <1>6, <2>3, <4>2 DEF SendPost, MediaTyped
      <4>. QED
        BY <2>1, <4>2, <4>3 DEF PostFits
    <3>. QED
      BY <3>1, <3>2
  <2>. QED
    BY <2>2, <2>3
<1>. QED
  <2>1. PICK h : h \in Hands
    BY MediaAssumption
  <2>. QED
    BY <1>1, <1>2, <1>3, <1>4, <1>5, <1>6, <2>1 DEF MediaNext, Handles

\* A hand that is free or cleans up takes nothing from an asset.
LEMMA HandsStay ==
  ASSUME MediaTyped, HandsFit, MediaNext
  PROVE  HandsFit'
<1>. DEFINE KeepFits(o) ==
              /\ hand[o].asset \in Assets \ Composed
              /\ asset[hand[o].asset] = Fresh
              /\ \A q \in Hands \ {o} : hand[q].pc = "keep" => hand[q].asset # hand[o].asset
            Turns(h, r) == r \in Work /\ hand' = [hand EXCEPT ![h] = r]
<1>a. \A o \in Hands :
        /\ hand[o] \in Work
        /\ hand[o].pc \in Removing \cup {"keep"} => hand[o].asset \in Assets
  BY DEF MediaTyped, Work, Idle, Removing
<1>b. Idle.pc \notin Removing \cup {"keep"} /\ "keep" \notin Removing
  BY DEF Idle, Removing
<1>1. ASSUME NEW h \in Hands, NEW r, Turns(h, r), r.pc # "keep",
             \A a \in Assets : asset[a] # Fresh => asset'[a] # Fresh,
             \A a \in Assets : asset[a] = Fresh /\ asset'[a] # Fresh => a \in Composed \/ (hand[h].pc = "keep" /\ hand[h].asset = a),
             r.pc \in Removing => r.asset \in Assets /\ asset[r.asset] # Fresh
      PROVE  HandsFit'
  <2>1. \A o \in Hands : hand'[o] = IF o = h THEN r ELSE hand[o]
    BY <1>1 DEF MediaTyped
  <2>2. ASSUME NEW o \in Hands, hand'[o].pc = "keep" PROVE KeepFits(o)'
    <3>1. o # h /\ hand'[o] = hand[o]
      BY <1>1, <2>1, <2>2
    <3>2. KeepFits(o)
      BY <2>2, <3>1 DEF HandsFit
    <3>3. \A q \in Hands \ {o} : hand'[q].pc = "keep" => hand'[q].asset # hand'[o].asset
      BY <1>1, <2>1, <3>1, <3>2
    <3>4. asset'[hand'[o].asset] = Fresh
      BY <1>1, <2>2, <3>1, <3>2
    <3>. QED
      BY <3>1, <3>2, <3>3, <3>4
  <2>3. ASSUME NEW o \in Hands, hand'[o].pc \in Removing PROVE asset'[hand'[o].asset] # Fresh
    BY <1>1, <1>a, <2>1, <2>3 DEF HandsFit
  <2>. QED
    BY <2>2, <2>3 DEF HandsFit
<1>2. ASSUME hand' = hand,
             \A a \in Assets : asset[a] # Fresh => asset'[a] # Fresh,
             \A a \in Assets : asset[a] = Fresh /\ asset'[a] # Fresh => a \in Composed
      PROVE  HandsFit'
  BY <1>2, <1>a DEF HandsFit
<1>. HIDE DEF Turns, KeepFits
<1>3. ASSUME NEW h \in Hands, BeginUpload(h) PROVE HandsFit'
  <2>1. PICK a \in Assets \ Composed :
         /\ asset[a] = Fresh
         /\ \A o \in Hands : ~AtRest(o) => hand[o].asset # a
         /\ hand' = [hand EXCEPT ![h] = IF WithinQuota THEN [pc |-> "keep", asset |-> a, todo |-> {}] ELSE Idle]
    BY <1>3 DEF BeginUpload
  <2>2. asset' = asset
    BY <1>3 DEF BeginUpload
  <2>3. \A o \in Hands :
           hand'[o] = IF o = h THEN IF WithinQuota THEN [pc |-> "keep", asset |-> a, todo |-> {}] ELSE Idle
                      ELSE hand[o]
    BY <2>1 DEF MediaTyped
  <2>4. \A o \in Hands : hand[o].pc = "keep" => hand[o].asset # a
    BY <2>1, <1>b DEF AtRest
  <2>. QED
    BY <1>b, <2>1, <2>2, <2>3, <2>4 DEF HandsFit
<1>4. ASSUME NEW h \in Hands, KeepUpload(h) PROVE HandsFit'
  <2>1. Turns(h, Idle) /\ hand[h].pc = "keep"
    BY <1>4 DEF Turns, KeepUpload, Work
  <2>2. asset' = [asset EXCEPT ![hand[h].asset] = [file |-> 0, thumb |-> NoFile]]
    BY <1>4 DEF KeepUpload, Keeps
  <2>3. [file |-> 0, thumb |-> NoFile] # Fresh
    BY DEF Fresh
  <2>. QED
    BY <1>1, <1>a, <1>b, <2>1, <2>2, <2>3 DEF MediaTyped
<1>5. CASE ComposerUpload
  <2>1. PICK a \in Composed : asset' = [asset EXCEPT ![a] = [file |-> 0, thumb |-> NoFile]]
    BY <1>5 DEF ComposerUpload, Keeps
  <2>2. [file |-> 0, thumb |-> NoFile] # Fresh /\ hand' = hand
    BY <1>5 DEF Fresh, ComposerUpload
  <2>. QED
    BY <1>2, <2>1, <2>2 DEF MediaTyped
<1>6. CASE AssetEdit \/ VersionRestore \/ RunProcess \/ RunEdit
  <2>1. hand' = hand
    BY <1>6 DEF AssetEdit, VersionRestore, RunProcess, RunEdit
  <2>2. ASSUME NEW a \in Assets, asset'[a] # asset[a] PROVE Exists(a)
    <3>1. CASE AssetEdit
      BY <2>2, <3>1 DEF AssetEdit
    <3>2. CASE VersionRestore
      BY <2>2, <3>2 DEF VersionRestore, MediaTyped
    <3>3. CASE RunProcess
      BY <2>2, <3>3 DEF RunProcess, MediaTyped
    <3>4. CASE RunEdit
      <4>1. PICK t \in tasks :
              IF Exists(t.asset) /\ asset[t.asset].file \in stored[t.asset]
                THEN asset' = [asset EXCEPT ![t.asset].thumb = t.version]
                ELSE asset' = asset
        BY <3>4 DEF RunEdit
      <4>. QED
        BY <2>2, <4>1 DEF MediaTyped
    <3>. QED
      BY <1>6, <3>1, <3>2, <3>3, <3>4
  <2>3. \A a \in Assets : Exists(a) => Exists(a)'
    BY <1>6, VersionsSpare
  <2>4. \A a \in Assets : Exists(a) => asset[a] # Fresh
    BY DEF Exists
  <2>5. \A a \in Assets : Exists(a)' => asset'[a] # Fresh
    BY DEF Exists
  <2>. QED
    BY <1>2, <2>1, <2>2, <2>3, <2>4, <2>5
<1>7. CASE Attach \/ SchedulePost \/ \E p \in MediaPosts : ClaimPost(p) \/ SendPost(p)
  BY <1>2, <1>7 DEF Attach, SchedulePost, ClaimPost, SendPost
<1>8. ASSUME NEW h \in Hands, DeleteLooks(h) \/ CleanupScans(h) \/ CleanupLooks(h) \/ Stops(h)
      PROVE  HandsFit'
  <2>1. asset' = asset
    BY <1>8 DEF DeleteLooks, CleanupScans, CleanupLooks, Stops
  <2>2. hand' \in [Hands -> Work]
    BY <1>8, DeletionsTyped DEF MediaTyped
  <2>3. \E r : hand' = [hand EXCEPT ![h] = r] /\ r.pc # "keep"
               /\ (r.pc \in Removing => r.asset \in Assets /\ asset[r.asset] # Fresh)
    <3>1. ASSUME NEW a \in Assets, NEW todo, Exists(a)
          PROVE  Deletes(a, todo).pc # "keep" /\ Deletes(a, todo).asset \in Assets /\ asset[Deletes(a, todo).asset] # Fresh
      BY <3>1 DEF Deletes, Exists
    <3>2. ASSUME NEW todo
          PROVE  [pc |-> "cleanup", asset |-> "none", todo |-> todo].pc \notin Removing \cup {"keep"}
      BY DEF Removing
    <3>3. CASE DeleteLooks(h)
      BY <3>1, <3>3 DEF DeleteLooks
    <3>4. CASE CleanupScans(h)
      BY <3>2, <3>4 DEF CleanupScans
    <3>5. CASE CleanupLooks(h)
      <4>1. hand[h].pc = "cleanup"
        BY <3>5 DEF CleanupLooks
      <4>2. hand[h].todo \in SUBSET Assets
        BY <1>a, <4>1 DEF Work, Idle, Removing
      <4>3. CASE hand[h].todo = {}
        BY <1>b, <3>5, <4>3 DEF CleanupLooks
      <4>4. CASE hand[h].todo # {}
        <5>1. PICK b \in hand[h].todo :
            hand' = [hand EXCEPT ![h] =
                 IF Exists(b) /\ ~Protected(b) THEN Deletes(b, hand[h].todo \ {b})
                 ELSE [pc |-> "cleanup", asset |-> "none", todo |-> hand[h].todo \ {b}]]
          BY <3>5, <4>4 DEF CleanupLooks
        <5>. QED
          BY <3>1, <3>2, <4>2, <5>1
      <4>. QED
        BY <4>3, <4>4
    <3>6. CASE Stops(h)
      BY <1>b, <3>2, <3>6 DEF Stops, AfterDelete
    <3>. QED
      BY <1>8, <3>3, <3>4, <3>5, <3>6
  <2>4. PICK r : /\ hand' = [hand EXCEPT ![h] = r] /\ r.pc # "keep"
                 /\ (r.pc \in Removing => r.asset \in Assets /\ asset[r.asset] # Fresh)
    BY <2>3
  <2>5. Turns(h, r)
    BY <2>2, <2>4 DEF Turns, MediaTyped
  <2>. QED
    BY <1>1, <2>1, <2>4, <2>5
<1>9. ASSUME NEW h \in Hands, DeleteFile(h) \/ DeleteVersions(h) PROVE HandsFit'
  <2>1. PICK to \in Removing : hand' = [hand EXCEPT ![h].pc = to]
    BY <1>9 DEF DeleteFile, DeleteVersions, Removing
  <2>2. hand[h].pc \in Removing /\ asset' = asset
    BY <1>9 DEF DeleteFile, DeleteVersions, Removing
  <2>3. PICK r : r = [hand[h] EXCEPT !.pc = to]
    OBVIOUS
  <2>4. r \in Work /\ r.pc = to /\ r.asset = hand[h].asset
    BY <1>a, <2>2, <2>3 DEF Work, Idle, Removing
  <2>5. Turns(h, r)
    BY <2>1, <2>3, <2>4 DEF Turns
  <2>. QED
    BY <1>1, <1>a, <1>b, <2>2, <2>4, <2>5 DEF HandsFit
<1>10. ASSUME NEW h \in Hands, DeleteRow(h) PROVE HandsFit'
  <2>1. hand[h].pc \in Removing /\ asset' = [asset EXCEPT ![hand[h].asset] = Gone] /\ hand' = [hand EXCEPT ![h] = AfterDelete(h)]
    BY <1>10 DEF DeleteRow, Removing
  <2>2. hand' \in [Hands -> Work]
    BY <1>10, DeletionsTyped DEF MediaTyped
  <2>3. AfterDelete(h).pc \notin Removing \cup {"keep"}
    BY <1>b DEF AfterDelete, Removing
  <2>4. Turns(h, AfterDelete(h))
    BY <2>1, <2>2 DEF Turns, MediaTyped
  <2>5. asset[hand[h].asset] # Fresh /\ Gone # Fresh
    BY <2>1 DEF HandsFit, Gone, Fresh
  <2>. QED
    BY <1>1, <2>1, <2>3, <2>4, <2>5 DEF MediaTyped
<1>. QED
  BY <1>3, <1>4, <1>5, <1>6, <1>7, <1>8, <1>9, <1>10 DEF MediaNext

\* The quota is safe from a step that adds neither a file that counts nor an upload ...
LEMMA FewerFit ==
  ASSUME QuotaFits, Stock' \subseteq Stock, Coming' \subseteq Coming
  PROVE  QuotaFits'
<1>1. IsFiniteSet(Coming)
  BY FS_Subset, MediaAssumption DEF Coming
<1>2. IsFiniteSet(Stock') /\ IsFiniteSet(Coming') /\ Cardinality(Stock') <= Cardinality(Stock)
        /\ Cardinality(Coming') <= Cardinality(Coming)
  BY <1>1, FS_Subset DEF QuotaFits
<1>3. /\ Cardinality(Stock) \in Nat /\ Cardinality(Stock') \in Nat /\ Cardinality(Coming) \in Nat
      /\ Cardinality(Coming') \in Nat /\ Cardinality(Hands) \in Nat /\ StorageLimit \in Nat
  BY <1>1, <1>2, FS_CardinalityType, MediaAssumption DEF QuotaFits
<1>. QED
  BY <1>2, <1>3 DEF QuotaFits

\* ... and a step that touches an asset that is there, or one that is composed, adds no
\* file that counts.
LEMMA StockStays ==
  ASSUME MediaTyped, NEW h \in Hands, Handles(h) \/ DeleteRow(h), ~KeepUpload(h)
  PROVE  Stock' \subseteq Stock
<1>1. SUFFICES ASSUME NEW a \in Assets \ Composed, asset'[a] # asset[a] PROVE Exists(a) \/ ~Exists(a)'
  BY DEF Stock, Exists
<1>2. CASE ComposerUpload
  BY <1>1, <1>2 DEF ComposerUpload, Keeps, MediaTyped
<1>3. CASE VersionRestore
  BY <1>1, <1>3 DEF VersionRestore, MediaTyped
<1>4. CASE RunProcess
  BY <1>1, <1>4 DEF RunProcess, MediaTyped
<1>5. CASE RunEdit
  <2>1. PICK t \in tasks :
              IF Exists(t.asset) /\ asset[t.asset].file \in stored[t.asset]
                THEN asset' = [asset EXCEPT ![t.asset].thumb = t.version]
                ELSE asset' = asset
    BY <1>5 DEF RunEdit
  <2>. QED
    BY <1>1, <2>1 DEF MediaTyped
<1>6. CASE DeleteRow(h)
  BY <1>1, <1>6 DEF DeleteRow, MediaTyped, Exists
<1>7. CASE BeginUpload(h) \/ AssetEdit \/ DeleteLooks(h) \/ CleanupScans(h) \/ CleanupLooks(h)
             \/ DeleteFile(h) \/ DeleteVersions(h) \/ Stops(h)
  BY <1>1, <1>7 DEF BeginUpload, AssetEdit, DeleteLooks, CleanupScans, CleanupLooks,
     DeleteFile, DeleteVersions, Stops
<1>. QED
  BY <1>2, <1>3, <1>4, <1>5, <1>6, <1>7 DEF Handles

\* The quota holds but for what all requests but one upload: each looks at the quota when
\* it begins, and one that begins within it leaves room for itself.
LEMMA QuotaStays ==
  ASSUME MediaTyped, HandsFit, QuotaFits, MediaNext
  PROVE  QuotaFits'
<1>1. /\ IsFiniteSet(Coming) /\ IsFiniteSet(Stock)
      /\ Cardinality(Stock) \in Nat /\ Cardinality(Coming) \in Nat
      /\ Cardinality(Hands) \in Nat /\ StorageLimit \in Nat
  BY FS_Subset, FS_CardinalityType, MediaAssumption DEF Coming, QuotaFits
<1>2. ASSUME NEW h \in Hands, BeginUpload(h) PROVE QuotaFits'
  <2>1. Stock' \subseteq Stock
    BY <1>2 DEF BeginUpload, Stock, Exists
  <2>2. hand[h].pc # "keep"
    BY <1>2 DEF BeginUpload, AtRest, Idle
  <2>3. \A o \in Hands : o # h => hand'[o] = hand[o]
    BY <1>2 DEF BeginUpload, MediaTyped
  <2>4. CASE WithinQuota
    <3>1. Cardinality(Stock) + 1 <= StorageLimit
      BY <2>4 DEF WithinQuota, Used, Stock
    <3>2. Coming \subseteq Hands \ {h}
      BY <2>2 DEF Coming
    <3>3. IsFiniteSet(Hands \ {h}) /\ Cardinality(Hands \ {h}) = Cardinality(Hands) - 1
      BY FS_RemoveElement, MediaAssumption
    <3>4. Cardinality(Coming') <= Cardinality(Hands) /\ IsFiniteSet(Coming')
      BY FS_Subset, MediaAssumption DEF Coming
    <3>5. IsFiniteSet(Stock') /\ Cardinality(Stock') <= Cardinality(Stock)
      BY <1>1, <2>1, FS_Subset
    <3>6. Cardinality(Coming') \in Nat /\ Cardinality(Stock') \in Nat
      BY <3>4, <3>5, FS_CardinalityType
    <3>. QED
      BY <1>1, <3>1, <3>4, <3>5, <3>6 DEF QuotaFits
  <2>5. CASE ~WithinQuota
    <3>1. hand'[h] = Idle
      BY <1>2, <2>5 DEF BeginUpload, MediaTyped
    <3>2. Coming' \subseteq Coming
      BY <2>3, <3>1 DEF Coming, Idle
    <3>. QED
      BY <2>1, <3>2, FewerFit
  <2>. QED
    BY <2>4, <2>5
<1>3. ASSUME NEW h \in Hands, KeepUpload(h) PROVE QuotaFits'
  <2>1. PICK a \in Assets \ Composed : a = hand[h].asset /\ asset[a] = Fresh
    BY <1>3 DEF KeepUpload, HandsFit
  <2>2. a \notin Stock /\ h \in Coming
    BY <1>3, <2>1 DEF Stock, Exists, Coming, KeepUpload
  <2>3. \A b \in Assets : b # a => asset'[b] = asset[b]
    BY <1>3, <2>1 DEF KeepUpload, Keeps, MediaTyped
  <2>4. Stock' \subseteq Stock \cup {a}
    BY <2>3 DEF Stock, Exists
  <2>5. Coming' \subseteq Coming \ {h}
    BY <1>3 DEF KeepUpload, MediaTyped, Coming, Idle
  <2>6. /\ IsFiniteSet(Stock \cup {a}) /\ Cardinality(Stock \cup {a}) = Cardinality(Stock) + 1
        /\ IsFiniteSet(Coming \ {h}) /\ Cardinality(Coming \ {h}) = Cardinality(Coming) - 1
    BY <1>1, <2>2, FS_AddElement, FS_RemoveElement
  <2>7. /\ IsFiniteSet(Stock') /\ Cardinality(Stock') <= Cardinality(Stock) + 1
        /\ IsFiniteSet(Coming') /\ Cardinality(Coming') <= Cardinality(Coming) - 1
    BY <2>4, <2>5, <2>6, FS_Subset
  <2>8. Cardinality(Coming') \in Nat /\ Cardinality(Stock') \in Nat
    BY <2>7, FS_CardinalityType
  <2>. QED
    BY <1>1, <2>7, <2>8 DEF QuotaFits
<1>4. ASSUME NEW h \in Hands, Handles(h) \/ DeleteRow(h), ~BeginUpload(h), ~KeepUpload(h) PROVE QuotaFits'
  <2>1. Stock' \subseteq Stock
    BY <1>4, StockStays
  <2>2. \A o \in Hands : hand'[o].pc = "keep" => hand[o].pc = "keep"
    <3>1. Idle.pc # "keep"
      BY DEF Idle
    <3>2. ASSUME NEW r, r.pc # "keep", hand' = [hand EXCEPT ![h] = r]
          PROVE  \A o \in Hands : hand'[o].pc = "keep" => hand[o].pc = "keep"
      BY <3>2 DEF MediaTyped
    <3>3. CASE ComposerUpload \/ AssetEdit \/ VersionRestore \/ RunProcess \/ RunEdit
      BY <3>3 DEF ComposerUpload, AssetEdit, VersionRestore, RunProcess, RunEdit
    <3>4. CASE DeleteLooks(h)
      BY <3>2, <3>4 DEF DeleteLooks, Deletes
    <3>5. CASE CleanupScans(h)
      BY <3>2, <3>5 DEF CleanupScans
    <3>6. CASE CleanupLooks(h)
      BY <3>1, <3>2, <3>6 DEF CleanupLooks, Deletes
    <3>7. CASE DeleteFile(h) \/ DeleteVersions(h)
      <4>1. hand[h] \in Work
        BY DEF MediaTyped
      <4>2. /\ hand[h].pc \in Removing => [hand[h] EXCEPT !.pc = "versions"].pc = "versions"
            /\ hand[h].pc \in Removing => [hand[h] EXCEPT !.pc = "row"].pc = "row"
        BY <4>1 DEF Work, Removing, Idle
      <4>. QED
        BY <3>2, <3>7, <4>2 DEF DeleteFile, DeleteVersions, Removing
    <3>8. CASE DeleteRow(h) \/ Stops(h)
      BY <3>1, <3>2, <3>8 DEF DeleteRow, Stops, AfterDelete
    <3>. QED
      BY <1>4, <3>3, <3>4, <3>5, <3>6, <3>7, <3>8 DEF Handles
  <2>3. Coming' \subseteq Coming
    BY <2>2 DEF Coming
  <2>. QED
    BY <2>1, <2>3, FewerFit
<1>5. ASSUME Attach \/ SchedulePost \/ \E p \in MediaPosts : ClaimPost(p) \/ SendPost(p)
      PROVE  QuotaFits'
  <2>1. asset' = asset /\ hand' = hand
    BY <1>5 DEF Attach, SchedulePost, ClaimPost, SendPost
  <2>. QED
    BY <2>1, FewerFit DEF Stock, Coming, Exists
<1>. QED
  <2>1. PICK h : h \in Hands
    BY MediaAssumption
  <2>2. \A o \in Hands : Handles(o) \/ DeleteRow(o) => QuotaFits'
    BY <1>2, <1>3, <1>4
  <2>. QED
    BY <1>5, <2>1, <2>2 DEF MediaNext, Handles

\* The media library keeps its rules.
LEMMA MediaStays ==
  ASSUME MediaTyped, MediaInv, MediaNext
  PROVE  MediaTyped' /\ MediaInv'
<1>1. MediaTyped'
  <2>1. PICK h : h \in Hands
    BY MediaAssumption
  <2>. QED
    BY <2>1, UploadsTyped, VersionsTyped, PostsTyped, DeletionsTyped DEF MediaNext
<1>2. UsesExist' /\ HandsFit' /\ QuotaFits'
  BY UsesStay, HandsStay, QuotaStays DEF MediaInv
<1>3. \A p \in MediaPosts : PostFits(p)'
  BY PostStaysFit DEF MediaInv
<1>. QED
  BY <1>1, <1>2, <1>3 DEF MediaInv

\* Media that a post was scheduled with are what it is sent with, and the quota is
\* exceeded by what all requests but one upload at most: MediaIsKept.
THEOREM MediaAlwaysKept == MediaSpec => []MediaIsKept
<1>1. MediaTyped /\ MediaInv /\ UNCHANGED MediaVars => (MediaTyped /\ MediaInv)'
  BY DEF MediaVars, MediaTyped, MediaInv, UsesExist, HandsFit, QuotaFits, PostFits, Whole, Spared,
     Exists, FilesOf, MediaOf, Stock, Coming
<1>2. MediaTyped /\ MediaInv => MediaIsKept
  <2>1. MediaTyped /\ MediaInv => SentWithItsMedia
    BY DEF MediaInv, PostFits, SentWithItsMedia
  <2>2. MediaInv => UploadsWithinQuota
    <3>1. SUFFICES ASSUME QuotaFits PROVE UploadsWithinQuota
      BY DEF MediaInv
    <3>2. IsFiniteSet(Coming)
      BY FS_Subset, MediaAssumption DEF Coming
    <3>3. /\ Cardinality(Stock) \in Nat /\ Cardinality(Coming) \in Nat
          /\ Cardinality(Hands) \in Nat /\ StorageLimit \in Nat
      BY <3>1, <3>2, FS_CardinalityType, MediaAssumption DEF QuotaFits
    <3>4. Used = Cardinality(Stock)
      BY DEF Used, Stock
    <3>. QED
      BY <3>1, <3>3, <3>4 DEF QuotaFits, UploadsWithinQuota
  <2>. QED
    BY <2>1, <2>2 DEF MediaIsKept
<1>. QED
  BY <1>1, <1>2, MediaStarts, MediaStays, PTL DEF MediaSpec

-----------------------------------------------------------------------------
(* The figures of an account                                               *)

\* What a job is at.
JobStates ==
  {Unscheduled, [pc |-> "begin"]}
    \cup [pc : {"list"}, missed : {{}}]
    \cup [pc : {"day", "videos", "list"}, back : Nat, missed : {{}}]
    \cup [pc : {"post"}, missed : SUBSET Articles, todo : SUBSET Articles]

AnalyticsTyped ==
  /\ hour \in Nat
  /\ out \in [Articles -> Int] /\ own \in [Articles -> Int]
  /\ \A p \in Articles : out[p] <= hour
  /\ job \in [sync : JobStates, backfill : JobStates]
  /\ ended \in {NotOver} \cup [over : {TRUE}, missed : SUBSET Articles]

\* Posts that the run of this hour is for, and what it promises of them.
Concerns(p) == IsOut(p) /\ out[p] < hour /\ Age(p) < Window
HasFresh(p) == own[p] # Never /\ hour - own[p] < Interval(Age(p))

AnalyticsInv ==
  /\ job.sync.pc = "post" =>
        \A p \in Articles : Concerns(p) => HasFresh(p) \/ p \in job.sync.todo \cup job.sync.missed
  /\ ended.over => \A p \in Articles \ ended.missed : Concerns(p) => HasFresh(p)

\* A set of numbers that is not empty has a smallest.
LEMMA Smallest ==
  ASSUME NEW S, S \subseteq Nat, S # {}
  PROVE  \E x \in S : \A y \in S : x <= y
<1>1. \E R : R = {ss \in Nat \X Nat : ss[1] < ss[2]} /\ IsWellFoundedOn(R, Nat)
  BY NatLessThanWellFounded DEF OpToRel
<1>2. PICK R : R = {ss \in Nat \X Nat : ss[1] < ss[2]} /\ IsWellFoundedOn(R, Nat)
  BY <1>1
<1>3. PICK x \in S : \A y \in S : ~(<<y, x>> \in R)
  BY <1>2, WFMin
<1>4. ASSUME NEW y \in S PROVE x <= y
  <2>1. x \in Nat /\ y \in Nat /\ <<y, x>> \notin R
    BY <1>3
  <2>2. <<y, x>> \in Nat \X Nat
    BY <2>1
  <2>3. y < x => <<y, x>> \in R
    BY <1>2, <2>2
  <2>. QED
    BY <2>1, <2>3
<1>. QED
  BY <1>4
\* The ladder is a list of rungs, and TikTok's window ends on it.
LEMMA LadderTypes ==
  /\ Len(Ladder) \in Nat \ {0} /\ DOMAIN Ladder = 1 .. Len(Ladder)
  /\ \A i \in DOMAIN Ladder : Ladder[i].below \in Nat /\ Ladder[i].every \in Nat \ {0}
  /\ Horizon \in Nat /\ ShortWindow \in Nat /\ ShortWindow <= Horizon
<1>. PICK list \in Seq([below : Nat, every : Nat \ {0}]) : list = Ladder /\ list # <<>>
  BY AnalyticsAssumption
<1>1. Len(list) \in Nat \ {0} /\ DOMAIN list = 1 .. Len(list)
  BY EmptySeq
<1>2. ASSUME NEW i \in DOMAIN list PROVE list[i].below \in Nat /\ list[i].every \in Nat \ {0}
  <2>1. list[i] \in [below : Nat, every : Nat \ {0}]
    BY ZenonT(60), <1>1, ElementOfSeq
  <2>. QED
    BY <2>1
<1>3. Horizon = list[Len(list)].below /\ ShortWindow <= list[Len(list)].below /\ ShortWindow \in Nat
  BY AnalyticsAssumption DEF Horizon
<1>4. Horizon \in Nat
  BY <1>1, <1>2, <1>3
<1>. QED
  BY <1>1, <1>2, <1>3, <1>4

\* A post that is not too old has an interval: the ladder has a first rung for it.
LEMMA LadderFits ==
  ASSUME NEW age \in Nat, age < Horizon
  PROVE  Interval(age) \in Nat \ {0}
<1>. DEFINE Rungs == {i \in DOMAIN Ladder : age < Ladder[i].below}
<1>1. /\ Len(Ladder) \in Nat \ {0} /\ DOMAIN Ladder = 1 .. Len(Ladder)
      /\ \A i \in DOMAIN Ladder : Ladder[i].below \in Nat /\ Ladder[i].every \in Nat \ {0}
  BY LadderTypes
<1>2. Len(Ladder) \in Rungs /\ Rungs \subseteq Nat
  BY <1>1 DEF Horizon
<1>3. PICK i \in Rungs : \A y \in Rungs : i <= y
  <2>. HIDE DEF Rungs
  <2>. QED
    BY <1>2, Smallest
<1>4. \A k \in 1 .. (i - 1) : age >= Ladder[k].below
  <2>. SUFFICES ASSUME NEW k \in 1 .. (i - 1) PROVE age >= Ladder[k].below
    OBVIOUS
  <2>1. k \in DOMAIN Ladder /\ k \notin Rungs
    BY <1>1, <1>2, <1>3
  <2>. QED
    BY <1>1, <2>1
<1>5. PICK rung \in DOMAIN Ladder :
        rung = CHOOSE n \in DOMAIN Ladder : age < Ladder[n].below /\ \A k \in 1 .. (n - 1) : age >= Ladder[k].below
  BY <1>3, <1>4
<1>. QED
  BY <1>1, <1>5 DEF Interval

\* A post that the run is for has been out for less time than the ladder is long.
LEMMA ConcernedIsYoung ==
  ASSUME AnalyticsTyped, NEW p \in Articles, Concerns(p)
  PROVE  Age(p) \in Nat /\ Age(p) < Horizon /\ Interval(Age(p)) \in Nat \ {0}
<1>1. Age(p) \in Nat
  BY DEF AnalyticsTyped, Age
<1>2. Horizon \in Nat /\ ShortWindow \in Nat /\ ShortWindow <= Horizon
  BY LadderTypes
<1>3. Age(p) < Horizon
  BY <1>1, <1>2 DEF Concerns, Window
<1>. QED
  BY <1>1, <1>3, LadderFits

\* A run that has not begun has promised nothing.
LEMMA AnalyticsStarts == AnalyticsInit => AnalyticsTyped /\ AnalyticsInv
BY DEF AnalyticsInit, AnalyticsTyped, AnalyticsInv, JobStates, Never, NotOver, Unscheduled

\* Every step keeps the state well formed.
LEMMA AnalyticsTypes ==
  ASSUME AnalyticsTyped, AnalyticsNext
  PROVE  AnalyticsTyped'
<1>. PICK r \in JobStates, b \in JobStates : job = [sync |-> r, backfill |-> b]
  BY DEF AnalyticsTyped
<1>0. Unscheduled \in JobStates /\ [pc |-> "begin"] \in JobStates
  BY DEF JobStates
<1>1. CASE HourPasses
  <2>1. job' = [sync |-> [pc |-> "begin"], backfill |-> b]
    BY <1>1 DEF HourPasses
  <2>2. hour' = hour + 1 /\ out' = out /\ own' = own /\ ended' = NotOver
    BY <1>1 DEF HourPasses
  <2>. QED
    BY <1>0, <2>1, <2>2 DEF AnalyticsTyped
<1>2. CASE Turn
  <2>1. job' = job \/ job' = [sync |-> r, backfill |-> [pc |-> "begin"]]
    BY <1>2 DEF Turn
  <2>2. hour' = hour /\ out' = out /\ own' = own /\ ended' = ended
    BY <1>2 DEF Turn
  <2>3. job' \in [sync : JobStates, backfill : JobStates]
    BY <1>0, <2>1
  <2>. QED
    BY <2>2, <2>3 DEF AnalyticsTyped
<1>3. ASSUME NEW p \in Articles, PostGoesOut(p) PROVE AnalyticsTyped'
  <2>1. out' = [out EXCEPT ![p] = hour] /\ UNCHANGED <<hour, own, job, ended>>
    BY <1>3 DEF PostGoesOut
  <2>2. out' \in [Articles -> Int] /\ \A q \in Articles : out'[q] <= hour
    BY <2>1 DEF AnalyticsTyped
  <2>. QED
    BY <2>1, <2>2 DEF AnalyticsTyped
<1>4. ASSUME NEW j \in DOMAIN job,
             \/ JobBegins(j) \/ AskDay(j) \/ AskVideos(j) \/ ListPosts(j) \/ SyncPost(j) \/ JobEnds(j)
      PROVE  AnalyticsTyped'
  <2>. PICK s \in JobStates : s = job[j]
    OBVIOUS
  <2>1. ASSUME NEW new \in JobStates, job' = [job EXCEPT ![j] = new]
        PROVE  job' \in [sync : JobStates, backfill : JobStates]
    BY <2>1
  <2>2. \E new \in JobStates : job' = [job EXCEPT ![j] = new]
    <3>1. CASE JobBegins(j)
      <4>1. [pc |-> "list", missed |-> {}] \in JobStates /\ [pc |-> "day", back |-> 0, missed |-> {}] \in JobStates
        BY DEF JobStates
      <4>. QED
        BY <1>0, <3>1, <4>1 DEF JobBegins
    <3>2. CASE AskDay(j)
      <4>1. s \in [pc : {"day", "videos", "list"}, back : Nat, missed : {{}}]
        BY <3>2 DEF AskDay, JobStates, Unscheduled
      <4>2. /\ [s EXCEPT !.pc = "videos"] \in JobStates /\ [s EXCEPT !.pc = "list"] \in JobStates
            /\ [s EXCEPT !.back = s.back + 1] \in JobStates
        BY <4>1 DEF JobStates
      <4>3. \/ job' = [job EXCEPT ![j] = [s EXCEPT !.pc = "videos"]]
            \/ job' = [job EXCEPT ![j] = [s EXCEPT !.pc = "list"]]
            \/ job' = [job EXCEPT ![j] = [s EXCEPT !.back = s.back + 1]]
        BY <3>2 DEF AskDay
      <4>. QED
        BY <4>2, <4>3
    <3>3. CASE AskVideos(j)
      <4>1. s \in [pc : {"day", "videos", "list"}, back : Nat, missed : {{}}]
        BY <3>3 DEF AskVideos, JobStates, Unscheduled
      <4>2. [s EXCEPT !.pc = "list"] \in JobStates
        BY <4>1 DEF JobStates
      <4>3. job' = [job EXCEPT ![j] = [s EXCEPT !.pc = "list"]]
        BY <3>3 DEF AskVideos
      <4>. QED
        BY <4>2, <4>3
    <3>4. CASE ListPosts(j)
      <4>1. [pc |-> "post", missed |-> {}, todo |-> {p \in Articles : IsOut(p) /\ Age(p) <= Window}] \in JobStates
        BY DEF JobStates
      <4>. QED
        BY <3>4, <4>1 DEF ListPosts
    <3>5. CASE SyncPost(j)
      <4>1. s \in [pc : {"post"}, missed : SUBSET Articles, todo : SUBSET Articles]
        BY <3>5 DEF SyncPost, JobStates, Unscheduled
      <4>2. PICK p \in s.todo :
              \/ job' = [job EXCEPT ![j].todo = @ \ {p}]
              \/ job' = [job EXCEPT ![j].todo = @ \ {p}, ![j].missed = @ \cup {p}]
        BY <3>5 DEF SyncPost
      <4>3. \/ job' = [job EXCEPT ![j] = [s EXCEPT !.todo = s.todo \ {p}]]
            \/ job' = [job EXCEPT ![j] = [s EXCEPT !.todo = s.todo \ {p}, !.missed = s.missed \cup {p}]]
        BY <4>2
      <4>4. /\ [s EXCEPT !.todo = s.todo \ {p}] \in JobStates
            /\ [s EXCEPT !.todo = s.todo \ {p}, !.missed = s.missed \cup {p}] \in JobStates
        <5>1. PICK todo \in SUBSET Articles, missed \in SUBSET Articles :
                s = [pc |-> "post", missed |-> missed, todo |-> todo]
          BY <4>1
        <5>2. todo \ {p} \in SUBSET Articles /\ missed \cup {p} \in SUBSET Articles
          BY <4>2, <5>1
        <5>. PICK rest, few : rest = todo \ {p} /\ few = missed \cup {p}
          OBVIOUS
        <5>3. /\ [s EXCEPT !.todo = s.todo \ {p}] = [pc |-> "post", missed |-> missed, todo |-> rest]
              /\ [s EXCEPT !.todo = s.todo \ {p}, !.missed = s.missed \cup {p}]
                    = [pc |-> "post", missed |-> few, todo |-> rest]
          <6>1. s.todo = todo /\ s.missed = missed
            BY <5>1
          <6>2. [s EXCEPT !.todo = rest] = [pc |-> "post", missed |-> missed, todo |-> rest]
            BY <5>1
          <6>3. [s EXCEPT !.todo = rest, !.missed = few] = [pc |-> "post", missed |-> few, todo |-> rest]
            <7>1. PICK q : q = [pc |-> "post", missed |-> missed, todo |-> rest]
              OBVIOUS
            <7>2. [q EXCEPT !.missed = few] = [pc |-> "post", missed |-> few, todo |-> rest]
              BY <7>1
            <7>. QED
              BY <6>2, <7>1, <7>2
          <6>. QED
            BY <6>1, <6>2, <6>3
        <5>4. \A m \in SUBSET Articles, t \in SUBSET Articles :
                [pc |-> "post", missed |-> m, todo |-> t] \in JobStates
          BY DEF JobStates
        <5>. QED
          BY <5>2, <5>3, <5>4
      <4>. QED
        BY <4>3, <4>4
    <3>6. CASE JobEnds(j)
      BY <1>0, <3>6 DEF JobEnds
    <3>. QED
      BY <1>4, <3>1, <3>2, <3>3, <3>4, <3>5, <3>6
  <2>3. hour' = hour /\ out' = out
    BY <1>4 DEF JobBegins, AskDay, AskVideos, ListPosts, SyncPost, JobEnds, Outside
  <2>4. own' = own \/ \E p \in Articles : own' = [own EXCEPT ![p] = hour]
    <3>1. SyncPost(j) => job[j].todo \in SUBSET Articles
      BY DEF SyncPost, JobStates, Unscheduled
    <3>. QED
      BY <1>4, <3>1 DEF JobBegins, AskDay, AskVideos, ListPosts, SyncPost, JobEnds
  <2>5. ended' = ended \/ \E left \in SUBSET Articles : ended' = [over |-> TRUE, missed |-> left]
    <3>1. JobEnds(j) => job[j].missed \in SUBSET Articles
      BY DEF JobEnds, JobStates, Unscheduled
    <3>. QED
      BY <1>4, <3>1 DEF JobBegins, AskDay, AskVideos, ListPosts, SyncPost, JobEnds
  <2>6. job' \in [sync : JobStates, backfill : JobStates]
    BY <2>1, <2>2
  <2>7. own' \in [Articles -> Int]
    BY <2>4 DEF AnalyticsTyped
  <2>8. ended' \in {NotOver} \cup [over : {TRUE}, missed : SUBSET Articles]
    <3>1. \A left \in SUBSET Articles : [over |-> TRUE, missed |-> left] \in [over : {TRUE}, missed : SUBSET Articles]
      OBVIOUS
    <3>2. ended \in {NotOver} \cup [over : {TRUE}, missed : SUBSET Articles]
      BY DEF AnalyticsTyped
    <3>. QED
      BY <2>5, <3>1, <3>2
  <2>. QED
    BY <2>3, <2>6, <2>7, <2>8 DEF AnalyticsTyped
<1>. QED
  BY <1>1, <1>2, <1>3, <1>4 DEF AnalyticsNext

\* Within the hour, a post the run is for remains one, or was, and figures stay fresh.
LEMMA FreshnessStays ==
  ASSUME AnalyticsTyped, NEW p \in Articles,
         hour' = hour, platform' = platform, out'[p] = out[p] \/ out'[p] = hour,
         own'[p] = own[p] \/ own'[p] = hour, Concerns(p)'
  PROVE  Concerns(p) /\ (HasFresh(p) => HasFresh(p)') /\ (own'[p] = hour => HasFresh(p)')
<1>1. out'[p] = out[p] /\ Concerns(p)
  BY DEF Concerns, AnalyticsTyped, IsOut, Age, Window
<1>2. Age(p)' = Age(p) /\ Interval(Age(p))' = Interval(Age(p))
  BY <1>1 DEF Age, Interval
<1>3. Interval(Age(p)) \in Nat \ {0}
  BY <1>1, ConcernedIsYoung
<1>4. own'[p] = hour => HasFresh(p)'
  BY <1>2, <1>3 DEF HasFresh, AnalyticsTyped, Never
<1>5. own'[p] = own[p] => (HasFresh(p) => HasFresh(p)')
  BY <1>2 DEF HasFresh
<1>. QED
  BY <1>1, <1>4, <1>5

\* Every step keeps what the run has promised.
LEMMA AnalyticsStays ==
  ASSUME AnalyticsTyped, AnalyticsInv, AnalyticsNext
  PROVE  AnalyticsInv'
<1>. DEFINE Promised(p) == HasFresh(p) \/ p \in job.sync.todo \cup job.sync.missed
<1>. PICK r \in JobStates, b \in JobStates : job = [sync |-> r, backfill |-> b]
  BY DEF AnalyticsTyped
<1>0. Unscheduled.pc # "post"
  BY DEF Unscheduled
<1>1. CASE HourPasses
  <2>1. job'.sync.pc = "begin" /\ ~ended'.over
    BY <1>1 DEF HourPasses, NotOver
  <2>. QED
    BY <2>1 DEF AnalyticsInv
<1>2. CASE Turn \/ \E p \in Articles : PostGoesOut(p)
  <2>1. job'.sync = job.sync /\ ended' = ended
    BY <1>2 DEF Turn, PostGoesOut
  <2>2. hour' = hour /\ platform' = platform /\ own' = own
    BY <1>2 DEF Turn, PostGoesOut
  <2>3. \A p \in Articles : out'[p] = out[p] \/ out'[p] = hour
    BY <1>2 DEF Turn, PostGoesOut, AnalyticsTyped
  <2>4. \A p \in Articles : Concerns(p)' => Concerns(p) /\ (HasFresh(p) => HasFresh(p)')
    BY <2>2, <2>3, FreshnessStays
  <2>. QED
    BY <2>1, <2>4 DEF AnalyticsInv
<1>3. ASSUME NEW j \in DOMAIN job,
             \/ JobBegins(j) \/ AskDay(j) \/ AskVideos(j) \/ ListPosts(j) \/ SyncPost(j) \/ JobEnds(j)
      PROVE  AnalyticsInv'
  <2>1. hour' = hour /\ platform' = platform /\ out' = out
    BY <1>3 DEF JobBegins, AskDay, AskVideos, ListPosts, SyncPost, JobEnds, Outside
  <2>2. \A p \in Articles : own'[p] = own[p] \/ own'[p] = hour
    BY <1>3 DEF JobBegins, AskDay, AskVideos, ListPosts, SyncPost, JobEnds, AnalyticsTyped
  <2>3. \A p \in Articles : Concerns(p)' =>
          Concerns(p) /\ (HasFresh(p) => HasFresh(p)') /\ (own'[p] = hour => HasFresh(p)')
    BY <2>1, <2>2, FreshnessStays
  <2>4. j \in {"sync", "backfill"}
    BY <1>3
  <2>5. ASSUME ended'.over, ~(JobEnds(j) /\ j = "sync")
        PROVE  \A p \in Articles \ ended'.missed : Concerns(p)' => HasFresh(p)'
    <3>1. ended' = ended
      BY <1>3, <2>5 DEF JobBegins, AskDay, AskVideos, ListPosts, SyncPost, JobEnds
    <3>. QED
      BY <2>3, <2>5, <3>1 DEF AnalyticsInv
  <2>6. ASSUME job'.sync = job.sync
        PROVE  job'.sync.pc = "post" => \A p \in Articles : Concerns(p)' => Promised(p)'
    BY <2>3, <2>6 DEF AnalyticsInv
  <2>. HIDE DEF Promised
  <2>7. CASE j = "backfill"
    <3>1. job'.sync = job.sync
      BY <1>3, <2>7 DEF JobBegins, AskDay, AskVideos, ListPosts, SyncPost, JobEnds
    <3>. QED
      BY <2>5, <2>6, <2>7, <3>1 DEF AnalyticsInv, Promised
  <2>8. CASE j = "sync"
    <3>1. CASE JobBegins(j)
      <4>1. job'.sync.pc # "post"
        BY <1>0, <2>8, <3>1 DEF JobBegins
      <4>. QED
        BY <1>3, <2>5, <3>1, <4>1 DEF AnalyticsInv, JobBegins, JobEnds
    <3>2. CASE AskDay(j) \/ AskVideos(j)
      <4>0. r.pc \in {"day", "videos"}
        BY <2>8, <3>2 DEF AskDay, AskVideos
      <4>1. r \in [pc : {"day", "videos", "list"}, back : Nat, missed : {{}}]
        BY <4>0 DEF JobStates, Unscheduled
      <4>2. \/ job' = [job EXCEPT !.sync = [r EXCEPT !.pc = "videos"]]
            \/ job' = [job EXCEPT !.sync = [r EXCEPT !.pc = "list"]]
            \/ job' = [job EXCEPT !.sync = [r EXCEPT !.back = r.back + 1]]
        BY <2>8, <3>2 DEF AskDay, AskVideos
      <4>3. job'.sync.pc # "post"
        BY <4>1, <4>2
      <4>4. ~JobEnds(j)
        BY <2>8, <4>0 DEF JobEnds
      <4>. QED
        BY <2>5, <4>3, <4>4 DEF AnalyticsInv
    <3>3. CASE ListPosts(j)
      <4>1. job'.sync.todo = {p \in Articles : IsOut(p) /\ Age(p) <= Window} /\ job'.sync.missed = {}
        BY <2>8, <3>3 DEF ListPosts
      <4>2. ASSUME NEW p \in Articles, Concerns(p)' PROVE Promised(p)'
        <5>1. Concerns(p) /\ Age(p) \in Nat /\ Window \in Nat
          BY <2>3, <4>2, ConcernedIsYoung, LadderTypes DEF Window
        <5>2. p \in job'.sync.todo
          BY <4>1, <5>1 DEF Concerns
        <5>. QED
          BY <5>2 DEF Promised
      <4>3. ~JobEnds(j)
        BY <3>3 DEF ListPosts, JobEnds
      <4>. QED
        BY <2>5, <4>2, <4>3 DEF AnalyticsInv, Promised
    <3>4. CASE SyncPost(j)
      <4>1. r.pc = "post"
        BY <2>8, <3>4 DEF SyncPost
      <4>2. r \in [pc : {"post"}, missed : SUBSET Articles, todo : SUBSET Articles]
        BY <4>1 DEF JobStates, Unscheduled
      <4>3. PICK p \in r.todo :
              \/ /\ ~IsPostDue(p)
                 /\ job' = [job EXCEPT !.sync.todo = @ \ {p}]
                 /\ own' = own
              \/ /\ own' = [own EXCEPT ![p] = hour]
                 /\ job' = [job EXCEPT !.sync.todo = @ \ {p}]
              \/ /\ job' = [job EXCEPT !.sync.todo = @ \ {p}, !.sync.missed = @ \cup {p}]
                 /\ own' = own
        BY <2>8, <3>4 DEF SyncPost
      <4>. PICK todo, missed : r = [pc |-> "post", missed |-> missed, todo |-> todo] /\ p \in Articles
        BY <4>2, <4>3
      <4>. PICK rest, more : rest = todo \ {p} /\ more = missed \cup {p}
        OBVIOUS
      <4>a. \/ job'.sync = [r EXCEPT !.todo = rest]
            \/ job'.sync = [r EXCEPT !.todo = rest, !.missed = more]
        BY <4>3
      <4>b. /\ [r EXCEPT !.todo = rest] = [pc |-> "post", missed |-> missed, todo |-> rest]
            /\ [r EXCEPT !.todo = rest, !.missed = more] = [pc |-> "post", missed |-> more, todo |-> rest]
        <5>1. PICK q : q = [pc |-> "post", missed |-> missed, todo |-> rest]
          OBVIOUS
        <5>2. [r EXCEPT !.todo = rest] = q
          BY <5>1
        <5>3. [q EXCEPT !.missed = more] = [pc |-> "post", missed |-> more, todo |-> rest]
          BY <5>1
        <5>. QED
          BY <5>1, <5>2, <5>3
      <4>4. p \in Articles /\ job'.sync.todo = r.todo \ {p}
        BY <4>a, <4>b
      <4>5. r.missed \subseteq job'.sync.missed
        BY <4>a, <4>b
      <4>6. ASSUME NEW q \in Articles, Concerns(q)' PROVE Promised(q)'
        <5>1. Concerns(q) /\ Promised(q)
          BY <2>3, <4>1, <4>6 DEF AnalyticsInv, Promised
        <5>2. CASE q # p
          <6>1. HasFresh(q) \/ q \in r.todo \cup r.missed
            BY <5>1 DEF Promised
          <6>. QED
            BY <2>3, <4>4, <4>5, <4>6, <5>2, <6>1 DEF Promised
        <5>3. CASE q = p
          <6>1. CASE ~IsPostDue(p)
            <7>1. Age(p) < Horizon /\ Interval(Age(p)) \in Nat \ {0}
              BY <5>1, <5>3, ConcernedIsYoung
            <7>2. HasFresh(p)
              BY <6>1, <7>1, <4>4 DEF IsPostDue, LastSync, HasFresh, AnalyticsTyped
            <7>. QED
              BY <2>3, <4>6, <5>3, <7>2 DEF Promised
          <6>2. CASE own' = [own EXCEPT ![p] = hour]
            BY <2>3, <4>4, <4>6, <5>3, <6>2 DEF Promised, AnalyticsTyped
          <6>3. CASE job' = [job EXCEPT !.sync.todo = @ \ {p}, !.sync.missed = @ \cup {p}]
            <7>1. p \in job'.sync.missed
              BY <4>2, <6>3
            <7>. QED
              BY <5>3, <7>1 DEF Promised
          <6>. QED
            BY <4>3, <6>1, <6>2, <6>3
        <5>. QED
          BY <5>2, <5>3
      <4>7. SyncPost(j) => r.todo # {}
        BY <4>3
      <4>8. ~(JobEnds(j) /\ j = "sync")
        BY <4>3, <2>8 DEF JobEnds
      <4>. QED
        BY <2>5, <4>6, <4>8 DEF AnalyticsInv, Promised
    <3>5. CASE JobEnds(j)
      <4>1. r.pc = "post" /\ r.todo = {} /\ job'.sync = Unscheduled /\ ended' = [over |-> TRUE, missed |-> r.missed]
        BY <2>8, <3>5 DEF JobEnds
      <4>2. ASSUME NEW p \in Articles \ r.missed, Concerns(p)' PROVE HasFresh(p)'
        BY <2>3, <4>1, <4>2 DEF AnalyticsInv
      <4>. QED
        BY <1>0, <4>1, <4>2 DEF AnalyticsInv
    <3>. QED
      BY <1>3, <3>1, <3>2, <3>3, <3>4, <3>5
  <2>. QED
    BY <2>4, <2>7, <2>8
<1>. QED
  BY <1>1, <1>2, <1>3 DEF AnalyticsNext

\* After the hourly run, posts have figures as fresh as their age asks for, unless asked in
\* vain: PostsStayFresh.
THEOREM PostsAlwaysFresh == AnalyticsSpec => []PostsStayFresh
<1>1. AnalyticsTyped /\ AnalyticsInv /\ UNCHANGED AnalyticsVars => (AnalyticsTyped /\ AnalyticsInv)'
  BY DEF AnalyticsVars, AnalyticsTyped, AnalyticsInv, Concerns, HasFresh, IsOut, Age, Window
<1>2. AnalyticsInv => PostsStayFresh
  BY DEF AnalyticsInv, PostsStayFresh, Concerns, HasFresh
<1>. QED
  BY <1>1, <1>2, AnalyticsStarts, AnalyticsTypes, AnalyticsStays, PTL DEF AnalyticsSpec

-----------------------------------------------------------------------------
(* The calendar                                                            *)

\* What a request in progress knows.
Times == {NoTime} \cup Moments
Child == [status : {"none", "draft", "scheduled", "sent"}, at : Times]
Lists == UNION {[1..n -> Posts] : n \in Nat}
Plan ==
    {NoPlan}
      \cup [pc : {"add"}, ask : Ask, left : SUBSET Queues, alone : BOOLEAN]
      \cup [pc : {"entry"}, ask : Ask, left : SUBSET Queues, alone : BOOLEAN,
            queue : Queues, position : Nat]
      \cup [pc : {"assign"}, ask : Ask \cup {NoAsk}, left : SUBSET Queues, alone : BOOLEAN,
            queue : Queues]
      \cup [pc : {"write"}, ask : Ask \cup {NoAsk}, left : SUBSET Queues, alone : BOOLEAN,
            queue : Queues, order : Lists, index : Nat \ {0},
            slots : SUBSET Moments]
      \cup [pc : {"floor"}, ask : Ask, alone : BOOLEAN]

EntriesTyped ==
    /\ DOMAIN entries = Queues
    /\ \A q \in Queues : /\ Held(q) \subseteq Posts /\ IsFiniteSet(Held(q))
                         /\ \A p \in Held(q) : entries[q][p] \in Nat

CalendarTyped ==
    /\ now \in Nat /\ plans \in Nat
    /\ queues \in SUBSET Queues /\ settled \in SUBSET queues
    /\ EntriesTyped
    /\ child \in [Posts -> [QueueChannels -> Child]]
    /\ parent \in [Posts -> Times]
    /\ plan \in [Planners -> Plan]

Busy(w) == w.pc \in {"add", "entry", "assign", "write"}

\* A request that has met no other is alone, and what is settled was settled by
\* the one that is in progress, if any.
AloneFits ==
    /\ \A r, u \in Planners : r # u /\ plan[r] # NoPlan /\ plan[u] # NoPlan => ~plan[r].alone
    /\ settled # {} => \A r \in Planners : plan[r] # NoPlan => plan[r].alone

\* A request has one queue of each channel, and those it has still to come to
\* are not of the channels of the settled queues.
LeftFits(w) ==
    /\ \A q, k \in w.left : QueueOf[q] = QueueOf[k] => q = k
    /\ w.pc # "add" => w.queue \in w.left
    /\ \A q \in w.left, k \in settled : QueueOf[q] # QueueOf[k]

\* The entries, as a recalculation that is alone has listed them, and the times it
\* has given so far.
WriteFits(w) ==
    LET c == QueueOf[w.queue]
        held == {i \in DOMAIN w.order : w.order[i] \in Held(w.queue)}
    IN /\ Held(w.queue) \subseteq Range(w.order)
       /\ \A i, j \in held : i < j => entries[w.queue][w.order[i]] <= entries[w.queue][w.order[j]]
       /\ \A i, j \in DOMAIN w.order : w.order[i] = w.order[j] => i = j
       /\ \A i \in DOMAIN w.order : i < w.index /\ child[w.order[i]][c] # NoChild =>
             child[w.order[i]][c].at = SlotOf(w.slots, i)

CalendarInv ==
    /\ AloneFits
    /\ \A r \in Planners : Busy(plan[r]) => LeftFits(plan[r])
    /\ \A r \in Planners : plan[r].pc = "write" /\ plan[r].alone => WriteFits(plan[r])
    /\ QueueOrderIsTimeOrder

\* A set of numbers that is finite and not empty has a largest.
LEMMA GreatestOne ==
    ASSUME NEW S, S \subseteq Nat, S # {}, IsFiniteSet(S)
    PROVE  \E m \in S : \A n \in S : n <= m
<1> DEFINE upTo(m) == {n \in S : n <= m}
           over == {Cardinality(S) - Cardinality(upTo(m)) : m \in S}
<1>1. \A m \in S : IsFiniteSet(upTo(m)) /\ Cardinality(upTo(m)) <= Cardinality(S)
  BY FS_Subset
<1>2. Cardinality(S) \in Nat /\ \A m \in S : Cardinality(upTo(m)) \in Nat
  BY <1>1, FS_CardinalityType
<1>3. over \subseteq Nat /\ over # {}
  <2>1. \A m \in S : Cardinality(S) - Cardinality(upTo(m)) \in Nat
    <3> HIDE DEF upTo
    <3> QED
      BY <1>1, <1>2
  <2> HIDE DEF upTo
  <2> QED
    BY <2>1
<1>4. PICK k \in over : \A l \in over : k <= l
  <2> HIDE DEF over
  <2> QED
    BY <1>3, Smallest
<1>5. PICK m \in S : k = Cardinality(S) - Cardinality(upTo(m))
  OBVIOUS
<1>6. ASSUME NEW n \in S, ~(n <= m)
      PROVE  FALSE
  <2>1. upTo(m) \subseteq upTo(n) /\ n \in upTo(n) /\ n \notin upTo(m)
    <3>1. m \in Nat /\ n \in Nat /\ m < n
      BY <1>6
    <3>2. \A l \in S : l <= m => l <= n
      <4> SUFFICES ASSUME NEW l \in S, l <= m
                   PROVE  l <= n
        OBVIOUS
      <4>1. l \in Nat
        OBVIOUS
      <4> QED
        BY <3>1, <4>1
    <3>3. upTo(m) \subseteq upTo(n)
      BY <3>2
    <3>4. n <= n /\ ~(n <= m)
      BY <3>1
    <3> QED
      BY <3>3, <3>4
  <2>2. Cardinality(upTo(m)) <= Cardinality(upTo(n)) /\ Cardinality(upTo(m)) # Cardinality(upTo(n))
    <3>1. upTo(m) \in SUBSET upTo(n)
      BY <2>1
    <3> HIDE DEF upTo
    <3> QED
      BY <1>1, <2>1, <3>1, FS_Subset
  <2>3. k <= Cardinality(S) - Cardinality(upTo(n))
    BY <1>4
  <2> HIDE DEF upTo, over
  <2> QED
    BY <1>2, <1>5, <2>2, <2>3
<1> QED
  BY <1>6

\* The largest position of a queue, or none, is a number.
LEMMA LargestIsOne ==
    ASSUME NEW S, S \subseteq Nat, IsFiniteSet(S)
    PROVE  Largest(S) \in Nat
<1>1. S # {} => \E m \in S : \A n \in S : n <= m
  BY GreatestOne
<1> QED
  BY <1>1 DEF Largest

\* The first of some times is one of them, and none is before it.
LEMMA EarliestIsOne ==
    ASSUME NEW S, S \subseteq Nat
    PROVE  Earliest(S) \in S \cup {NoTime}
<1>1. S # {} => \E m \in S : \A n \in S : m <= n
  BY Smallest
<1> QED
  BY <1>1 DEF Earliest

\* Slot number i is one of the slots, and the slots before it are i - 1.
LEMMA NthIsOne ==
    ASSUME NEW S, NEW i
    PROVE  \/ Nth(S, i) = NoTime
           \/ Nth(S, i) \in S /\ Cardinality({n \in S : n < Nth(S, i)}) = i - 1
  BY DEF Nth

\* When there is a slot number j, there is a slot of every number before it, and it comes sooner.
LEMMA NthInOrder ==
    ASSUME NEW S, S \subseteq Nat, IsFiniteSet(S), NoTime \notin S,
           NEW i \in Nat \ {0}, NEW j \in Nat, i < j, Nth(S, j) # NoTime
    PROVE  Nth(S, i) # NoTime /\ Nth(S, i) < Nth(S, j)
<1> DEFINE before(m) == {n \in S : n < m}
           rank(m) == Cardinality(before(m))
           later == {m \in S : rank(m) >= i - 1}
<1>1. \A m \in Nat : IsFiniteSet(before(m)) /\ rank(m) \in Nat
  BY FS_Subset, FS_CardinalityType
<1>2. Nth(S, j) \in S /\ rank(Nth(S, j)) = j - 1
  BY NthIsOne
<1>3. PICK m \in later : \A n \in later : m <= n
  <2>1. Nth(S, j) \in later
    <3> HIDE DEF before
    <3> QED
      BY <1>2
  <2>2. later \subseteq Nat
    OBVIOUS
  <2> HIDE DEF later
  <2> QED
    BY <2>1, <2>2, Smallest
<1>4. rank(m) = i - 1
  <2> SUFFICES ASSUME rank(m) > i - 1
               PROVE  FALSE
    BY <1>1, <1>3
  <2>1. before(m) # {}
    <3> HIDE DEF before
    <3> QED
      BY <1>1, <1>3, FS_EmptySet
  <2>2. PICK p \in before(m) : \A n \in before(m) : n <= p
    <3>1. before(m) \subseteq Nat /\ IsFiniteSet(before(m))
      BY <1>1
    <3> HIDE DEF before
    <3> QED
      BY <2>1, <3>1, GreatestOne
  <2>3. before(m) = before(p) \cup {p} /\ p \notin before(p) /\ p \in S /\ p < m
    <3>1. m \in S /\ m \in Nat /\ p \in S /\ p \in Nat /\ p < m /\ \A n \in S : n \in Nat
      OBVIOUS
    <3>2. ASSUME NEW n \in S
          PROVE  n < m <=> n < p \/ n = p
      <4>1. n \in Nat /\ (n < m => n <= p)
        BY <2>2
      <4> QED
        BY <3>1, <4>1
    <3>3. ~(p < p)
      BY <3>1
    <3>4. before(m) = before(p) \cup {p}
      BY <3>1, <3>2
    <3> QED
      BY <3>1, <3>3, <3>4
  <2>4. rank(m) = rank(p) + 1
    <3> HIDE DEF before
    <3> QED
      BY <1>1, <2>3, FS_AddElement
  <2>5. p \in later
    <3> HIDE DEF before
    <3> QED
      BY <1>1, <2>3, <2>4
  <2> QED
    BY <1>3, <2>3, <2>5
<1>5. Nth(S, i) # NoTime
  BY <1>3, <1>4 DEF Nth
<1>6. Nth(S, i) \in S /\ rank(Nth(S, i)) = i - 1
  BY <1>5, NthIsOne
<1>7. ASSUME NEW x \in S, NEW y \in S, rank(x) < rank(y)
      PROVE  x < y
  <2> SUFFICES ASSUME ~(x < y)
               PROVE  FALSE
    OBVIOUS
  <2>1. before(y) \in SUBSET before(x)
    <3>1. x \in Nat /\ y \in Nat /\ y <= x
      OBVIOUS
    <3>2. ASSUME NEW n \in S, n < y
          PROVE  n < x
      <4>1. n \in Nat
        OBVIOUS
      <4> QED
        BY <3>1, <3>2, <4>1
    <3> QED
      BY <3>2
  <2>2. Cardinality(before(y)) <= Cardinality(before(x))
    <3> HIDE DEF before
    <3> QED
      BY <1>1, <2>1, FS_Subset
  <2> HIDE DEF before
  <2> QED
    BY <1>1, <1>7, <2>2
<1> QED
  <2>1. rank(Nth(S, i)) < rank(Nth(S, j))
    <3> HIDE DEF before
    <3> QED
      BY <1>2, <1>6
  <2> HIDE DEF rank
  <2> QED
    BY <1>2, <1>5, <1>6, <1>7, <2>1

\* The fields of a request are those of the place it has come to.
LEMMA PlanFields ==
    ASSUME NEW w \in Plan
    PROVE  /\ w.pc \in {"idle", "add", "entry", "assign", "write", "floor"}
           /\ w = NoPlan <=> w.pc = "idle"
           /\ w # NoPlan => w.alone \in BOOLEAN /\ w.ask \in Ask \cup {NoAsk}
           /\ w.pc \in {"add", "entry", "floor"} => w.ask \in Ask
           /\ Busy(w) => w.left \in SUBSET Queues
           /\ Busy(w) /\ w.pc # "add" => w.queue \in Queues
           /\ w.pc = "entry" => w.position \in Nat
           /\ w.pc = "write" => w.order \in Lists /\ w.index \in Nat \ {0} /\ w.slots \in SUBSET Moments
<1> HIDE DEF Ask, NoAsk, Lists, Moments
<1> QED
  BY DEF Plan, NoPlan, Busy

\* What the composer asks for.
LEMMA AskFields ==
    ASSUME NEW a \in Ask
    PROVE  /\ a.post \in Posts /\ a.all \in SUBSET Queues
           /\ a.priority \in BOOLEAN /\ a.floor \in Times
  BY DEF Ask, Times

\* A new order of a queue is not what the composer asks for.
LEMMA NoAskIsNone == NoAsk \notin Ask
<1> SUFFICES ASSUME NoAsk \in Ask
             PROVE  FALSE
  OBVIOUS
<1>1. DOMAIN NoAsk = {"all"}
  BY DEF NoAsk
<1>2. DOMAIN NoAsk = {"post", "all", "priority", "floor"}
  BY DEF Ask
<1> QED
  BY <1>1, <1>2

\* A request that has met another is where it was.
LEMMA MetStays ==
    ASSUME NEW w \in Plan
    PROVE  /\ Met(w) \in Plan /\ Met(w).pc = w.pc
           /\ Met(w) = NoPlan <=> w = NoPlan
           /\ w # NoPlan => ~Met(w).alone
           /\ Busy(w) => Met(w).left = w.left
           /\ Busy(w) /\ w.pc # "add" => Met(w).queue = w.queue
<1>1. CASE w = NoPlan
  BY <1>1 DEF Met, NoPlan, Busy
<1>2. CASE w # NoPlan
  <2>1. Met(w) = [w EXCEPT !.alone = FALSE]
    BY <1>2 DEF Met
  <2>2. Met(w) \in Plan
    BY <1>2, <2>1 DEF Plan
  <2>3. /\ Met(w).pc = w.pc /\ ~Met(w).alone
        /\ Busy(w) => Met(w).left = w.left
        /\ Busy(w) /\ w.pc # "add" => Met(w).queue = w.queue
    BY <1>2, <2>1 DEF Plan, Busy
  <2>4. Met(w) # NoPlan
    BY <1>2, <2>2, <2>3, PlanFields
  <2> QED
    BY <1>2, <2>2, <2>3, <2>4
<1> QED
  BY <1>1, <1>2

\* A place in a list is a number of it, and holds a post.
LEMMA ListFields ==
    ASSUME NEW s \in Lists
    PROVE  /\ \A i \in DOMAIN s : i \in Nat \ {0} /\ s[i] \in Posts
           /\ Range(s) \subseteq Posts
           /\ \A i \in Nat : i \notin DOMAIN s => i = 0 \/ \A j \in DOMAIN s : j < i
<1>1. PICK n \in Nat : s \in [1..n -> Posts]
  BY DEF Lists
<1> QED
  BY <1>1 DEF Range

\* The slots of a channel are moments, and finitely many.
LEMMA MomentsAreFinite ==
    ASSUME NEW S \in SUBSET Moments
    PROVE  S \subseteq Nat /\ NoTime \notin S /\ IsFiniteSet(S)
<1>1. Moments \subseteq Nat /\ NoTime \notin Moments
  BY DEF Moments, NoTime
<1>2. IsFiniteSet(Moments)
  BY CalendarAssumption, FS_Interval DEF Moments
<1>3. IsFiniteSet(S)
  BY <1>2, FS_Subset
<1> QED
  BY <1>1, <1>3

\* A list of the entries is a list of posts.
LEMMA OrdersAreLists ==
    ASSUME CalendarTyped, NEW q \in Queues, NEW s \in Orders(q)
    PROVE  /\ s \in Lists /\ Range(s) = Held(q)
           /\ \A i, j \in DOMAIN s : i < j => entries[q][s[i]] <= entries[q][s[j]]
           /\ \A i, j \in DOMAIN s : s[i] = s[j] => i = j
<1> DEFINE n == Cardinality(Held(q))
<1>1. n \in Nat
  BY FS_CardinalityType DEF CalendarTyped, EntriesTyped
<1> HIDE DEF n
<1>2. s \in Bijection(1..n, Held(q)) /\ \A i, j \in DOMAIN s : i < j => entries[q][s[i]] <= entries[q][s[j]]
  BY DEF Orders, n
<1>3. s \in [1..n -> Held(q)] /\ IsInjective(s) /\ \A p \in Held(q) : \E i \in 1..n : s[i] = p
  BY <1>2 DEF Bijection, Injection, Surjection
<1>4. s \in [1..n -> Posts]
  BY <1>3 DEF CalendarTyped, EntriesTyped
<1>5. s \in Lists
  BY <1>1, <1>4 DEF Lists
<1> QED
  BY <1>2, <1>3, <1>5 DEF Range, IsInjective

\* The time of a post follows its children.
LEMMA SyncedIsATime ==
    ASSUME NEW rows \in [Posts -> [QueueChannels -> Child]], NEW p \in Posts
    PROVE  SyncedParent(p, rows) \in Times
<1> DEFINE times == {rows[p][c].at : c \in QueueChannels} \ {NoTime}
<1>1. times \in SUBSET Moments
  BY DEF Child, Times
<1>2. times \subseteq Nat
  BY <1>1, MomentsAreFinite
<1>3. SyncedParent(p, rows) = Earliest(times)
  BY DEF SyncedParent
<1> HIDE DEF times
<1> QED
  BY <1>1, <1>2, <1>3, EarliestIsOne DEF Times

\* A slot that is given is a time.
LEMMA SlotIsATime ==
    ASSUME NEW S \in SUBSET Moments, NEW i
    PROVE  SlotOf(S, i) \in Times
  BY NthIsOne DEF SlotOf, Times

-----------------------------------------------------------------------------
\* At the start there is nothing.
LEMMA CalendarStarts == CalendarInit => CalendarTyped /\ CalendarInv
<1> SUFFICES ASSUME CalendarInit
             PROVE  CalendarTyped /\ CalendarInv
  OBVIOUS
<1>1. \A r \in Planners : plan[r] = NoPlan /\ plan[r].pc = "idle"
  BY DEF CalendarInit, NoPlan
<1>2. \A q \in Queues : entries[q] = [p \in {} |-> 0] /\ Held(q) = {}
  BY DEF CalendarInit, Held
<1>3. NoChild \in Child
  BY DEF NoChild, Child, Times
<1>4. CalendarTyped
  BY <1>1, <1>2, <1>3, FS_EmptySet DEF CalendarInit, CalendarTyped, EntriesTyped, Plan, Times
<1>5. CalendarInv
  BY <1>1 DEF CalendarInit, CalendarInv, AloneFits, Busy, QueueOrderIsTimeOrder
<1> QED
  BY <1>4, <1>5

\* A request opens, or meets another.
LEMMA OpensTyped ==
    ASSUME CalendarTyped, NEW r \in Planners, NEW w, Opens(r, w), \A b \in BOOLEAN : [w EXCEPT !.alone = b] \in Plan
    PROVE  plans' \in Nat /\ settled' \in SUBSET queues' /\ plan' \in [Planners -> Plan]
<1>1. \A o \in Planners : Met(plan[o]) \in Plan
  BY MetStays DEF CalendarTyped
<1>2. PICK b \in BOOLEAN :
        plan' = [o \in Planners |-> IF o = r THEN [w EXCEPT !.alone = b] ELSE Met(plan[o])]
  BY DEF Opens
<1>3. plan' \in [Planners -> Plan]
  BY <1>1, <1>2
<1> QED
  BY <1>3 DEF Opens, CalendarTyped

\* The entries of a queue are given other numbers, or hold a post more.
LEMMA EntriesChange ==
    ASSUME EntriesTyped, NEW q \in Queues, NEW row,
           DOMAIN row \subseteq Posts, IsFiniteSet(DOMAIN row), \A p \in DOMAIN row : row[p] \in Nat,
           entries' = [entries EXCEPT ![q] = row]
    PROVE  EntriesTyped'
<1>1. DOMAIN entries' = Queues /\ \A k \in Queues : entries'[k] = IF k = q THEN row ELSE entries[k]
  BY DEF EntriesTyped
<1> QED
  BY <1>1 DEF EntriesTyped, Held

\* Where the request goes, it is a request; the rest is left as it is.
LEMMA PlanGoes ==
    ASSUME CalendarTyped, NEW r \in Planners, NEW w \in Plan, plan' = [plan EXCEPT ![r] = w]
    PROVE  plan' \in [Planners -> Plan]
  BY DEF CalendarTyped

\* A post that is added to queues has children, and a request.
LEMMA AsksForTyped ==
    ASSUME CalendarTyped, NEW r \in Planners, NEW a \in Ask, AsksFor(r, a)
    PROVE  CalendarTyped'
<1> DEFINE w == [pc |-> "add", ask |-> a, left |-> a.all, alone |-> TRUE]
<1>1. a.post \in Posts /\ a.all \in SUBSET Queues
  BY AskFields
<1>2. \A b \in BOOLEAN : [w EXCEPT !.alone = b] \in Plan
  <2> SUFFICES ASSUME NEW b \in BOOLEAN
               PROVE  [w EXCEPT !.alone = b] \in Plan
    OBVIOUS
  <2>1. [w EXCEPT !.alone = b] = [pc |-> "add", ask |-> a, left |-> a.all, alone |-> b]
    OBVIOUS
  <2>2. [pc |-> "add", ask |-> a, left |-> a.all, alone |-> b] \in Plan
    BY <1>1 DEF Plan
  <2> QED
    BY <2>1, <2>2
<1>3. Opens(r, w)
  BY DEF AsksFor
<1>4. plans' \in Nat /\ settled' \in SUBSET queues' /\ plan' \in [Planners -> Plan]
  <2> HIDE DEF w
  <2> QED
    BY <1>2, <1>3, OpensTyped
<1>5. child' \in [Posts -> [QueueChannels -> Child]]
  <2>1. \A c \in QueueChannels : [child[a.post][c] EXCEPT !.status = "draft"] \in Child /\ child[a.post][c] \in Child
    BY <1>1 DEF CalendarTyped, Child
  <2>2. PICK row \in [QueueChannels -> Child] : child' = [child EXCEPT ![a.post] = row]
    BY <1>1, <2>1 DEF AsksFor, CalendarTyped
  <2> QED
    BY <1>1, <2>2 DEF CalendarTyped
<1>6. EntriesTyped'
  BY DEF AsksFor, CalendarTyped, EntriesTyped, Held
<1> QED
  BY <1>4, <1>5, <1>6 DEF AsksFor, CalendarTyped

\* A position that is read is a number, and the entries are given others.
LEMMA ReadPositionTyped ==
    ASSUME CalendarTyped, NEW r \in Planners, ReadPosition(r)
    PROVE  CalendarTyped'
<1>1. plan[r] \in Plan /\ plan[r].pc = "add"
  BY DEF ReadPosition, CalendarTyped
<1>2. plan[r].ask \in Ask /\ plan[r].left \in SUBSET Queues /\ plan[r].alone \in BOOLEAN /\ plan[r].ask.priority \in BOOLEAN
  BY <1>1, PlanFields, AskFields DEF Busy
<1>3. PICK q \in plan[r].left :
         IF q \in queues
         THEN /\ plan' = [plan EXCEPT ![r] =
                   [pc |-> "entry", ask |-> plan[r].ask, left |-> plan[r].left, alone |-> plan[r].alone, queue |-> q,
                    position |-> IF plan[r].ask.priority THEN 0 ELSE Largest(Positions(q)) + 1]]
              /\ entries' = IF plan[r].ask.priority
                            THEN [entries EXCEPT ![q] = [p \in Held(q) |-> @[p] + 1]] ELSE entries
         ELSE plan' = [plan EXCEPT ![r] = NoPlan] /\ UNCHANGED entries
  BY DEF ReadPosition
<1>4. q \in Queues
  BY <1>2
<1>5. Held(q) \subseteq Posts /\ IsFiniteSet(Held(q)) /\ \A p \in Held(q) : entries[q][p] \in Nat
  BY <1>4 DEF CalendarTyped, EntriesTyped
<1>6. Largest(Positions(q)) \in Nat
  <2>1. Positions(q) \subseteq Nat
    BY <1>5 DEF Positions
  <2>2. IsFiniteSet(Positions(q))
    <3>1. [p \in Held(q) |-> entries[q][p]] \in Surjection(Held(q), Positions(q))
      BY DEF Positions, Surjection
    <3> QED
      BY <1>5, <3>1, FS_Surjection
  <2> QED
    BY <2>1, <2>2, LargestIsOne
<1>7. plan' \in [Planners -> Plan]
  <2>1. CASE q \in queues
    <3>1. PICK n \in Nat : n = IF plan[r].ask.priority THEN 0 ELSE Largest(Positions(q)) + 1
      BY <1>6
    <3>2. [pc |-> "entry", ask |-> plan[r].ask, left |-> plan[r].left, alone |-> plan[r].alone, queue |-> q,
           position |-> n] \in Plan
      BY <1>2, <1>4, <3>1 DEF Plan
    <3> QED
      BY <1>3, <2>1, <3>1, <3>2, PlanGoes
  <2>2. CASE q \notin queues
    <3>1. NoPlan \in Plan
      BY DEF Plan
    <3> QED
      BY <1>3, <2>2, <3>1, PlanGoes
  <2> QED
    BY <2>1, <2>2
<1>8. EntriesTyped'
  <2>1. CASE q \in queues /\ plan[r].ask.priority
    <3>1. PICK row : row = [p \in Held(q) |-> entries[q][p] + 1]
      OBVIOUS
    <3>2. entries' = [entries EXCEPT ![q] = row]
      BY <1>3, <1>4, <2>1, <3>1 DEF CalendarTyped, EntriesTyped
    <3>3. DOMAIN row \subseteq Posts /\ IsFiniteSet(DOMAIN row) /\ \A p \in DOMAIN row : row[p] \in Nat
      BY <1>5, <3>1
    <3> QED
      BY <1>4, <3>2, <3>3, EntriesChange DEF CalendarTyped
  <2>2. CASE ~(q \in queues /\ plan[r].ask.priority)
    <3>1. entries' = entries
      BY <1>3, <2>2
    <3> QED
      BY <3>1 DEF CalendarTyped, EntriesTyped, Held
  <2> QED
    BY <2>1, <2>2
<1> QED
  BY <1>7, <1>8 DEF ReadPosition, CalendarTyped

\* The queue of an entry that is saved holds its post.
LEMMA SaveEntryTyped ==
    ASSUME CalendarTyped, NEW r \in Planners, SaveEntry(r)
    PROVE  CalendarTyped'
<1>1. plan[r] \in Plan /\ plan[r].pc = "entry"
  BY DEF SaveEntry, CalendarTyped
<1>2. /\ plan[r].ask \in Ask /\ plan[r].left \in SUBSET Queues /\ plan[r].alone \in BOOLEAN
      /\ plan[r].queue \in Queues /\ plan[r].position \in Nat /\ plan[r].ask.post \in Posts
  BY <1>1, PlanFields, AskFields DEF Busy
<1>3. PICK q \in Queues, p \in Posts, n \in Nat : q = plan[r].queue /\ p = plan[r].ask.post /\ n = plan[r].position
  BY <1>2
<1>4. Held(q) \subseteq Posts /\ IsFiniteSet(Held(q)) /\ \A k \in Held(q) : entries[q][k] \in Nat
  BY DEF CalendarTyped, EntriesTyped
<1>5. CASE q \in queues
  <2>1. PICK row : row = [k \in Held(q) \cup {p} |-> IF k = p THEN n ELSE entries[q][k]]
    OBVIOUS
  <2>2. entries' = [entries EXCEPT ![q] = row]
    BY <1>3, <1>5, <2>1 DEF SaveEntry, CalendarTyped, EntriesTyped
  <2>3. DOMAIN row \subseteq Posts /\ IsFiniteSet(DOMAIN row) /\ \A k \in DOMAIN row : row[k] \in Nat
    <3>1. IsFiniteSet(Held(q) \cup {p})
      BY <1>4, FS_AddElement
    <3> QED
      BY <1>4, <2>1, <3>1
  <2>4. EntriesTyped'
    BY <2>2, <2>3, EntriesChange DEF CalendarTyped
  <2>5. Assigning(plan[r], q) \in Plan
    BY <1>2 DEF Assigning, Plan
  <2>6. plan' = [plan EXCEPT ![r] = Assigning(plan[r], q)]
    BY <1>3, <1>5 DEF SaveEntry
  <2>7. plan' \in [Planners -> Plan]
    BY <2>5, <2>6, PlanGoes
  <2> QED
    BY <2>4, <2>7 DEF SaveEntry, CalendarTyped
<1>6. CASE q \notin queues
  <2>1. plan' = [plan EXCEPT ![r] = NoPlan] /\ entries' = entries
    BY <1>3, <1>6 DEF SaveEntry
  <2>2. NoPlan \in Plan
    BY DEF Plan
  <2>3. plan' \in [Planners -> Plan]
    BY <2>1, <2>2, PlanGoes
  <2>4. EntriesTyped'
    BY <2>1 DEF CalendarTyped, EntriesTyped, Held
  <2> QED
    BY <2>3, <2>4 DEF SaveEntry, CalendarTyped
<1> QED
  BY <1>5, <1>6

\* A queue in another order holds the same posts.
LEMMA ReorderTyped ==
    ASSUME CalendarTyped, NEW r \in Planners, ReorderQueue(r)
    PROVE  CalendarTyped'
<1>0. PICK q \in queues : \E listed \in SUBSET Held(q) :
        /\ listed # {}
        /\ Opens(r, [pc |-> "assign", ask |-> NoAsk, left |-> {q}, alone |-> TRUE, queue |-> q])
        /\ \E place \in Bijection(listed, 0 .. (Cardinality(listed) - 1)) :
             entries' = [entries EXCEPT ![q] = [p \in Held(q) |->
                           IF p \in listed THEN place[p] ELSE @[p]]]
        /\ UNCHANGED <<now, slot, queues, child, parent>>
  BY DEF ReorderQueue
<1>1. PICK listed \in SUBSET Held(q) :
        /\ listed # {}
        /\ Opens(r, [pc |-> "assign", ask |-> NoAsk, left |-> {q}, alone |-> TRUE, queue |-> q])
        /\ \E place \in Bijection(listed, 0 .. (Cardinality(listed) - 1)) :
             entries' = [entries EXCEPT ![q] = [p \in Held(q) |->
                           IF p \in listed THEN place[p] ELSE @[p]]]
        /\ UNCHANGED <<now, slot, queues, child, parent>>
  BY <1>0
<1>2. q \in Queues
  BY DEF CalendarTyped
<1> DEFINE w == [pc |-> "assign", ask |-> NoAsk, left |-> {q}, alone |-> TRUE, queue |-> q]
<1>3. \A b \in BOOLEAN : [w EXCEPT !.alone = b] \in Plan
  <2> SUFFICES ASSUME NEW b \in BOOLEAN
               PROVE  [w EXCEPT !.alone = b] \in Plan
    OBVIOUS
  <2>1. [w EXCEPT !.alone = b] = [pc |-> "assign", ask |-> NoAsk, left |-> {q}, alone |-> b, queue |-> q]
    OBVIOUS
  <2>2. [pc |-> "assign", ask |-> NoAsk, left |-> {q}, alone |-> b, queue |-> q] \in Plan
    BY <1>2 DEF Plan
  <2> QED
    BY <2>1, <2>2
<1>4. plans' \in Nat /\ settled' \in SUBSET queues' /\ plan' \in [Planners -> Plan]
  <2>1. Opens(r, w)
    BY <1>1
  <2> HIDE DEF w
  <2> QED
    BY <1>3, <2>1, OpensTyped
<1>5. EntriesTyped'
  <2>1. Held(q) \subseteq Posts /\ IsFiniteSet(Held(q)) /\ \A p \in Held(q) : entries[q][p] \in Nat
    BY <1>2 DEF CalendarTyped, EntriesTyped
  <2>2. PICK place \in Bijection(listed, 0 .. (Cardinality(listed) - 1)) :
          entries' = [entries EXCEPT ![q] = [p \in Held(q) |-> IF p \in listed THEN place[p] ELSE @[p]]]
    BY <1>1
  <2>3. \A p \in listed : place[p] \in Nat
    BY DEF Bijection, Injection
  <2>4. PICK row : row = [p \in Held(q) |-> IF p \in listed THEN place[p] ELSE entries[q][p]]
    OBVIOUS
  <2>5. entries' = [entries EXCEPT ![q] = row]
    BY <1>2, <2>2, <2>4 DEF CalendarTyped, EntriesTyped
  <2>6. DOMAIN row \subseteq Posts /\ IsFiniteSet(DOMAIN row) /\ \A p \in DOMAIN row : row[p] \in Nat
    BY <2>1, <2>3, <2>4
  <2> QED
    BY <1>2, <2>5, <2>6, EntriesChange DEF CalendarTyped
<1> QED
  BY <1>1, <1>4, <1>5 DEF CalendarTyped

\* A request has a list of the posts of its queue, and of the slots of its channel.
LEMMA ListEntriesTyped ==
    ASSUME CalendarTyped, NEW r \in Planners, ListEntries(r)
    PROVE  CalendarTyped'
<1>1. plan[r] \in Plan /\ plan[r].pc = "assign"
  BY DEF ListEntries, CalendarTyped
<1>2. /\ plan[r].ask \in Ask \cup {NoAsk} /\ plan[r].left \in SUBSET Queues /\ plan[r].alone \in BOOLEAN
      /\ plan[r].queue \in Queues
  BY <1>1, PlanFields DEF Busy
<1>3. PICK order \in Orders(plan[r].queue) :
         plan' = [plan EXCEPT ![r] =
           [pc |-> "write", ask |-> plan[r].ask, left |-> plan[r].left, alone |-> plan[r].alone,
            queue |-> plan[r].queue, order |-> order, index |-> 1,
            slots |-> _next_slot_datetimes(QueueOf[plan[r].queue], now)]]
  BY DEF ListEntries
<1>4. order \in Lists
  BY <1>2, OrdersAreLists
<1>5. PICK S \in SUBSET Moments : S = _next_slot_datetimes(QueueOf[plan[r].queue], now)
  BY DEF _next_slot_datetimes
<1>6. [pc |-> "write", ask |-> plan[r].ask, left |-> plan[r].left, alone |-> plan[r].alone,
       queue |-> plan[r].queue, order |-> order, index |-> 1, slots |-> S] \in Plan
  <2> HIDE DEF Lists, Moments
  <2> QED
    BY <1>2, <1>4 DEF Plan
<1>7. plan' \in [Planners -> Plan]
  BY <1>3, <1>5, <1>6, PlanGoes
<1>8. EntriesTyped'
  BY DEF ListEntries, CalendarTyped, EntriesTyped, Held
<1> QED
  BY <1>7, <1>8 DEF ListEntries, CalendarTyped

\* A slot is written for the next post of the list, when the queue is there.
LEMMA WriteSlotFields ==
    ASSUME CalendarTyped, NEW r \in Planners, WriteSlot(r)
    PROVE  /\ plan[r] \in Plan /\ plan[r].pc = "write" /\ plan[r].index \in DOMAIN plan[r].order
           /\ plan[r].order[plan[r].index] \in Posts /\ QueueOf[plan[r].queue] \in QueueChannels
           /\ SlotOf(plan[r].slots, plan[r].index) \in Times
           /\ [plan[r] EXCEPT !.index = @ + 1] \in Plan
<1>1. plan[r] \in Plan /\ plan[r].pc = "write" /\ plan[r].index \in DOMAIN plan[r].order
  BY DEF WriteSlot, CalendarTyped
<1>2. /\ plan[r].order \in Lists /\ plan[r].index \in Nat \ {0} /\ plan[r].slots \in SUBSET Moments
      /\ plan[r].queue \in Queues
  BY <1>1, PlanFields DEF Busy
<1>3. plan[r].order[plan[r].index] \in Posts
  BY <1>1, <1>2, ListFields
<1>4. QueueOf[plan[r].queue] \in QueueChannels
  BY <1>2, CalendarAssumption
<1>5. SlotOf(plan[r].slots, plan[r].index) \in Times
  BY <1>2, SlotIsATime
<1>6. [plan[r] EXCEPT !.index = @ + 1] \in Plan
  <2>1. plan[r].index + 1 \in Nat \ {0}
    BY <1>2
  <2> HIDE DEF Lists, Moments
  <2> QED
    BY <1>1, <2>1 DEF Plan, NoPlan
<1> QED
  BY <1>1, <1>3, <1>4, <1>5, <1>6

\* A child that is given a slot has a time.
LEMMA WriteSlotTyped ==
    ASSUME CalendarTyped, NEW r \in Planners, WriteSlot(r)
    PROVE  CalendarTyped'
<1>1. PICK p \in Posts, c \in QueueChannels, t \in Times, w \in Plan :
         /\ p = plan[r].order[plan[r].index] /\ c = QueueOf[plan[r].queue]
         /\ t = SlotOf(plan[r].slots, plan[r].index) /\ w = [plan[r] EXCEPT !.index = @ + 1]
  BY WriteSlotFields
<1>2. child' \in [Posts -> [QueueChannels -> Child]]
  <2>1. child' = child \/ child' = [child EXCEPT ![p][c].at = t]
    BY <1>1 DEF WriteSlot
  <2>2. [child[p][c] EXCEPT !.at = t] \in Child
    BY DEF CalendarTyped, Child
  <2> QED
    BY <2>1, <2>2 DEF CalendarTyped
<1>3. plan' \in [Planners -> Plan]
  <2>1. plan' = [plan EXCEPT ![r] = w] \/ plan' = [plan EXCEPT ![r] = NoPlan]
    BY <1>1 DEF WriteSlot, CalendarTyped
  <2>2. NoPlan \in Plan
    BY DEF Plan
  <2> QED
    BY <2>1, <2>2, PlanGoes
<1>4. EntriesTyped'
  BY DEF WriteSlot, CalendarTyped, EntriesTyped, Held
<1> QED
  BY <1>2, <1>3, <1>4 DEF WriteSlot, CalendarTyped

\* A recalculation that ends goes on to the next queue, the floor or the end.
LEMMA EndAssignTyped ==
    ASSUME CalendarTyped, NEW r \in Planners, EndAssign(r)
    PROVE  CalendarTyped'
<1>1. plan[r] \in Plan /\ plan[r].pc = "write"
  BY DEF EndAssign, CalendarTyped
<1>2. /\ plan[r].ask \in Ask \cup {NoAsk} /\ plan[r].left \in SUBSET Queues /\ plan[r].alone \in BOOLEAN
      /\ plan[r].queue \in Queues
  BY <1>1, PlanFields DEF Busy
<1>3. PICK w \in Plan : plan' = [plan EXCEPT ![r] = w]
  <2>1. NoPlan \in Plan
    BY DEF Plan
  <2>2. plan[r].ask # NoAsk =>
          [pc |-> "add", ask |-> plan[r].ask, left |-> plan[r].left \ {plan[r].queue}, alone |-> plan[r].alone] \in Plan
    BY <1>2 DEF Plan
  <2>3. plan[r].ask # NoAsk => [pc |-> "floor", ask |-> plan[r].ask, alone |-> plan[r].alone] \in Plan
    BY <1>2 DEF Plan
  <2> QED
    BY <2>1, <2>2, <2>3 DEF EndAssign
<1>4. plan' \in [Planners -> Plan]
  BY <1>3, PlanGoes
<1>5. parent' \in [Posts -> Times]
  BY SyncedIsATime DEF EndAssign, CalendarTyped
<1>6. settled' \in SUBSET queues'
  BY DEF EndAssign, CalendarTyped
<1>7. EntriesTyped'
  BY DEF EndAssign, CalendarTyped, EntriesTyped, Held
<1> QED
  BY <1>4, <1>5, <1>6, <1>7 DEF EndAssign, CalendarTyped

\* A request that ends gives its post times of the horizon.
LEMMA FlooredTyped ==
    ASSUME CalendarTyped, NEW a \in Ask
    PROVE  Floored(a) \in [QueueChannels -> Child]
<1>1. a.post \in Posts
  BY AskFields
<1>2. ASSUME NEW c \in QueueChannels
      PROVE  Floored(a)[c] \in Child
  <2>1. PICK S \in SUBSET Moments : S = _next_slot_datetimes(c, Later(a.floor - 1, now))
    BY DEF _next_slot_datetimes
  <2>2. Earliest(S) \in Times
    BY MomentsAreFinite, EarliestIsOne DEF Times
  <2>3. PICK t \in Times, row \in Child : t = Earliest(S) /\ row = child[a.post][c]
    BY <1>1, <2>2 DEF CalendarTyped
  <2>4. [row EXCEPT !.at = t] \in Child
    BY DEF Child
  <2>5. Floored(a)[c] = row \/ Floored(a)[c] = [row EXCEPT !.at = t]
    BY <2>1, <2>3 DEF Floored
  <2> QED
    BY <2>4, <2>5
<1>3. Floored(a) = [c \in QueueChannels |-> Floored(a)[c]]
  BY DEF Floored
<1> HIDE DEF Floored
<1> QED
  BY <1>2, <1>3

\* A request that ends leaves rows that are children, and times.
LEMMA FloorTyped ==
    ASSUME CalendarTyped, NEW r \in Planners, FloorAndSchedule(r)
    PROVE  CalendarTyped'
<1>1. plan[r] \in Plan /\ plan[r].pc = "floor"
  BY DEF FloorAndSchedule, CalendarTyped
<1>2. PICK a \in Ask : a = plan[r].ask
  BY <1>1, PlanFields
<1>3. a.post \in Posts /\ Floored(a) \in [QueueChannels -> Child]
  BY AskFields, FlooredTyped
<1>4. PICK row \in [QueueChannels -> Child] : row = Floored(a)
  BY <1>3
<1>5. child' \in [Posts -> [QueueChannels -> Child]]
  <2>1. \A c \in QueueChannels : row[c] \in Child /\ [row[c] EXCEPT !.status = "scheduled"] \in Child
    BY DEF Child
  <2>2. PICK done \in [QueueChannels -> Child] : done = [c \in QueueChannels |->
           IF row[c].status = "draft" THEN [row[c] EXCEPT !.status = "scheduled"] ELSE row[c]]
    BY <2>1
  <2>3. child' = [child EXCEPT ![a.post] = done]
    BY <1>2, <1>4, <2>2 DEF FloorAndSchedule
  <2> QED
    BY <1>3, <2>3 DEF CalendarTyped
<1>6. parent' \in [Posts -> Times]
  <2>1. parent' = parent \/ parent' = [parent EXCEPT ![a.post] = SyncedParent(a.post, child')]
    BY <1>2 DEF FloorAndSchedule
  <2>2. SyncedParent(a.post, child') \in Times
    BY <1>3, <1>5, SyncedIsATime
  <2> QED
    BY <2>1, <2>2 DEF CalendarTyped
<1>7. plan' \in [Planners -> Plan]
  <2>1. NoPlan \in Plan
    BY DEF Plan
  <2> QED
    BY <2>1, PlanGoes DEF FloorAndSchedule
<1>8. EntriesTyped'
  BY DEF FloorAndSchedule, CalendarTyped, EntriesTyped, Held
<1>9. settled' \in SUBSET queues'
  BY DEF FloorAndSchedule, CalendarTyped
<1> QED
  BY <1>5, <1>6, <1>7, <1>8, <1>9 DEF FloorAndSchedule, CalendarTyped

\* A chip that is dragged has a time.
LEMMA RescheduleTyped ==
    ASSUME CalendarTyped, ReschedulePost
    PROVE  CalendarTyped'
<1>1. PICK p \in Posts, c \in QueueChannels, m \in Moments :
        /\ child' = [child EXCEPT ![p][c] = [status |-> "scheduled", at |-> m]]
        /\ parent' = [parent EXCEPT ![p] = SyncedParent(p, child')]
  BY DEF ReschedulePost
<1>2. child' \in [Posts -> [QueueChannels -> Child]]
  <2>1. [status |-> "scheduled", at |-> m] \in Child
    BY DEF Child, Times
  <2> QED
    BY <1>1, <2>1 DEF CalendarTyped
<1>3. parent' \in [Posts -> Times]
  BY <1>1, <1>2, SyncedIsATime DEF CalendarTyped
<1>4. plan' \in [Planners -> Plan]
  BY MetStays DEF ReschedulePost, CalendarTyped
<1>5. EntriesTyped'
  BY DEF ReschedulePost, CalendarTyped, EntriesTyped, Held
<1> QED
  BY <1>2, <1>3, <1>4, <1>5 DEF ReschedulePost, CalendarTyped

\* The slots, the queues, the engine and time.
LEMMA QuietTyped ==
    ASSUME CalendarTyped,
           \/ \E c \in QueueChannels : \E row : Slots(c, row)
           \/ QueueCreate \/ ConnectChannel \/ Tick \/ UNCHANGED CalendarVars
    PROVE  CalendarTyped'
<1>1. entries' = entries /\ child' = child /\ parent' = parent /\ plan' = plan /\ settled' = settled
  BY DEF Slots, QueueCreate, ConnectChannel, Tick, CalendarVars
<1>2. now' \in Nat /\ plans' \in Nat
  <2>1. now' = now \/ now' = now + 1
    BY DEF Slots, QueueCreate, ConnectChannel, Tick, CalendarVars
  <2>2. plans' = plans \/ plans' = plans + 1
    BY DEF Slots, QueueCreate, ConnectChannel, Tick, CalendarVars
  <2> QED
    BY <2>1, <2>2 DEF CalendarTyped
<1>4. queues' \in SUBSET Queues /\ queues \subseteq queues'
  <2>1. queues' = queues \/ \E q \in Queues : queues' = queues \cup {q}
    BY DEF Slots, QueueCreate, ConnectChannel, Tick, CalendarVars
  <2> QED
    BY <2>1 DEF CalendarTyped
<1>3. EntriesTyped'
  BY <1>1 DEF CalendarTyped, EntriesTyped, Held
<1> QED
  BY <1>1, <1>2, <1>3, <1>4 DEF CalendarTyped

\* A queue that is gone holds nothing.
LEMMA QueueDeleteTyped ==
    ASSUME CalendarTyped, QueueDelete
    PROVE  CalendarTyped'
<1>1. PICK q \in queues :
        /\ queues' = queues \ {q}
        /\ entries' = [entries EXCEPT ![q] = [p \in {} |-> 0]]
        /\ settled' = settled \ {q}
  BY DEF QueueDelete
<1>2. EntriesTyped'
  <2>1. PICK row : row = [p \in {} |-> 0]
    OBVIOUS
  <2>2. DOMAIN row = {}
    BY <2>1
  <2>3. DOMAIN row \subseteq Posts /\ IsFiniteSet(DOMAIN row) /\ \A p \in DOMAIN row : row[p] \in Nat
    BY <2>2, FS_EmptySet
  <2>4. q \in Queues
    BY DEF CalendarTyped
  <2> QED
    BY <1>1, <2>1, <2>3, <2>4, EntriesChange DEF CalendarTyped
<1> QED
  BY <1>1, <1>2 DEF QueueDelete, CalendarTyped

\* A child that is sent keeps its time.
LEMMA SendTyped ==
    ASSUME CalendarTyped, Send
    PROVE  CalendarTyped'
<1>1. PICK p \in Posts, c \in QueueChannels : child' = [child EXCEPT ![p][c].status = "sent"]
  BY DEF Send
<1>2. [child[p][c] EXCEPT !.status = "sent"] \in Child
  BY DEF CalendarTyped, Child
<1>3. child' \in [Posts -> [QueueChannels -> Child]]
  BY <1>1, <1>2 DEF CalendarTyped
<1>4. EntriesTyped'
  BY DEF Send, CalendarTyped, EntriesTyped, Held
<1> QED
  BY <1>3, <1>4 DEF Send, CalendarTyped

\* No step leaves the types.
LEMMA CalendarTypedStep == ASSUME CalendarTyped, [CalendarNext]_CalendarVars PROVE CalendarTyped'
<1>1. ASSUME NEW r \in Planners,
             \/ AddToQueue(r) \/ AddToQueuePriority(r)
      PROVE  CalendarTyped'
  <2>1. \E a \in Ask : AsksFor(r, a)
    <3>1. \A p \in Posts, Q \in _resolve_queues_for_post, b \in BOOLEAN, floor \in {NoTime} \cup Moments :
             [post |-> p, all |-> Q, priority |-> b, floor |-> floor] \in Ask
      BY DEF Ask, _resolve_queues_for_post, CalendarTyped
    <3> QED
      BY <1>1, <3>1 DEF AddToQueue, AddToQueuePriority
  <2> QED
    BY <2>1, AsksForTyped
<1>2. ASSUME NEW r \in Planners,
             \/ ReadPosition(r) \/ SaveEntry(r) \/ ReorderQueue(r) \/ ListEntries(r)
             \/ WriteSlot(r) \/ EndAssign(r) \/ FloorAndSchedule(r)
      PROVE  CalendarTyped'
  BY <1>2, ReadPositionTyped, SaveEntryTyped, ReorderTyped, ListEntriesTyped,
     WriteSlotTyped, EndAssignTyped, FloorTyped
<1>3. CASE ReschedulePost \/ QueueDelete \/ Send
  BY <1>3, RescheduleTyped, QueueDeleteTyped, SendTyped
<1>4. CASE SavePostingSlot \/ DeletePostingSlot \/ TogglePostingSlotDay \/ UpdatePostingSlot
  BY <1>4, QuietTyped DEF SavePostingSlot, DeletePostingSlot, TogglePostingSlotDay, UpdatePostingSlot
<1>5. CASE QueueCreate \/ ConnectChannel \/ Tick \/ UNCHANGED CalendarVars
  BY <1>5, QuietTyped
<1> QED
  BY <1>1, <1>2, <1>3, <1>4, <1>5 DEF CalendarNext

\* A request that opens meets the others, and what was settled is not any more.
LEMMA OpensFits ==
    ASSUME CalendarTyped, CalendarInv, NEW r \in Planners, NEW w, Opens(r, w),
           w.pc \in {"add", "assign"}, \A b \in BOOLEAN : [w EXCEPT !.alone = b] \in Plan,
           \A q, k \in w.left : QueueOf[q] = QueueOf[k] => q = k,
           w.pc # "add" => w.queue \in w.left
    PROVE  CalendarInv'
<1>1. settled' = {}
  BY DEF Opens
<1>2. PICK b \in BOOLEAN : /\ b = (\A u \in Planners \ {r} : plan[u] = NoPlan)
                           /\ plan' = [o \in Planners |-> IF o = r THEN [w EXCEPT !.alone = b] ELSE Met(plan[o])]
  BY DEF Opens
<1>3. PICK v \in Plan : v = [w EXCEPT !.alone = b]
  OBVIOUS
<1>4. v.pc = w.pc /\ v # NoPlan /\ v.pc # "write" /\ v.alone = b
  <2>1. v.pc = w.pc /\ v.pc # "idle"
    BY <1>3
  <2>2. v # NoPlan
    BY <2>1, PlanFields
  <2>3. DOMAIN w = DOMAIN v
    BY <1>3
  <2>4. "alone" \in DOMAIN v
    BY <2>2 DEF Plan
  <2> QED
    BY <1>3, <2>1, <2>2, <2>3, <2>4
<1>5. /\ plan'[r] = v
      /\ \A u \in Planners \ {r} : plan'[u] = Met(plan[u]) /\ plan[u] \in Plan
  BY <1>2, <1>3 DEF CalendarTyped
<1>6. AloneFits'
  <2>1. ASSUME NEW s \in Planners, NEW u \in Planners, s # u, plan'[s] # NoPlan, plan'[u] # NoPlan
        PROVE  ~plan'[s].alone
    <3>1. CASE s = r
      <4>1. plan[u] # NoPlan
        BY <1>5, <2>1, <3>1, MetStays
      <4>2. ~b
        BY <1>2, <2>1, <3>1, <4>1
      <4> QED
        BY <1>4, <1>5, <3>1, <4>2
    <3>2. CASE s # r
      BY <1>5, <2>1, <3>2, MetStays
    <3> QED
      BY <3>1, <3>2
  <2> QED
    BY <1>1, <2>1 DEF AloneFits
<1>7. ASSUME NEW u \in Planners, Busy(plan'[u])
      PROVE  LeftFits(plan[u])'
  <2>1. CASE u = r
    <3>1. v.left = w.left /\ (w.pc # "add" => v.queue = w.queue)
      BY <1>3
    <3> QED
      BY <1>1, <1>4, <1>5, <2>1, <3>1 DEF LeftFits
  <2>2. CASE u # r
    <3>1. PICK o \in Plan : o = plan[u]
      BY <1>5, <2>2
    <3>2. plan'[u] = Met(o) /\ Met(o).pc = o.pc
      BY <1>5, <2>2, <3>1, MetStays
    <3>3. Busy(o)
      BY <1>7, <3>2 DEF Busy
    <3>4. LeftFits(o)
      BY <3>1, <3>3 DEF CalendarInv
    <3>5. Met(o).left = o.left /\ (o.pc # "add" => Met(o).queue = o.queue)
      BY <3>3, MetStays
    <3> QED
      BY <1>1, <3>2, <3>4, <3>5 DEF LeftFits
  <2> QED
    BY <2>1, <2>2
<1>8. ASSUME NEW u \in Planners, plan'[u].pc = "write", plan'[u].alone
      PROVE  WriteFits(plan[u])'
  <2>1. u # r
    BY <1>4, <1>5, <1>8
  <2>2. plan'[u] # NoPlan
    BY <1>8 DEF NoPlan
  <2> QED
    BY <1>5, <1>8, <2>1, <2>2, MetStays
<1>9. QueueOrderIsTimeOrder'
  BY <1>1 DEF QueueOrderIsTimeOrder
<1> QED
  BY <1>6, <1>7, <1>8, <1>9 DEF CalendarInv

\* A drag meets every request.
LEMMA RescheduleFits ==
    ASSUME CalendarTyped, CalendarInv, ReschedulePost
    PROVE  CalendarInv'
<1>1. settled' = {} /\ plan' = [r \in Planners |-> Met(plan[r])] /\ \A r \in Planners : plan[r] \in Plan
  BY DEF ReschedulePost, CalendarTyped
<1>2. \A u \in Planners : plan'[u] # NoPlan => ~plan'[u].alone
  BY <1>1, MetStays
<1>3. AloneFits'
  BY <1>1, <1>2 DEF AloneFits
<1>4. ASSUME NEW u \in Planners, Busy(plan'[u])
      PROVE  LeftFits(plan[u])'
  <2>1. PICK o \in Plan : o = plan[u]
    BY <1>1
  <2>2. plan'[u] = Met(o) /\ Met(o).pc = o.pc
    BY <1>1, <2>1, MetStays
  <2>3. Busy(o)
    BY <1>4, <2>2 DEF Busy
  <2>4. LeftFits(o)
    BY <2>1, <2>3 DEF CalendarInv
  <2>5. Met(o).left = o.left /\ (o.pc # "add" => Met(o).queue = o.queue)
    BY <2>3, MetStays
  <2> QED
    BY <1>1, <2>2, <2>4, <2>5 DEF LeftFits
<1>5. ASSUME NEW u \in Planners, plan'[u].pc = "write", plan'[u].alone
      PROVE  WriteFits(plan[u])'
  <2>1. plan'[u] # NoPlan
    BY <1>5 DEF NoPlan
  <2> QED
    BY <1>2, <1>5, <2>1
<1>6. QueueOrderIsTimeOrder'
  BY <1>1 DEF QueueOrderIsTimeOrder
<1> QED
  BY <1>3, <1>4, <1>5, <1>6 DEF CalendarInv

\* A request that goes on leaves the others as they are: when it is alone there are
\* none, and otherwise none of them is.
LEMMA RequestGoesOn ==
    ASSUME CalendarTyped, CalendarInv, NEW r \in Planners, NEW w \in Plan, plan[r] # NoPlan,
           plan' = [plan EXCEPT ![r] = w], w # NoPlan => w.alone = plan[r].alone,
           settled' \subseteq settled \/ plan[r].alone,
           Busy(w) => LeftFits(w)', w.pc = "write" /\ w.alone => WriteFits(w)',
           QueueOrderIsTimeOrder'
    PROVE  CalendarInv'
<1>1. plan'[r] = w /\ \A u \in Planners \ {r} : plan'[u] = plan[u] /\ plan[u] \in Plan
  BY DEF CalendarTyped
<1>2. \A u \in Planners \ {r} : plan[u] # NoPlan => ~plan[u].alone /\ ~plan[r].alone
  BY DEF CalendarInv, AloneFits
<1>3. AloneFits'
  <2>1. ASSUME NEW s \in Planners, NEW u \in Planners, s # u, plan'[s] # NoPlan, plan'[u] # NoPlan
        PROVE  ~plan'[s].alone
    BY <1>1, <1>2, <2>1 DEF CalendarInv, AloneFits
  <2>2. ASSUME settled' # {}, NEW u \in Planners, plan'[u] # NoPlan
        PROVE  plan'[u].alone
    <3>1. settled # {} \/ plan[r].alone
      BY <2>2
    <3>2. plan[r].alone
      BY <3>1 DEF CalendarInv, AloneFits
    <3> QED
      BY <1>1, <1>2, <2>2, <3>2
  <2> QED
    BY <2>1, <2>2 DEF AloneFits
<1>4. ASSUME NEW u \in Planners, Busy(plan'[u])
      PROVE  LeftFits(plan[u])'
  <2>1. CASE u = r
    <3>1. Busy(w) /\ plan'[u] = w
      BY <1>1, <1>4, <2>1
    <3> QED
      BY <3>1 DEF LeftFits
  <2>2. CASE u # r
    <3>1. plan'[u] = plan[u] /\ LeftFits(plan[u]) /\ plan[u] # NoPlan
      BY <1>1, <1>4, <2>2 DEF CalendarInv, Busy, NoPlan
    <3>2. settled' \subseteq settled
      BY <1>2, <2>2, <3>1
    <3> QED
      BY <3>1, <3>2 DEF LeftFits
  <2> QED
    BY <2>1, <2>2
<1>5. ASSUME NEW u \in Planners, plan'[u].pc = "write", plan'[u].alone
      PROVE  WriteFits(plan[u])'
  <2>1. u = r
    <3>1. plan'[u] # NoPlan
      BY <1>5 DEF NoPlan
    <3> QED
      BY <1>1, <1>2, <1>5, <3>1
  <2>2. w.pc = "write" /\ w.alone /\ plan'[u] = w
    BY <1>1, <1>5, <2>1
  <2> QED
    BY <2>2 DEF WriteFits
<1> QED
  BY <1>3, <1>4, <1>5 DEF CalendarInv

\* The order of a settled queue is kept where its entries and its times are.
LEMMA OrderStays ==
    ASSUME QueueOrderIsTimeOrder,
           \A q \in settled' : /\ q \in settled /\ entries'[q] = entries[q]
                               /\ \A p \in Held(q) :
                                    LET c == QueueOf[q]
                                    IN /\ child'[p][c].at = child[p][c].at
                                       /\ child'[p][c] # NoChild => child[p][c] # NoChild
    PROVE  QueueOrderIsTimeOrder'
<1> SUFFICES ASSUME NEW q \in settled', NEW p \in Held(q)', NEW k \in Held(q)',
                    child'[p][QueueOf[q]] # NoChild, child'[k][QueueOf[q]] # NoChild, p # k
             PROVE  LET at(x) == child'[x][QueueOf[q]].at
                    IN /\ at(p) = at(k) => at(p) = NoTime
                       /\ entries'[q][p] < entries'[q][k] => at(k) = NoTime \/ (at(p) # NoTime /\ at(p) < at(k))
  BY DEF QueueOrderIsTimeOrder
<1>1. q \in settled /\ entries'[q] = entries[q] /\ p \in Held(q) /\ k \in Held(q)
  BY DEF Held
<1>2. PICK c : c = QueueOf[q]
  OBVIOUS
<1>3. PICK a, b : a = child[p][c].at /\ b = child[k][c].at
  OBVIOUS
<1>4. /\ child'[p][c].at = a /\ child'[k][c].at = b
      /\ child[p][c] # NoChild /\ child[k][c] # NoChild
  BY <1>1, <1>2, <1>3
<1>5. /\ a = b => a = NoTime
      /\ entries[q][p] < entries[q][k] => b = NoTime \/ (a # NoTime /\ a < b)
  BY <1>1, <1>2, <1>3, <1>4 DEF QueueOrderIsTimeOrder
<1> QED
  BY <1>1, <1>2, <1>4, <1>5

\* A queue that a request has still to come to is not settled.
LEMMA LeftIsNotSettled ==
    ASSUME CalendarTyped, CalendarInv, NEW r \in Planners, Busy(plan[r]), NEW q \in plan[r].left
    PROVE  \A k \in settled : k # q /\ QueueOf[k] # QueueOf[q]
  BY DEF CalendarInv, LeftFits

\* A request of the composer comes to queues of different channels.
LEMMA AsksForFits ==
    ASSUME CalendarTyped, CalendarInv, NEW r \in Planners, NEW a \in Ask, AsksFor(r, a),
           \A q, k \in a.all : QueueOf[q] = QueueOf[k] => q = k
    PROVE  CalendarInv'
<1>1. PICK w : w = [pc |-> "add", ask |-> a, left |-> a.all, alone |-> TRUE]
  OBVIOUS
<1>2. ASSUME NEW b \in BOOLEAN
      PROVE  [w EXCEPT !.alone = b] \in Plan
  <2>1. [w EXCEPT !.alone = b] = [pc |-> "add", ask |-> a, left |-> a.all, alone |-> b]
    BY <1>1
  <2>2. [pc |-> "add", ask |-> a, left |-> a.all, alone |-> b] \in Plan
    BY AskFields DEF Plan
  <2> QED
    BY <2>1, <2>2
<1>3. Opens(r, w) /\ w.pc = "add" /\ w.left = a.all
  BY <1>1 DEF AsksFor
<1>4. w.pc \in {"add", "assign"} /\ w.pc = "add" /\ \A q, k \in w.left : QueueOf[q] = QueueOf[k] => q = k
  BY <1>3
<1> QED
  BY <1>2, <1>3, <1>4, OpensFits

\* A new order of a queue is a request for that queue.
LEMMA ReorderFits ==
    ASSUME CalendarTyped, CalendarInv, NEW r \in Planners, ReorderQueue(r)
    PROVE  CalendarInv'
<1>1. PICK q \in Queues : Opens(r, [pc |-> "assign", ask |-> NoAsk, left |-> {q}, alone |-> TRUE, queue |-> q])
  BY DEF ReorderQueue, CalendarTyped
<1>2. PICK w : w = [pc |-> "assign", ask |-> NoAsk, left |-> {q}, alone |-> TRUE, queue |-> q]
  OBVIOUS
<1>3. ASSUME NEW b \in BOOLEAN
      PROVE  [w EXCEPT !.alone = b] \in Plan
  <2>1. [w EXCEPT !.alone = b] = [pc |-> "assign", ask |-> NoAsk, left |-> {q}, alone |-> b, queue |-> q]
    BY <1>2
  <2>2. [pc |-> "assign", ask |-> NoAsk, left |-> {q}, alone |-> b, queue |-> q] \in Plan
    BY DEF Plan
  <2> QED
    BY <2>1, <2>2
<1>4. Opens(r, w) /\ w.pc \in {"add", "assign"} /\ w.left = {q} /\ w.queue = q
  BY <1>1, <1>2
<1>5. (\A k, l \in w.left : QueueOf[k] = QueueOf[l] => k = l) /\ w.queue \in w.left
  BY <1>4
<1> QED
  BY <1>3, <1>4, <1>5, OpensFits

\* Positions that are read or given up are of a queue that is not settled.
LEMMA ReadPositionFits ==
    ASSUME CalendarTyped, CalendarInv, NEW r \in Planners, ReadPosition(r), plan' \in [Planners -> Plan]
    PROVE  CalendarInv'
<1>1. plan[r] \in Plan /\ plan[r].pc = "add" /\ plan[r] # NoPlan /\ Busy(plan[r])
  BY DEF ReadPosition, CalendarTyped, Busy, NoPlan
<1>2. PICK q \in plan[r].left :
         IF q \in queues
         THEN /\ plan' = [plan EXCEPT ![r] =
                   [pc |-> "entry", ask |-> plan[r].ask, left |-> plan[r].left, alone |-> plan[r].alone, queue |-> q,
                    position |-> IF plan[r].ask.priority THEN 0 ELSE Largest(Positions(q)) + 1]]
              /\ entries' = IF plan[r].ask.priority
                            THEN [entries EXCEPT ![q] = [p \in Held(q) |-> @[p] + 1]] ELSE entries
         ELSE plan' = [plan EXCEPT ![r] = NoPlan] /\ UNCHANGED entries
  BY DEF ReadPosition
<1>3. child' = child /\ settled' = settled
  BY DEF ReadPosition
<1>4. QueueOrderIsTimeOrder'
  <2>1. ASSUME NEW k \in settled
        PROVE  entries'[k] = entries[k]
    <3>1. k # q /\ k \in Queues
      BY <1>1, LeftIsNotSettled DEF CalendarTyped
    <3> QED
      BY <1>2, <3>1 DEF CalendarTyped, EntriesTyped
  <2> QED
    BY <1>3, <2>1, OrderStays DEF CalendarInv
<1>5. LeftFits(plan[r])
  BY <1>1 DEF CalendarInv
<1>6. CASE q \in queues
  <2>1. PICK w : w = [pc |-> "entry", ask |-> plan[r].ask, left |-> plan[r].left, alone |-> plan[r].alone, queue |-> q,
                      position |-> IF plan[r].ask.priority THEN 0 ELSE Largest(Positions(q)) + 1]
    OBVIOUS
  <2>2. w.pc = "entry" /\ w.left = plan[r].left /\ w.alone = plan[r].alone /\ w.queue = q
    BY <2>1
  <2>3. plan' = [plan EXCEPT ![r] = w] /\ w \in Plan
    BY <1>2, <1>6, <2>1 DEF CalendarTyped
  <2>4. LeftFits(w)'
    BY <1>3, <1>5, <2>2 DEF LeftFits
  <2> QED
    BY <1>1, <1>3, <1>4, <2>2, <2>3, <2>4, RequestGoesOn
<1>7. CASE q \notin queues
  <2>1. NoPlan \in Plan /\ plan' = [plan EXCEPT ![r] = NoPlan] /\ NoPlan.pc = "idle" /\ ~Busy(NoPlan)
    BY <1>2, <1>7 DEF Plan, NoPlan, Busy
  <2> QED
    BY <1>1, <1>3, <1>4, <2>1, RequestGoesOn
<1> QED
  BY <1>6, <1>7

\* So is the entry that is saved.
LEMMA SaveEntryFits ==
    ASSUME CalendarTyped, CalendarInv, NEW r \in Planners, SaveEntry(r), plan' \in [Planners -> Plan]
    PROVE  CalendarInv'
<1>1. plan[r] \in Plan /\ plan[r].pc = "entry" /\ plan[r] # NoPlan /\ Busy(plan[r])
  BY DEF SaveEntry, CalendarTyped, Busy, NoPlan
<1>2. LeftFits(plan[r]) /\ plan[r].queue \in plan[r].left
  BY <1>1 DEF CalendarInv, LeftFits
<1>3. PICK q : q = plan[r].queue
  OBVIOUS
<1>4. child' = child /\ settled' = settled
  BY DEF SaveEntry
<1>5. QueueOrderIsTimeOrder'
  <2>1. ASSUME NEW k \in settled
        PROVE  entries'[k] = entries[k]
    <3>1. k # q /\ k \in Queues
      BY <1>1, <1>2, <1>3, LeftIsNotSettled DEF CalendarTyped
    <3>2. \/ entries' = entries
          \/ \E row : entries' = [entries EXCEPT ![q] = row]
      BY <1>3 DEF SaveEntry
    <3> QED
      BY <3>1, <3>2 DEF CalendarTyped, EntriesTyped
  <2> QED
    BY <1>4, <2>1, OrderStays DEF CalendarInv
<1>6. CASE q \in queues
  <2>1. PICK w : w = Assigning(plan[r], q)
    OBVIOUS
  <2>2. w.pc = "assign" /\ w.left = plan[r].left /\ w.alone = plan[r].alone /\ w.queue = q
    BY <2>1 DEF Assigning
  <2>3. plan' = [plan EXCEPT ![r] = w] /\ w \in Plan
    BY <1>3, <1>6, <2>1 DEF CalendarTyped, SaveEntry
  <2>4. LeftFits(w)'
    BY <1>2, <1>3, <1>4, <2>2 DEF LeftFits
  <2> QED
    BY <1>1, <1>4, <1>5, <2>2, <2>3, <2>4, RequestGoesOn
<1>7. CASE q \notin queues
  <2>1. NoPlan \in Plan /\ plan' = [plan EXCEPT ![r] = NoPlan] /\ NoPlan.pc = "idle" /\ ~Busy(NoPlan)
    BY <1>3, <1>7 DEF Plan, NoPlan, Busy, SaveEntry
  <2> QED
    BY <1>1, <1>4, <1>5, <2>1, RequestGoesOn
<1> QED
  BY <1>6, <1>7

\* The entries are listed as they are, and no slot is written.
LEMMA ListEntriesFits ==
    ASSUME CalendarTyped, CalendarInv, NEW r \in Planners, ListEntries(r), plan' \in [Planners -> Plan]
    PROVE  CalendarInv'
<1>1. plan[r] \in Plan /\ plan[r].pc = "assign" /\ plan[r] # NoPlan /\ Busy(plan[r])
  BY DEF ListEntries, CalendarTyped, Busy, NoPlan
<1>2. LeftFits(plan[r])
  BY <1>1 DEF CalendarInv
<1>3. PICK q \in Queues : q = plan[r].queue
  BY <1>1, PlanFields
<1>4. PICK order \in Orders(q) :
         plan' = [plan EXCEPT ![r] =
           [pc |-> "write", ask |-> plan[r].ask, left |-> plan[r].left, alone |-> plan[r].alone,
            queue |-> q, order |-> order, index |-> 1,
            slots |-> _next_slot_datetimes(QueueOf[q], now)]]
  BY <1>3 DEF ListEntries
<1>5. PICK w : w = [pc |-> "write", ask |-> plan[r].ask, left |-> plan[r].left, alone |-> plan[r].alone,
                    queue |-> q, order |-> order, index |-> 1,
                    slots |-> _next_slot_datetimes(QueueOf[q], now)]
  OBVIOUS
<1>6. /\ w.pc = "write" /\ w.left = plan[r].left /\ w.alone = plan[r].alone /\ w.queue = q
      /\ w.order = order /\ w.index = 1
  BY <1>5
<1>7. plan' = [plan EXCEPT ![r] = w] /\ w \in Plan
  BY <1>4, <1>5 DEF CalendarTyped
<1>8. child' = child /\ settled' = settled /\ entries' = entries
  BY DEF ListEntries
<1>9. LeftFits(w)'
  BY <1>1, <1>2, <1>3, <1>6, <1>8 DEF LeftFits
<1>10. WriteFits(w)'
  <2>1. /\ order \in Lists /\ Range(order) = Held(q)
        /\ \A i, j \in DOMAIN order : i < j => entries[q][order[i]] <= entries[q][order[j]]
        /\ \A i, j \in DOMAIN order : order[i] = order[j] => i = j
    BY OrdersAreLists
  <2>2. \A i \in DOMAIN order : ~(i < 1)
    BY <2>1, ListFields
  <2>3. Held(q)' = Held(q)
    BY <1>8 DEF Held
  <2> QED
    BY <1>6, <1>8, <2>1, <2>2, <2>3 DEF WriteFits
<1>11. QueueOrderIsTimeOrder'
  BY <1>8, OrderStays DEF CalendarInv
<1> QED
  BY <1>1, <1>6, <1>7, <1>8, <1>9, <1>10, <1>11, RequestGoesOn

\* The next post of the list is given the next slot, and no settled queue is of its channel.
LEMMA WriteSlotFits ==
    ASSUME CalendarTyped, CalendarInv, NEW r \in Planners, WriteSlot(r)
    PROVE  CalendarInv'
<1>1. plan[r] \in Plan /\ plan[r].pc = "write" /\ plan[r] # NoPlan /\ Busy(plan[r])
  BY DEF WriteSlot, CalendarTyped, Busy, NoPlan
<1>2. LeftFits(plan[r]) /\ plan[r].queue \in plan[r].left
  BY <1>1 DEF CalendarInv, LeftFits
<1>3. PICK q \in Queues : q = plan[r].queue
  BY <1>1, PlanFields
<1>4. PICK order \in Lists, n \in Nat \ {0}, S \in SUBSET Moments :
        order = plan[r].order /\ n = plan[r].index /\ S = plan[r].slots
  BY <1>1, PlanFields
<1>5. PICK p \in Posts, c \in QueueChannels : n \in DOMAIN order /\ p = order[n] /\ c = QueueOf[q]
  BY <1>3, <1>4, WriteSlotFields
<1>6. PICK t \in Times : t = SlotOf(S, n)
  BY SlotIsATime
<1>7. entries' = entries /\ settled' = settled
  BY DEF WriteSlot
<1>8. child' = child \/ child' = [child EXCEPT ![p][c].at = t]
  BY <1>3, <1>4, <1>5, <1>6 DEF WriteSlot
<1>9. child \in [Posts -> [QueueChannels -> Child]]
  BY DEF CalendarTyped
<1>10. QueueOrderIsTimeOrder'
  <2>1. ASSUME NEW k \in settled, NEW x \in Held(k)
        PROVE  child'[x][QueueOf[k]] = child[x][QueueOf[k]]
    <3>1. QueueOf[k] # c /\ k \in Queues
      BY <1>1, <1>2, <1>3, <1>5, LeftIsNotSettled DEF CalendarTyped
    <3>2. x \in Posts /\ QueueOf[k] \in QueueChannels
      BY <3>1, CalendarAssumption DEF CalendarTyped, EntriesTyped
    <3> QED
      BY <1>8, <1>9, <3>1, <3>2
  <2> QED
    BY <1>7, <2>1, OrderStays DEF CalendarInv
<1>11. CASE q \in queues
  <2>1. PICK w \in Plan : w = [plan[r] EXCEPT !.index = @ + 1]
    BY WriteSlotFields
  <2>2. /\ w.pc = "write" /\ w.left = plan[r].left /\ w.alone = plan[r].alone /\ w.queue = q
        /\ w.order = order /\ w.index = n + 1 /\ w.slots = S
    BY <1>1, <1>3, <1>4, <2>1 DEF Plan, NoPlan
  <2>3. plan' = [plan EXCEPT ![r] = w]
    BY <1>3, <1>11, <2>1 DEF WriteSlot, CalendarTyped
  <2>4. LeftFits(w)'
    BY <1>1, <1>2, <1>3, <1>7, <2>2 DEF LeftFits
  <2>5. ASSUME w.alone
        PROVE  WriteFits(w)'
    <3>1. WriteFits(plan[r])
      BY <1>1, <2>2, <2>5 DEF CalendarInv
    <3>2. /\ Held(q) \subseteq Range(order)
          /\ \A i, j \in {i \in DOMAIN order : order[i] \in Held(q)} :
                i < j => entries[q][order[i]] <= entries[q][order[j]]
          /\ \A i, j \in DOMAIN order : order[i] = order[j] => i = j
          /\ \A i \in DOMAIN order : i < n /\ child[order[i]][c] # NoChild => child[order[i]][c].at = SlotOf(S, i)
      BY <1>3, <1>4, <1>5, <3>1 DEF WriteFits
    <3>3. ASSUME NEW i \in DOMAIN order, i < n + 1, child'[order[i]][c] # NoChild
          PROVE  child'[order[i]][c].at = SlotOf(S, i)
      <4>1. i \in Nat /\ order[i] \in Posts
        BY ListFields
      <4>2. CASE i = n
        <5>1. CASE child[p][c] = NoChild
          <6>1. child' = child
            BY <1>3, <1>4, <1>5, <1>11, <5>1 DEF WriteSlot
          <6> QED
            BY <1>5, <3>3, <4>2, <5>1, <6>1
        <5>2. CASE child[p][c] # NoChild
          <6>1. child' = [child EXCEPT ![p][c].at = t]
            BY <1>3, <1>4, <1>5, <1>6, <1>11, <5>2 DEF WriteSlot
          <6>2. child'[p][c] = [child[p][c] EXCEPT !.at = t]
            BY <1>9, <6>1
          <6>3. child[p][c] \in Child
            BY <1>9
          <6>4. child'[p][c].at = t
            BY <6>2, <6>3 DEF Child
          <6> QED
            BY <1>5, <1>6, <4>2, <6>4
        <5> QED
          BY <5>1, <5>2
      <4>3. CASE i # n
        <5>1. order[i] # p /\ i < n
          BY <1>5, <3>2, <3>3, <4>1, <4>3
        <5>2. child'[order[i]] = child[order[i]]
          BY <1>8, <1>9, <4>1, <5>1
        <5> QED
          BY <3>2, <3>3, <5>1, <5>2
      <4> QED
        BY <4>2, <4>3
    <3>4. Held(q)' = Held(q)
      BY <1>7 DEF Held
    <3> QED
      BY <1>5, <1>7, <2>2, <3>2, <3>3, <3>4 DEF WriteFits
  <2> QED
    BY <1>1, <1>7, <1>10, <2>2, <2>3, <2>4, <2>5, RequestGoesOn
<1>12. CASE q \notin queues
  <2>1. NoPlan \in Plan /\ plan' = [plan EXCEPT ![r] = NoPlan] /\ NoPlan.pc = "idle" /\ ~Busy(NoPlan)
    BY <1>3, <1>12 DEF Plan, NoPlan, Busy, WriteSlot
  <2> QED
    BY <1>1, <1>7, <1>10, <2>1, RequestGoesOn
<1> QED
  BY <1>11, <1>12

\* When every post of the list has been given its slot, the queue is in the order of its times.
LEMMA WrittenIsInOrder ==
    ASSUME CalendarTyped, NEW w \in Plan, w.pc = "write", w.index \notin DOMAIN w.order, WriteFits(w),
           NEW p \in Held(w.queue), NEW k \in Held(w.queue), p # k,
           child[p][QueueOf[w.queue]] # NoChild, child[k][QueueOf[w.queue]] # NoChild
    PROVE  LET at(x) == child[x][QueueOf[w.queue]].at
           IN /\ at(p) = at(k) => at(p) = NoTime
              /\ entries[w.queue][p] < entries[w.queue][k] => at(k) = NoTime \/ (at(p) # NoTime /\ at(p) < at(k))
<1>1. PICK q \in Queues, order \in Lists, n \in Nat \ {0}, S \in SUBSET Moments :
        q = w.queue /\ order = w.order /\ n = w.index /\ S = w.slots
  BY PlanFields DEF Busy
<1>2. PICK c : c = QueueOf[q]
  OBVIOUS
<1>3. \A i \in DOMAIN order : i \in Nat \ {0} /\ i < n
  BY <1>1, ListFields
<1>4. /\ Held(q) \subseteq Range(order)
      /\ \A i, j \in {i \in DOMAIN order : order[i] \in Held(q)} :
            i < j => entries[q][order[i]] <= entries[q][order[j]]
      /\ \A i \in DOMAIN order : i < n /\ child[order[i]][c] # NoChild => child[order[i]][c].at = SlotOf(S, i)
  BY <1>1, <1>2 DEF WriteFits
<1>5. PICK i \in DOMAIN order, j \in DOMAIN order : order[i] = p /\ order[j] = k
  BY <1>1, <1>4 DEF Range
<1>6. PICK a \in Times, b \in Times : a = SlotOf(S, i) /\ b = SlotOf(S, j)
  BY SlotIsATime
<1>7. child[p][c].at = a /\ child[k][c].at = b
  BY <1>1, <1>2, <1>3, <1>4, <1>5, <1>6
<1>8. i \in Nat \ {0} /\ j \in Nat \ {0} /\ i # j
  BY <1>3, <1>5
<1>9. PICK e \in Nat, f \in Nat : e = entries[q][p] /\ f = entries[q][k]
  BY <1>1 DEF CalendarTyped, EntriesTyped
<1>10. (i < j => e <= f) /\ (j < i => f <= e)
  BY <1>1, <1>4, <1>5, <1>9
<1>11. a \in Nat /\ b \in Nat
  BY MomentsAreFinite DEF Times, NoTime
<1>12. /\ i < j => b = NoTime \/ (a # NoTime /\ a < b)
       /\ j < i => a = NoTime \/ (b # NoTime /\ b < a)
  <2>1. S \subseteq Nat /\ NoTime \notin S /\ IsFiniteSet(S)
    BY MomentsAreFinite
  <2> QED
    BY <1>6, <1>8, <2>1, NthInOrder DEF SlotOf
<1>13. /\ a = b => a = NoTime
       /\ e < f => b = NoTime \/ (a # NoTime /\ a < b)
  BY <1>8, <1>10, <1>11, <1>12
<1> QED
  BY <1>1, <1>2, <1>7, <1>9, <1>13

\* A queue whose recalculation met no other request is in the order of its times.
LEMMA EndAssignFits ==
    ASSUME CalendarTyped, CalendarInv, NEW r \in Planners, EndAssign(r), plan' \in [Planners -> Plan]
    PROVE  CalendarInv'
<1>1. plan[r] \in Plan /\ plan[r].pc = "write" /\ plan[r] # NoPlan /\ Busy(plan[r]) /\ plan[r].index \notin DOMAIN plan[r].order
  BY DEF EndAssign, CalendarTyped, Busy, NoPlan
<1>2. LeftFits(plan[r])
  BY <1>1 DEF CalendarInv
<1>3. PICK q \in Queues : q = plan[r].queue
  BY <1>1, PlanFields
<1>4. entries' = entries /\ child' = child
  BY DEF EndAssign
<1>5. settled' = settled \/ (plan[r].alone /\ settled' = settled \cup {q})
  BY <1>3 DEF EndAssign
<1>6. QueueOrderIsTimeOrder'
  <2> SUFFICES ASSUME NEW k \in settled', NEW x \in Held(k), NEW y \in Held(k),
                      child[x][QueueOf[k]] # NoChild, child[y][QueueOf[k]] # NoChild, x # y
               PROVE  LET at(z) == child[z][QueueOf[k]].at
                      IN /\ at(x) = at(y) => at(x) = NoTime
                         /\ entries[k][x] < entries[k][y] => at(y) = NoTime \/ (at(x) # NoTime /\ at(x) < at(y))
    BY <1>4 DEF QueueOrderIsTimeOrder, Held
  <2>1. CASE k \in settled
    BY <2>1 DEF CalendarInv, QueueOrderIsTimeOrder
  <2>2. CASE k \notin settled
    <3>1. k = plan[r].queue /\ plan[r].alone
      BY <1>3, <1>5, <2>2
    <3>2. WriteFits(plan[r])
      BY <1>1, <3>1 DEF CalendarInv
    <3> QED
      BY <1>1, <3>1, <3>2, WrittenIsInOrder
  <2> QED
    BY <2>1, <2>2
<1>7. ASSUME NEW w \in Plan, plan' = [plan EXCEPT ![r] = w], w.pc # "write",
             w # NoPlan => w.alone = plan[r].alone, Busy(w) => LeftFits(w)'
      PROVE  CalendarInv'
  <2>1. settled' \subseteq settled \/ plan[r].alone
    BY <1>5
  <2> QED
    BY <1>1, <1>6, <1>7, <2>1, RequestGoesOn
<1>8. CASE plan[r].ask = NoAsk
  <2>1. NoPlan \in Plan /\ plan' = [plan EXCEPT ![r] = NoPlan] /\ NoPlan.pc = "idle" /\ ~Busy(NoPlan)
    BY <1>8 DEF Plan, NoPlan, Busy, EndAssign
  <2> QED
    BY <1>7, <2>1
<1>9. CASE plan[r].ask # NoAsk /\ plan[r].left \ {plan[r].queue} # {}
  <2>1. PICK w : w = [pc |-> "add", ask |-> plan[r].ask, left |-> plan[r].left \ {q}, alone |-> plan[r].alone]
    OBVIOUS
  <2>2. w.pc = "add" /\ w.left = plan[r].left \ {q} /\ w.alone = plan[r].alone
    BY <2>1
  <2>3. plan' = [plan EXCEPT ![r] = w] /\ w \in Plan
    BY <1>3, <1>9, <2>1 DEF EndAssign, CalendarTyped
  <2>4. LeftFits(w)'
    <3>1. q \in plan[r].left
      BY <1>1, <1>2, <1>3 DEF LeftFits
    <3>2. \A k \in w.left : QueueOf[k] # QueueOf[q]
      BY <1>2, <2>2, <3>1 DEF LeftFits
    <3> QED
      BY <1>2, <1>5, <2>2, <3>2 DEF LeftFits
  <2> QED
    BY <1>7, <2>2, <2>3, <2>4
<1>10. CASE plan[r].ask # NoAsk /\ plan[r].left \ {plan[r].queue} = {}
  <2>1. PICK w : w = [pc |-> "floor", ask |-> plan[r].ask, alone |-> plan[r].alone]
    OBVIOUS
  <2>2. w.pc = "floor" /\ w.alone = plan[r].alone /\ ~Busy(w)
    BY <2>1 DEF Busy
  <2>3. plan' = [plan EXCEPT ![r] = w] /\ w \in Plan
    BY <1>10, <2>1 DEF EndAssign, CalendarTyped
  <2> QED
    BY <1>7, <2>2, <2>3
<1> QED
  BY <1>8, <1>9, <1>10

\* Where times and entries stay, what a request has written is as it was.
LEMMA WritesStay ==
    ASSUME CalendarInv, plan' = plan, settled' \subseteq settled, entries' = entries,
           child \in [Posts -> [QueueChannels -> Child]],
           \A p \in Posts, c \in QueueChannels :
              /\ child'[p][c].at = child[p][c].at
              /\ child'[p][c] # NoChild => child[p][c] # NoChild,
           CalendarTyped
    PROVE  CalendarInv'
<1>1. AloneFits' /\ \A r \in Planners : Busy(plan[r])' => LeftFits(plan[r])'
  BY DEF CalendarInv, AloneFits, LeftFits, Busy
<1>2. ASSUME NEW r \in Planners, plan[r].pc = "write", plan[r].alone
      PROVE  WriteFits(plan[r])'
  <2>1. WriteFits(plan[r])
    BY <1>2 DEF CalendarInv
  <2>2. PICK q \in Queues, order \in Lists : q = plan[r].queue /\ order = plan[r].order
    BY <1>2, PlanFields DEF CalendarTyped, Busy
  <2>3. QueueOf[q] \in QueueChannels /\ \A i \in DOMAIN order : order[i] \in Posts
    BY CalendarAssumption, ListFields
  <2>4. Held(q)' = Held(q)
    BY DEF Held
  <2> QED
    BY <2>1, <2>2, <2>3, <2>4 DEF WriteFits
<1>3. QueueOrderIsTimeOrder'
  <2>1. ASSUME NEW q \in settled, NEW p \in Held(q)
        PROVE  p \in Posts /\ QueueOf[q] \in QueueChannels
    BY CalendarAssumption DEF CalendarTyped, EntriesTyped
  <2> QED
    BY <2>1, OrderStays DEF CalendarInv
<1> QED
  BY <1>1, <1>2, <1>3 DEF CalendarInv

\* A request that puts no post on a day leaves the times as they are.
LEMMA FloorFits ==
    ASSUME CalendarTyped, CalendarInv, NEW r \in Planners, FloorAndSchedule(r)
    PROVE  CalendarInv'
<1>1. plan[r] \in Plan /\ plan[r].pc = "floor" /\ plan[r] # NoPlan
  BY DEF FloorAndSchedule, CalendarTyped, NoPlan
<1>2. PICK a \in Ask : a = plan[r].ask
  BY <1>1, PlanFields
<1>3. a.post \in Posts
  BY AskFields
<1>4. entries' = entries /\ settled' \in {settled, {}}
  BY DEF FloorAndSchedule
<1>5. QueueOrderIsTimeOrder'
  <2>1. CASE a.floor # NoTime
    BY <1>2, <2>1 DEF FloorAndSchedule, QueueOrderIsTimeOrder
  <2>2. CASE a.floor = NoTime
    <3>1. child' = [child EXCEPT ![a.post] = [c \in QueueChannels |->
                      IF child[a.post][c].status = "draft" THEN [child[a.post][c] EXCEPT !.status = "scheduled"]
                      ELSE child[a.post][c]]]
      BY <1>2, <2>2 DEF FloorAndSchedule, Floored
    <3>2. ASSUME NEW p \in Posts, NEW c \in QueueChannels
          PROVE  /\ child'[p][c].at = child[p][c].at
                 /\ child'[p][c] # NoChild => child[p][c] # NoChild
      <4>1. PICK row \in Child : row = child[p][c]
        BY DEF CalendarTyped
      <4>2. child'[p][c] = row \/ (row.status = "draft" /\ child'[p][c] = [row EXCEPT !.status = "scheduled"])
        BY <1>3, <3>1, <4>1 DEF CalendarTyped
      <4>3. [row EXCEPT !.status = "scheduled"].at = row.at
        BY DEF Child
      <4>4. row.status = "draft" => row # NoChild
        BY DEF NoChild
      <4> QED
        BY <4>1, <4>2, <4>3, <4>4
    <3>3. ASSUME NEW q \in settled, NEW p \in Held(q)
          PROVE  p \in Posts /\ QueueOf[q] \in QueueChannels
      BY CalendarAssumption DEF CalendarTyped, EntriesTyped
    <3> QED
      BY <1>4, <3>2, <3>3, OrderStays DEF CalendarInv
  <2> QED
    BY <2>1, <2>2
<1>6. NoPlan \in Plan /\ plan' = [plan EXCEPT ![r] = NoPlan] /\ NoPlan.pc = "idle" /\ ~Busy(NoPlan)
  BY DEF Plan, NoPlan, Busy, FloorAndSchedule
<1>7. settled' \subseteq settled
  BY <1>4
<1> QED
  BY <1>1, <1>5, <1>6, <1>7, RequestGoesOn

\* A post that goes out keeps its time.
LEMMA SendFits ==
    ASSUME CalendarTyped, CalendarInv, Send
    PROVE  CalendarInv'
<1>1. PICK p \in Posts, c \in QueueChannels :
        child[p][c].status = "scheduled" /\ child' = [child EXCEPT ![p][c].status = "sent"]
  BY DEF Send
<1>2. child \in [Posts -> [QueueChannels -> Child]]
  BY DEF CalendarTyped
<1>3. ASSUME NEW x \in Posts, NEW d \in QueueChannels
      PROVE  /\ child'[x][d].at = child[x][d].at
             /\ child'[x][d] # NoChild => child[x][d] # NoChild
  <2>1. CASE x = p /\ d = c
    <3>1. PICK row \in Child : row = child[p][c]
      BY <1>2
    <3>2. child'[p][c] = [row EXCEPT !.status = "sent"]
      BY <1>1, <1>2, <3>1
    <3>3. [row EXCEPT !.status = "sent"].at = row.at /\ row # NoChild
      BY <1>1, <3>1 DEF Child, NoChild
    <3> QED
      BY <2>1, <3>1, <3>2, <3>3
  <2>2. CASE ~(x = p /\ d = c)
    BY <1>1, <1>2, <2>2
  <2> QED
    BY <2>1, <2>2
<1> QED
  BY <1>2, <1>3, WritesStay DEF Send

\* A queue that is gone is not settled, and a request that was to fill it has nothing to write.
LEMMA QueueDeleteFits ==
    ASSUME CalendarTyped, CalendarInv, QueueDelete
    PROVE  CalendarInv'
<1>1. PICK q \in queues :
        /\ entries' = [entries EXCEPT ![q] = [p \in {} |-> 0]]
        /\ settled' = settled \ {q}
  BY DEF QueueDelete
<1>2. child' = child /\ plan' = plan
  BY DEF QueueDelete
<1>3. DOMAIN entries = Queues /\ q \in Queues
  BY DEF CalendarTyped, EntriesTyped
<1>4. \A k \in Queues : k = q \/ entries'[k] = entries[k]
  BY <1>1, <1>3
<1>5. DOMAIN entries'[q] = {}
  BY <1>1, <1>3
<1>6. AloneFits' /\ \A r \in Planners : Busy(plan[r])' => LeftFits(plan[r])'
  BY <1>1, <1>2 DEF CalendarInv, AloneFits, LeftFits, Busy
<1>7. ASSUME NEW r \in Planners, plan[r].pc = "write", plan[r].alone
      PROVE  WriteFits(plan[r])'
  <2>1. WriteFits(plan[r])
    BY <1>7 DEF CalendarInv
  <2>2. PICK k \in Queues : k = plan[r].queue
    BY <1>7, PlanFields DEF CalendarTyped, Busy
  <2>3. CASE k = q
    BY <1>2, <1>5, <2>1, <2>2, <2>3 DEF WriteFits, Held
  <2>4. CASE k # q
    BY <1>2, <1>4, <2>1, <2>2, <2>4 DEF WriteFits, Held
  <2> QED
    BY <2>3, <2>4
<1>8. QueueOrderIsTimeOrder'
  <2>1. ASSUME NEW k \in settled'
        PROVE  k \in settled /\ entries'[k] = entries[k]
    BY <1>1, <1>4 DEF CalendarTyped
  <2> QED
    BY <1>2, <2>1, OrderStays DEF CalendarInv
<1> QED
  BY <1>2, <1>6, <1>7, <1>8 DEF CalendarInv

\* No step breaks the invariant.
LEMMA CalendarInvStep ==
    ASSUME CalendarTyped, CalendarInv, [CalendarNext]_CalendarVars
    PROVE  CalendarInv'
<1>0. plan' \in [Planners -> Plan]
  BY CalendarTypedStep DEF CalendarTyped
<1>1. ASSUME NEW r \in Planners,
             \/ AddToQueue(r) \/ AddToQueuePriority(r)
      PROVE  CalendarInv'
  <2>1. \E a \in Ask : AsksFor(r, a) /\ \A q, k \in a.all : QueueOf[q] = QueueOf[k] => q = k
    <3>1. \A Q \in _resolve_queues_for_post :
             Q \in SUBSET Queues /\ \A q, k \in Q : QueueOf[q] = QueueOf[k] => q = k
      BY DEF _resolve_queues_for_post, CalendarTyped
    <3>2. CASE AddToQueue(r)
      <4>1. PICK p \in Posts, Q \in _resolve_queues_for_post, floor \in {NoTime} \cup Moments :
              AsksFor(r, [post |-> p, all |-> Q, priority |-> FALSE, floor |-> floor])
        BY <3>2 DEF AddToQueue
      <4>2. PICK a : a = [post |-> p, all |-> Q, priority |-> FALSE, floor |-> floor]
        OBVIOUS
      <4>3. AsksFor(r, a)
        BY <4>1, <4>2
      <4>4. a \in Ask
        BY <3>1, <4>2 DEF Ask
      <4>5. a.all = Q
        BY <4>2
      <4> QED
        BY <3>1, <4>3, <4>4, <4>5
    <3>3. CASE AddToQueuePriority(r)
      <4>1. PICK p \in Posts, Q \in _resolve_queues_for_post :
              AsksFor(r, [post |-> p, all |-> Q, priority |-> TRUE, floor |-> NoTime])
        BY <3>3 DEF AddToQueuePriority
      <4>2. PICK a : a = [post |-> p, all |-> Q, priority |-> TRUE, floor |-> NoTime]
        OBVIOUS
      <4>3. AsksFor(r, a)
        BY <4>1, <4>2
      <4>4. a \in Ask
        BY <3>1, <4>2 DEF Ask
      <4>5. a.all = Q
        BY <4>2
      <4> QED
        BY <3>1, <4>3, <4>4, <4>5
    <3> QED
      BY <1>1, <3>2, <3>3
  <2> QED
    BY <2>1, AsksForFits
<1>2. ASSUME NEW r \in Planners,
             \/ ReadPosition(r) \/ SaveEntry(r) \/ ReorderQueue(r) \/ ListEntries(r)
             \/ WriteSlot(r) \/ EndAssign(r) \/ FloorAndSchedule(r)
      PROVE  CalendarInv'
  BY <1>0, <1>2, ReadPositionFits, SaveEntryFits, ReorderFits, ListEntriesFits,
     WriteSlotFits, EndAssignFits, FloorFits
<1>3. CASE ReschedulePost \/ QueueDelete \/ Send
  BY <1>3, RescheduleFits, QueueDeleteFits, SendFits
<1>4. CASE \/ SavePostingSlot \/ DeletePostingSlot \/ TogglePostingSlotDay \/ UpdatePostingSlot
           \/ QueueCreate \/ ConnectChannel \/ Tick \/ UNCHANGED CalendarVars
  <2>1. entries' = entries /\ child' = child /\ plan' = plan /\ settled' = settled
    BY <1>4 DEF SavePostingSlot, DeletePostingSlot, TogglePostingSlotDay, UpdatePostingSlot, Slots,
                QueueCreate, ConnectChannel, Tick, CalendarVars
  <2> QED
    BY <2>1, WritesStay DEF CalendarTyped
<1> QED
  BY <1>1, <1>2, <1>3, <1>4 DEF CalendarNext

-----------------------------------------------------------------------------
\* The time of a chip is a moment, or none.
LEMMA ChipTimes ==
    ASSUME CalendarTyped, NEW k \in Chips
    PROVE  At(k) \in Times /\ (At(k) # NoTime => At(k) \in Nat \ {0})
<1>1. k[1] \in Posts /\ k[2] \in QueueChannels
  BY DEF Chips
<1>2. At(k) \in Times
  BY <1>1 DEF At, EffectiveAt, CalendarTyped, Child
<1> QED
  BY <1>2, MomentsAreFinite DEF Times, NoTime

\* A day of the page and the day in UTC are a day apart at most.
LEMMA DaysAreNear ==
    ASSUME NEW m \in Nat \ {0}, NEW z \in Zones
    PROVE  /\ LocalDate(m, z) \in Nat
           /\ Date(m) + 1 >= LocalDate(m, z) /\ Date(m) <= LocalDate(m, z) + 1
           /\ Date(m) \in Nat
<1>1. z = 0 \/ z = 2
  BY DEF Zones
<1> QED
  BY <1>1 DEF LocalDate, Date

\* Every chip is in the cell of its day.
LEMMA TheGridHoldsAll ==
    ASSUME CalendarTyped
    PROVE  NothingFallsOffTheGrid
<1>1. ASSUME NEW k \in Chips, NEW z \in Zones, At(k) # NoTime
      PROVE  LET d == LocalDate(At(k), z)
             IN k \in _day_view_data(d, z)[d] \cap _week_view_data(d, z)[d] \cap _month_view_data(0, d, z)[d]
  <2>1. PICK d \in Nat, u \in Nat : /\ d = LocalDate(At(k), z) /\ u = Date(At(k))
                                    /\ u + 1 >= d /\ u <= d + 1
    BY <1>1, ChipTimes, DaysAreNear
  <2>2. ASSUME NEW first \in Nat, NEW last \in Nat, first <= d, d <= last
        PROVE  k \in Grid(first, last, z)[d]
    <3>1. k \in Fetched(first, last)
      <4>1. u + 1 >= first /\ u <= last + 1
        BY <2>1, <2>2
      <4> QED
        BY <1>1, <2>1, <4>1 DEF Fetched
    <3>2. d \in first .. last
      BY <2>2
    <3> QED
      BY <2>1, <3>1, <3>2 DEF Grid
  <2>3. /\ k \in Grid(d, d, z)[d] /\ k \in Grid(d, d + 1, z)[d] /\ k \in Grid(0, d, z)[d]
    BY <2>2
  <2> QED
    BY <2>1, <2>3 DEF _day_view_data, _week_view_data, _month_view_data
<1>2. ASSUME NEW k \in _get_tab_context.drafts, At(k) = NoTime
      PROVE  k[1] \in UnscheduledDrafts
  <2>1. k \in Chips /\ child[k[1]][k[2]].status = "draft"
    BY <1>2 DEF _get_tab_context
  <2>2. k[1] \in Posts /\ k[2] \in QueueChannels
    BY <2>1 DEF Chips
  <2>3. parent[k[1]] = NoTime
    BY <1>2 DEF At, EffectiveAt
  <2> QED
    BY <2>1, <2>2, <2>3 DEF UnscheduledDrafts
<1> QED
  BY <1>1, <1>2 DEF NothingFallsOffTheGrid

\* The calendar is true to the queues and to the posts, for every number of
\* queues, posts and requests: a recalculation that met no other request leaves the
\* queue in the order of its times, and no chip falls off the page.
THEOREM CalendarAlwaysTrue == CalendarSpec => []CalendarIsTrue
<1>1. CalendarTyped /\ CalendarInv /\ [CalendarNext]_CalendarVars => (CalendarTyped /\ CalendarInv)'
  BY CalendarTypedStep, CalendarInvStep
<1>2. CalendarTyped /\ CalendarInv => CalendarIsTrue
  <2> SUFFICES ASSUME CalendarTyped, CalendarInv
               PROVE  CalendarIsTrue
    OBVIOUS
  <2>1. CalendarTypeOK
    BY DEF CalendarTypeOK, CalendarTyped, EntriesTyped, Positions, Child, Times
  <2> QED
    BY <2>1, TheGridHoldsAll DEF CalendarIsTrue, CalendarInv
<1> QED
  BY <1>1, <1>2, CalendarStarts, PTL DEF CalendarSpec

-----------------------------------------------------------------------------
(* The recurrences                                                         *)

AllDates == 0..(LastDate + Lookahead)
Captions == {"first", "second"}
CloneRecords == [date : Nat, caption : Captions, deleted : BOOLEAN]
RunRecords == [pc : {"clone"}, todo : SUBSET Nat, base : Nat, every : Nat, caption : Captions]

RecurrencesTypeOK ==
    /\ today \in 0..LastDate
    /\ source \in [date : Nat, caption : Captions]
    /\ rule \in [interval : Nat, end : Nat, active : BOOLEAN]
    /\ clones \in Seq(CloneRecords)
    /\ run \in [Runs -> {Resting} \cup RunRecords]
    /\ generated \in [AllDates -> Nat]

\* A date that was generated for and is not excused has one clone, which the next
\* run recognises.
GeneratedFits ==
    \A d \in AllDates : generated[d] # 0 /\ d \notin excused =>
        /\ generated[d] = 1
        /\ \E i \in DOMAIN clones :
            clones[i] = [date |-> d, caption |-> source.caption, deleted |-> FALSE]

\* A date that a run has still before it was not generated for, is in no other
\* run's list and once in its own, and will be cloned with the caption of the
\* source.
TodoFits ==
    \A r \in Runs : run[r] # Resting =>
        \A k \in run[r].todo :
            /\ DateIn(r, k) \in AllDates
            /\ DateIn(r, k) \in excused
               \/ /\ generated[DateIn(r, k)] = 0
                  /\ run[r].caption = source.caption
                  /\ \A j \in run[r].todo : DateIn(r, j) = DateIn(r, k) => j = k
                  /\ \A o \in Runs \ {r} : DateIn(r, k) \notin Before(o)

RecurrenceInv == RecurrencesTypeOK /\ GeneratedFits /\ TodoFits

\* Dates are numbers.
LEMMA DatesAreNumbers ==
  ASSUME NEW base \in Nat, NEW n \in Nat, NEW k \in Nat
  PROVE  DateOf(base, n, k) \in Nat
BY DEF DateOf

\* Different recurrences have different dates unless the interval is 0.
LEMMA DatesDiffer ==
  ASSUME NEW base \in Nat, NEW n \in Nat \ {0}, NEW k \in Nat, NEW j \in Nat,
         DateOf(base, n, k) = DateOf(base, n, j)
  PROVE  k = j
<1>1. base + k * n = base + j * n
  BY DEF DateOf
<1> QED BY <1>1

\* At first nothing was generated and nobody is at work.
LEMMA RecurrencesStart == RecurrencesInit => RecurrenceInv
<1> SUFFICES ASSUME RecurrencesInit PROVE RecurrenceInv
  OBVIOUS
<1>1. RecurrencesTypeOK
  BY RecurrencesAssumption DEF RecurrencesInit, RecurrencesTypeOK, Captions, CloneRecords, AllDates
<1>2. GeneratedFits /\ TodoFits
  BY DEF RecurrencesInit, GeneratedFits, TodoFits, AllDates
<1> QED BY <1>1, <1>2 DEF RecurrenceInv

\* A step that leaves the clones, the source, the counts and the lists alone.
LEMMA NothingRecurs ==
  ASSUME RecurrenceInv, RecurrencesTypeOK',
         UNCHANGED <<source, clones, run, generated>>, excused \subseteq excused'
  PROVE  RecurrenceInv'
BY DEF RecurrenceInv, GeneratedFits, TodoFits, DateIn, Before

\* What a run lists is not generated yet, or excused, and in no other run's list.
LEMMA RunBeginsKeeps ==
  ASSUME RecurrenceInv, NEW r \in Runs, RunBegins(r)
  PROVE  RecurrenceInv'
<1>t. RecurrencesTypeOK /\ GeneratedFits /\ TodoFits
  BY DEF RecurrenceInv
<1>0. PICK base \in Nat, n \in Nat, end \in Nat :
        base = source.date /\ n = rule.interval /\ end = rule.end
  BY <1>t DEF RecurrencesTypeOK
<1> DEFINE date(k) == DateOf(base, n, k)
           all == DatesFrom(base, n, end)
           days == {date(k) : k \in all}
           known == Recognised(source.caption, days)
           todo == {k \in all : date(k) \notin known /\ date(k) > today}
           batch == [pc |-> "clone", todo |-> todo, base |-> base, every |-> n,
                     caption |-> source.caption]
<1>1. /\ run[r] = Resting
      /\ run' = [run EXCEPT ![r] = batch]
      /\ excused' = (excused \cup (days \cap UNION {Before(o) : o \in Runs \ {r}})
                             \cup (IF n = 0 THEN days ELSE {}))
      /\ UNCHANGED <<today, source, rule, clones, retouches, generated>>
  BY <1>0 DEF RunBegins
<1>2. \A k \in all : k \in Nat /\ date(k) \in AllDates
  <2> SUFFICES ASSUME NEW k \in all PROVE k \in Nat /\ date(k) \in AllDates
    OBVIOUS
  <2>1. k \in Nat /\ date(k) \in Nat /\ date(k) <= today + Lookahead
    BY RecurrencesAssumption, DatesAreNumbers DEF DatesFrom
  <2>2. today \in Nat /\ today <= LastDate /\ LastDate \in Nat /\ Lookahead \in Nat
    BY <1>t, RecurrencesAssumption DEF RecurrencesTypeOK
  <2> QED BY <2>1, <2>2 DEF AllDates
<1>3. /\ todo \subseteq all /\ todo \subseteq Nat
      /\ \A k \in todo : date(k) \in days /\ date(k) \notin known
  BY <1>2
<1>4. /\ known = {d \in days : \E i \in DOMAIN clones :
                    clones[i] = [date |-> d, caption |-> source.caption, deleted |-> FALSE]}
  BY DEF Recognised
<1>5. batch \in RunRecords /\ batch # Resting /\ batch.todo = todo /\ batch.base = base /\ batch.every = n
      /\ batch.caption = source.caption
  BY <1>3, <1>t DEF RunRecords, RecurrencesTypeOK, Resting
<1> HIDE DEF todo, known, days, all, batch
<1>6. /\ run' \in [Runs -> {Resting} \cup RunRecords]
      /\ run'[r] = batch /\ \A o \in Runs \ {r} : run'[o] = run[o]
  BY <1>1, <1>5, <1>t DEF RecurrencesTypeOK
<1>7. RecurrencesTypeOK'
  BY <1>1, <1>6, <1>t DEF RecurrencesTypeOK
<1>8. GeneratedFits'
  BY <1>1, <1>t DEF GeneratedFits
<1>9. \A o \in Runs \ {r} : Before(o)' = Before(o) /\ \A k : DateIn(o, k)' = DateIn(o, k)
  BY <1>6 DEF Before, DateIn
<1>10. (\A k : DateIn(r, k)' = date(k)) /\ Before(r)' = {date(k) : k \in todo}
  <2>1. \A k : DateIn(r, k)' = date(k)
    BY <1>5, <1>6 DEF DateIn
  <2> QED BY <2>1, <1>5, <1>6 DEF Before
<1>11. ASSUME NEW k \in todo, date(k) \notin excused'
       PROVE  /\ generated[date(k)] = 0
              /\ \A j \in todo : date(j) = date(k) => j = k
              /\ \A o \in Runs \ {r} : date(k) \notin Before(o)
  <2>1. date(k) \in days /\ date(k) \in AllDates /\ date(k) \notin excused
    BY <1>1, <1>2, <1>3, <1>11
  <2>2. \A o \in Runs \ {r} : date(k) \notin Before(o)
    BY <2>1, <1>1, <1>11
  <2>3. n # 0
    BY <2>1, <1>1, <1>11
  <2>4. \A j \in todo : date(j) = date(k) => j = k
    BY <2>3, <1>3, DatesDiffer
  <2>5. generated[date(k)] = 0
    <3>1. date(k) \notin known
      BY <1>3
    <3>2. ~ \E i \in DOMAIN clones :
            clones[i] = [date |-> date(k), caption |-> source.caption, deleted |-> FALSE]
      BY <3>1, <2>1, <1>4
    <3> QED BY <3>2, <2>1, <1>t DEF GeneratedFits
  <2> QED BY <2>2, <2>4, <2>5
<1>12. TodoFits'
  <2> SUFFICES ASSUME NEW o \in Runs, run'[o] # Resting, NEW k \in run'[o].todo
               PROVE  /\ DateIn(o, k)' \in AllDates
                      /\ DateIn(o, k)' \in excused'
                         \/ /\ generated'[DateIn(o, k)'] = 0
                            /\ run'[o].caption = source'.caption
                            /\ \A j \in run'[o].todo : DateIn(o, j)' = DateIn(o, k)' => j = k
                            /\ \A q \in Runs \ {o} : DateIn(o, k)' \notin Before(q)'
    BY DEF TodoFits
  <2>1. CASE o = r
    <3>1. k \in todo /\ DateIn(o, k)' = date(k)
      BY <2>1, <1>5, <1>6, <1>10
    <3>2. date(k) \in AllDates
      BY <3>1, <1>2, <1>3
    <3>3. \A q \in Runs \ {r} : Before(q)' = Before(q)
      BY <1>9
    <3>4. run'[o].caption = source'.caption /\ generated' = generated /\ run'[o].todo = todo
      BY <2>1, <1>1, <1>5, <1>6
    <3> QED BY <2>1, <3>1, <3>2, <3>3, <3>4, <1>10, <1>11
  <2>2. CASE o # r
    <3>1. run'[o] = run[o] /\ run[o] # Resting /\ k \in run[o].todo /\ \A j : DateIn(o, j)' = DateIn(o, j)
      BY <2>2, <1>6, <1>9
    <3>2. DateIn(o, k) \in Before(o)
      BY <3>1 DEF Before
    <3>3. DateIn(o, k) \notin excused' => DateIn(o, k) \notin Before(r)'
      <4> SUFFICES ASSUME DateIn(o, k) \in Before(r)' PROVE DateIn(o, k) \in excused'
        OBVIOUS
      <4>1. DateIn(o, k) \in days
        BY <1>3, <1>10
      <4> QED BY <4>1, <3>2, <2>2, <1>1
    <3>4. \A q \in Runs \ {o} : q # r => Before(q)' = Before(q)
      BY <1>9
    <3>5. excused \subseteq excused' /\ generated' = generated /\ source' = source
      BY <1>1
    <3> QED BY <3>1, <3>3, <3>4, <3>5, <1>t DEF TodoFits
  <2> QED BY <2>1, <2>2
<1> QED BY <1>7, <1>8, <1>12 DEF RecurrenceInv

\* A clone of a listed date is the only one of its date, and the next run sees it.
LEMMA ClonePostKeeps ==
  ASSUME RecurrenceInv, NEW r \in Runs, ClonePost(r)
  PROVE  RecurrenceInv'
<1>t. RecurrencesTypeOK /\ GeneratedFits /\ TodoFits
  BY DEF RecurrenceInv
<1>1. PICK k \in run[r].todo :
        /\ run[r].pc = "clone"
        /\ clones' = Append(clones, [date |-> DateIn(r, k), caption |-> run[r].caption, deleted |-> FALSE])
        /\ generated' = [generated EXCEPT ![DateIn(r, k)] = IF @ < 2 THEN @ + 1 ELSE @]
        /\ run' = [run EXCEPT ![r].todo = @ \ {k}]
        /\ UNCHANGED <<today, source, rule, retouches, excused>>
  BY DEF ClonePost
<1>2. run[r] # Resting /\ run[r] \in RunRecords /\ run[r].todo \subseteq Nat
  BY <1>1, <1>t DEF RecurrencesTypeOK, RunRecords, Resting
<1>3. PICK d \in AllDates : d = DateIn(r, k)
  BY <1>1, <1>2, <1>t DEF TodoFits
<1>c. d \in Nat /\ run[r].caption \in Captions
  BY <1>2, RecurrencesAssumption DEF AllDates, RunRecords
<1>4. PICK c \in CloneRecords : c = [date |-> d, caption |-> run[r].caption, deleted |-> FALSE]
  BY <1>c DEF CloneRecords
<1>5. clones' \in Seq(CloneRecords) /\ Len(clones') = Len(clones) + 1 /\ DOMAIN clones' = 1..(Len(clones) + 1)
      /\ clones'[Len(clones) + 1] = c /\ \A i \in DOMAIN clones : i \in DOMAIN clones' /\ clones'[i] = clones[i]
  <2>1. clones \in Seq(CloneRecords) /\ clones' = Append(clones, c)
    BY <1>1, <1>3, <1>4, <1>t DEF RecurrencesTypeOK
  <2> QED BY <2>1
<1>6. PICK m \in Nat : m = generated[d]
  BY <1>t DEF RecurrencesTypeOK
<1>7. /\ generated' \in [AllDates -> Nat]
      /\ generated'[d] = IF m < 2 THEN m + 1 ELSE m
      /\ \A e \in AllDates \ {d} : generated'[e] = generated[e]
  BY <1>1, <1>3, <1>6, <1>t DEF RecurrencesTypeOK
<1>8. PICK p \in RunRecords : p = [run[r] EXCEPT !.todo = @ \ {k}]
  BY <1>2 DEF RunRecords
<1>9. /\ p.todo = run[r].todo \ {k} /\ p.base = run[r].base /\ p.every = run[r].every
      /\ p.caption = run[r].caption /\ p # Resting
  BY <1>8, <1>2 DEF RunRecords, Resting
<1>10. /\ run' \in [Runs -> {Resting} \cup RunRecords]
       /\ run'[r] = p /\ \A o \in Runs \ {r} : run'[o] = run[o]
  BY <1>1, <1>8, <1>t DEF RecurrencesTypeOK
<1>11. RecurrencesTypeOK'
  BY <1>1, <1>5, <1>7, <1>10, <1>t DEF RecurrencesTypeOK
<1>12. \A o \in Runs : \A j : DateIn(o, j)' = DateIn(o, j)
  BY <1>9, <1>10 DEF DateIn
<1>13. \A o \in Runs : Before(o)' \subseteq Before(o)
  BY <1>2, <1>9, <1>10, <1>12 DEF Before
<1>14. d \notin excused =>
         /\ m = 0
         /\ run[r].caption = source.caption
         /\ \A j \in run[r].todo : DateIn(r, j) = d => j = k
         /\ \A o \in Runs \ {r} : d \notin Before(o)
  BY <1>1, <1>2, <1>3, <1>6, <1>t DEF TodoFits
<1>15. GeneratedFits'
  <2> SUFFICES ASSUME NEW e \in AllDates, generated'[e] # 0, e \notin excused'
               PROVE  /\ generated'[e] = 1
                      /\ \E i \in DOMAIN clones' :
                          clones'[i] = [date |-> e, caption |-> source'.caption, deleted |-> FALSE]
    BY DEF GeneratedFits
  <2>1. CASE e = d
    <3>1. d \notin excused /\ source' = source
      BY <2>1, <1>1
    <3>2. m = 0 /\ run[r].caption = source.caption
      BY <3>1, <1>14
    <3>3. generated'[e] = 1
      BY <2>1, <3>2, <1>7
    <3>4. clones'[Len(clones) + 1] = [date |-> e, caption |-> source'.caption, deleted |-> FALSE]
      BY <2>1, <3>1, <3>2, <1>4, <1>5
    <3>5. Len(clones) + 1 \in DOMAIN clones'
      BY <1>5, <1>t DEF RecurrencesTypeOK
    <3> QED BY <3>3, <3>4, <3>5
  <2>2. CASE e # d
    <3>1. generated'[e] = generated[e] /\ e \notin excused /\ source' = source
      BY <2>2, <1>1, <1>7
    <3> QED BY <3>1, <1>5, <1>t DEF GeneratedFits
  <2> QED BY <2>1, <2>2
<1>16. TodoFits'
  <2> SUFFICES ASSUME NEW o \in Runs, run'[o] # Resting, NEW h \in run'[o].todo
               PROVE  /\ DateIn(o, h)' \in AllDates
                      /\ DateIn(o, h)' \in excused'
                         \/ /\ generated'[DateIn(o, h)'] = 0
                            /\ run'[o].caption = source'.caption
                            /\ \A j \in run'[o].todo : DateIn(o, j)' = DateIn(o, h)' => j = h
                            /\ \A q \in Runs \ {o} : DateIn(o, h)' \notin Before(q)'
    BY DEF TodoFits
  <2>1. /\ run[o] # Resting /\ h \in run[o].todo /\ run'[o].todo \subseteq run[o].todo
        /\ run'[o].caption = run[o].caption /\ (o = r => h # k)
    BY <1>2, <1>9, <1>10
  <2>2. DateIn(o, h) \in Before(o)
    BY <2>1 DEF Before
  <2>3. DateIn(o, h) \notin excused => DateIn(o, h) # d
    <3> SUFFICES ASSUME DateIn(o, h) = d, d \notin excused PROVE FALSE
      OBVIOUS
    <3>1. CASE o = r
      BY <3>1, <2>1, <1>14
    <3>2. CASE o # r
      BY <3>2, <2>2, <1>14
    <3> QED BY <3>1, <3>2
  <2>4. DateIn(o, h)' = DateIn(o, h) /\ source' = source /\ excused' = excused
    BY <1>1, <1>12
  <2>5. \A j \in run'[o].todo : DateIn(o, j)' = DateIn(o, j)
    BY <1>12
  <2>6. \A q \in Runs \ {o} : Before(q)' \subseteq Before(q)
    BY <1>13
  <2>7. DateIn(o, h) \in AllDates
    BY <2>1, <1>t DEF TodoFits
  <2>8. DateIn(o, h) # d => generated'[DateIn(o, h)] = generated[DateIn(o, h)]
    BY <2>7, <1>7
  <2> QED BY <2>1, <2>3, <2>4, <2>5, <2>6, <2>7, <2>8, <1>t DEF TodoFits
<1> QED BY <1>11, <1>15, <1>16 DEF RecurrenceInv

\* A run that ends, or is cut.
LEMMA RunRestsKeeps ==
  ASSUME RecurrenceInv, NEW r \in Runs, run' = [run EXCEPT ![r] = Resting],
         UNCHANGED <<today, source, rule, clones, generated, excused>>
  PROVE  RecurrenceInv'
<1>t. RecurrencesTypeOK /\ GeneratedFits /\ TodoFits
  BY DEF RecurrenceInv
<1>1. /\ run' \in [Runs -> {Resting} \cup RunRecords]
      /\ run'[r] = Resting /\ \A o \in Runs \ {r} : run'[o] = run[o]
  BY <1>t DEF RecurrencesTypeOK
<1>2. RecurrencesTypeOK' /\ GeneratedFits'
  BY <1>1, <1>t DEF RecurrencesTypeOK, GeneratedFits
<1>3. \A o \in Runs : Before(o)' \subseteq Before(o)
  BY <1>1 DEF Before, DateIn
<1>4. \A o \in Runs \ {r} : \A j : DateIn(o, j)' = DateIn(o, j)
  BY <1>1 DEF DateIn
<1>5. TodoFits'
  <2> SUFFICES ASSUME NEW o \in Runs \ {r}, run'[o] # Resting, NEW h \in run'[o].todo
               PROVE  /\ DateIn(o, h)' \in AllDates
                      /\ DateIn(o, h)' \in excused'
                         \/ /\ generated'[DateIn(o, h)'] = 0
                            /\ run'[o].caption = source'.caption
                            /\ \A j \in run'[o].todo : DateIn(o, j)' = DateIn(o, h)' => j = h
                            /\ \A q \in Runs \ {o} : DateIn(o, h)' \notin Before(q)'
    BY <1>1 DEF TodoFits
  <2>1. run'[o] = run[o] /\ DateIn(o, h)' = DateIn(o, h)
    BY <1>1, <1>4
  <2> QED BY <2>1, <1>3, <1>4, <1>t DEF TodoFits
<1> QED BY <1>2, <1>5 DEF RecurrenceInv

\* Every step keeps the counts and the lists in step with the clones.
LEMMA RecurrencesStep ==
  ASSUME RecurrenceInv, [RecurrencesNext]_RuleVars
  PROVE  RecurrenceInv'
<1>t. RecurrencesTypeOK /\ GeneratedFits /\ TodoFits
  BY DEF RecurrenceInv
<1>1. CASE DayPasses
  <2>1. RecurrencesTypeOK'
    BY <1>1, <1>t, RecurrencesAssumption DEF DayPasses, RecurrencesTypeOK
  <2> QED BY <2>1, <1>1, NothingRecurs DEF DayPasses
<1>2. CASE MakeRecurring
  <2>1. PICK n \in Intervals, end \in {1, LastDate + Lookahead} :
          rule' = [interval |-> n, end |-> end, active |-> TRUE]
    BY <1>2 DEF MakeRecurring
  <2>2. n \in Nat /\ end \in Nat
    BY RecurrencesAssumption
  <2>3. RecurrencesTypeOK'
    BY <1>2, <2>1, <2>2, <1>t DEF MakeRecurring, RecurrencesTypeOK
  <2> QED BY <2>3, <1>2, NothingRecurs DEF MakeRecurring
<1>3. CASE EditSource
  <2>1. PICK d \in RuleDates, c \in Captions :
          /\ source' = [date |-> d, caption |-> c]
          /\ excused' = IF c = source.caption THEN excused ELSE DOMAIN generated
          /\ UNCHANGED <<today, rule, clones, run, generated>>
    BY <1>3 DEF EditSource, Captions
  <2>2. d \in Nat
    BY RecurrencesAssumption DEF RuleDates
  <2>3. RecurrencesTypeOK'
    BY <2>1, <2>2, <1>t DEF RecurrencesTypeOK
  <2>4. /\ source'.caption = c
        /\ c = source.caption \/ excused' = AllDates
    BY <2>1, <1>t DEF RecurrencesTypeOK
  <2>5. \A r \in Runs : Before(r)' = Before(r) /\ \A k : DateIn(r, k)' = DateIn(r, k)
    BY <2>1 DEF Before, DateIn
  <2>6. CASE c = source.caption
    BY <2>1, <2>3, <2>4, <2>5, <2>6, <1>t DEF RecurrenceInv, GeneratedFits, TodoFits
  <2>7. CASE excused' = AllDates
    BY <2>1, <2>3, <2>5, <2>7, <1>t DEF RecurrenceInv, GeneratedFits, TodoFits
  <2> QED BY <2>4, <2>6, <2>7
<1>4. ASSUME NEW i \in DOMAIN clones, EditClone(i)
      PROVE  RecurrenceInv'
  <2>1. PICK d \in RuleDates, c \in Captions, gone \in BOOLEAN :
          clones' = [clones EXCEPT ![i] = [date |-> d, caption |-> c, deleted |-> gone]]
    BY <1>4 DEF EditClone, Captions
  <2>2. d \in Nat
    BY RecurrencesAssumption DEF RuleDates
  <2>3. PICK e \in CloneRecords : e = [date |-> d, caption |-> c, deleted |-> gone]
    BY <2>2 DEF CloneRecords
  <2>4. /\ clones' \in Seq(CloneRecords) /\ DOMAIN clones' = DOMAIN clones
        /\ \A j \in DOMAIN clones : j # i => clones'[j] = clones[j]
    BY <2>1, <2>3, <1>t DEF RecurrencesTypeOK
  <2>5. /\ excused' = excused \cup {clones[i].date}
        /\ UNCHANGED <<today, source, rule, run, generated>>
    BY <1>4 DEF EditClone
  <2>6. RecurrencesTypeOK'
    BY <2>4, <2>5, <1>t DEF RecurrencesTypeOK
  <2>7. GeneratedFits'
    <3> SUFFICES ASSUME NEW f \in AllDates, generated'[f] # 0, f \notin excused'
                 PROVE  /\ generated'[f] = 1
                        /\ \E j \in DOMAIN clones' :
                            clones'[j] = [date |-> f, caption |-> source'.caption, deleted |-> FALSE]
      BY DEF GeneratedFits
    <3>1. PICK j \in DOMAIN clones : /\ generated[f] = 1
                                     /\ clones[j] = [date |-> f, caption |-> source.caption, deleted |-> FALSE]
      BY <2>5, <1>t DEF GeneratedFits
    <3>2. j # i
      BY <3>1, <2>5
    <3> QED BY <3>1, <3>2, <2>4, <2>5
  <2>8. TodoFits'
    <3>1. \A r \in Runs : Before(r)' = Before(r) /\ \A k : DateIn(r, k)' = DateIn(r, k)
      BY <2>5 DEF Before, DateIn
    <3>2. excused \subseteq excused' /\ generated' = generated /\ source' = source /\ run' = run
      BY <2>5
    <3> QED BY <3>1, <3>2, <1>t DEF TodoFits
  <2> QED BY <2>6, <2>7, <2>8 DEF RecurrenceInv
<1>5. ASSUME NEW r \in Runs, RunEnds(r) \/ RunCut(r)
      PROVE  RecurrenceInv'
  BY <1>5, RunRestsKeeps DEF RunEnds, RunCut
<1>6. CASE UNCHANGED RuleVars
  BY <1>6, <1>t, NothingRecurs DEF RuleVars, RecurrencesTypeOK
<1> QED
  BY <1>1, <1>2, <1>3, <1>4, <1>5, <1>6, RunBeginsKeeps, ClonePostKeeps DEF RecurrencesNext

\* Whenever the task runs, is cut and runs again, and however the rule and the day of
\* the source change (calendar/tasks.py, generate_recurring_posts): one clone for each
\* date whose clone is still recognised, for any number of runs, dates and clones.
THEOREM RecurrencesOncePerDate == RecurrencesSpec => []OneClonePerDate
<1>1. RecurrenceInv => OneClonePerDate
  <2> SUFFICES ASSUME RecurrenceInv, NEW d \in DOMAIN generated, d \notin excused
               PROVE  generated[d] <= 1
    BY DEF OneClonePerDate
  <2>1. d \in AllDates /\ generated[d] \in Nat
    BY DEF RecurrenceInv, RecurrencesTypeOK
  <2>2. generated[d] = 0 \/ generated[d] = 1
    BY <2>1 DEF RecurrenceInv, GeneratedFits
  <2> QED BY <2>1, <2>2
<1> QED
  BY <1>1, RecurrencesStart, RecurrencesStep, PTL DEF RecurrencesSpec

-----------------------------------------------------------------------------
(* Approvals                                                               *)

ChipStatus ==
    {"draft", "pending_review", "pending_client", "approved", "changes_requested", "rejected",
     "scheduled", "publishing", "published", "failed"}
ServiceNames == {"submit", "resubmit", "approve", "changes", "reject"}

\* What a request has loaded: statuses of some channels, from which the chip menu's
\* target may be reached.
RequestFits(q) ==
    /\ q.does \in ServiceNames \cup {"chip", "idle"}
    /\ q.does \in ServiceNames \cup {"chip"} => \E D \in SUBSET Channels : q.loaded \in [D -> ChipStatus]
    /\ q.does \in ServiceNames => \A c \in DOMAIN q.loaded : q.loaded[c] \in Services[q.does].from
    /\ q.does = "chip" =>
         q.target \in ChipStatus /\ \A c \in DOMAIN q.loaded : CanMove(q.loaded[c], q.target)

ApprovalsTypes ==
    /\ workflow \in Modes
    /\ chip \in [Channels -> ChipStatus]
    /\ stages \in [Channels -> 0..2]
    /\ astray \in [Channels -> BOOLEAN]
    /\ \A d \in Deciders : RequestFits(desk[d])
    /\ DOMAIN desk = Deciders

\* The stages a child has been through.
StagesFit ==
    \A c \in Channels : TwoStage /\ ~astray[c] =>
        /\ chip[c] = "approved" => stages[c] >= 2
        /\ chip[c] = "pending_client" => stages[c] >= 1

ApprovalsInv == ApprovalsTypes /\ StagesFit

-----------------------------------------------------------------------------
\* The statuses of a chip are those of the state machine.
LEMMA ChipStatuses == Lifecycle!Status = ChipStatus
  BY DEF Lifecycle!Status, ChipStatus

\* Who may go to the statuses that matter here.
LEMMA MovesOfChips ==
    ASSUME NEW s \in ChipStatus, NEW t \in ChipStatus
    PROVE  /\ CanMove(s, t) =>
                /\ t = "approved" => s \in {"pending_review", "pending_client"}
                /\ t = "pending_client" => s = "approved"
           /\ CanMove("pending_review", "approved")
           /\ CanMove("scheduled", "publishing")
           /\ CanMove("publishing", "published") /\ CanMove("publishing", "failed")
  BY DEF CanMove, Lifecycle!CanTransition, Lifecycle!VALID_TRANSITIONS, Lifecycle!Status, ChipStatus

\* What a service makes of a status it is for.
LEMMA ServiceMoves ==
    ASSUME NEW n \in ServiceNames, NEW s \in ChipStatus, s \in Services[n].from,
           Services[n].to[s] # s
    PROVE  LET t == Services[n].to[s] IN
           /\ t \in ChipStatus
           /\ CanMove(s, t) \/ (CanMove(s, "approved") /\ t = "pending_client")
           /\ n \in Submissions => t = "pending_review"
           /\ TwoStage /\ t = "approved" => n = "approve" /\ s = "pending_client"
           /\ t = "pending_client" => n = "approve"
<1>1. CASE n \in Submissions
  <2>1. Services[n].to[s] = MovedTo(s, "pending_review")
    BY <1>1, ChipStatuses DEF Submissions, Services, submit_for_review, resubmit_post
  <2> QED BY <1>1, <2>1 DEF MovedTo, ChipStatus, Submissions
<1>2. CASE n = "approve"
  <2>1. Services[n].to[s] = Approved(s)
    BY <1>2, ChipStatuses DEF Services, approve_post
  <2>2. CASE TwoStage /\ s = "pending_review"
    BY <2>1, <2>2, <1>2, MovesOfChips DEF Approved, ChipStatus, Submissions
  <2>3. CASE ~(TwoStage /\ s = "pending_review")
    <3>1. Services[n].to[s] = "approved" /\ CanMove(s, "approved")
      BY <2>1, <2>3 DEF Approved, MovedTo
    <3>2. s \in {"pending_review", "pending_client"}
      BY <3>1, MovesOfChips DEF ChipStatus
    <3> QED BY <3>1, <3>2, <2>3, <1>2 DEF ChipStatus, Submissions
  <2> QED BY <2>2, <2>3
<1>3. CASE n = "changes"
  <2>1. Services[n].to[s] = MovedTo(s, "changes_requested")
    BY <1>3, ChipStatuses DEF Services, request_changes
  <2> QED BY <1>3, <2>1 DEF MovedTo, ChipStatus, Submissions
<1>4. CASE n = "reject"
  <2>1. Services[n].to[s] = MovedTo(s, "rejected")
    BY <1>4, ChipStatuses DEF Services, reject_post
  <2> QED BY <1>4, <2>1 DEF MovedTo, ChipStatus, Submissions
<1> QED BY <1>1, <1>2, <1>3, <1>4 DEF ServiceNames, Submissions

\* Drafts, and nobody at work on them.
LEMMA ApprovalsStart == ApprovalsInit => ApprovalsInv
  BY DEF ApprovalsInit, ApprovalsInv, ApprovalsTypes, StagesFit, RequestFits, NoRequestYet, ChipStatus, ServiceNames


\* A request of which everything fits is taken up, or one ends.
LEMMA RequestBegins ==
    ASSUME ApprovalsTypes, NEW d \in Deciders, NEW q, RequestFits(q), desk' = [desk EXCEPT ![d] = q],
           workflow' = workflow
    PROVE  DOMAIN desk' = Deciders /\ \A e \in Deciders : RequestFits(desk[e])'
<1>1. DOMAIN desk' = Deciders /\ desk'[d] = q /\ \A e \in Deciders \ {d} : desk'[e] = desk[e]
  BY DEF ApprovalsTypes
<1>2. \A e \in Deciders : RequestFits(desk'[e])
  BY <1>1 DEF ApprovalsTypes
<1>3. Services' = Services
  BY DEF Services, submit_for_review, resubmit_post, approve_post, request_changes, reject_post,
         MovedTo, Approved, TwoStage
<1>4. \A e \in Deciders : RequestFits(desk[e])'
  BY <1>2, <1>3 DEF RequestFits
<1> QED BY <1>1, <1>4

\* A request that has not begun has loaded nothing.
LEMMA NoRequestFits == RequestFits(NoRequestYet)
  BY DEF RequestFits, NoRequestYet, ServiceNames

\* What a service loads.
LEMMA ServiceLoads ==
    ASSUME ApprovalsTypes, NEW n \in ServiceNames
    PROVE  RequestFits([does |-> n, loaded |-> Loaded(Services[n])])
<1>1. PICK D \in SUBSET Channels : D = {b \in Channels : chip[b] \in Services[n].from}
  OBVIOUS
<1>2. PICK f \in [D -> ChipStatus] : f = Loaded(Services[n])
  BY <1>1 DEF Loaded, ApprovalsTypes
<1>3. DOMAIN f = D /\ \A c \in D : f[c] \in Services[n].from
  BY <1>1, <1>2 DEF Loaded
<1>4. PICK q : q = [does |-> n, loaded |-> f]
  OBVIOUS
<1>5. q.does = n /\ q.loaded = f
  BY <1>4
<1>6. n # "chip" /\ n # "idle"
  BY DEF ServiceNames
<1>7. RequestFits(q)
  BY <1>3, <1>5, <1>6 DEF RequestFits
<1> QED BY <1>2, <1>4, <1>7

\* The chip menu loads a child that may go where it is sent.
LEMMA ChipLoads ==
    ASSUME ApprovalsTypes, NEW c \in Channels, NEW t \in ChipStatus, CanMove(chip[c], t)
    PROVE  RequestFits([does |-> "chip", target |-> t, loaded |-> [b \in {c} |-> chip[c]]])
<1>1. PICK f \in [{c} -> ChipStatus] : f = [b \in {c} |-> chip[c]]
  BY DEF ApprovalsTypes
<1>2. DOMAIN f = {c} /\ f[c] = chip[c] /\ {c} \in SUBSET Channels
  BY <1>1
<1>3. PICK q : q = [does |-> "chip", target |-> t, loaded |-> f]
  OBVIOUS
<1>4. q.does = "chip" /\ q.target = t /\ q.loaded = f
  BY <1>3
<1>5. "chip" \notin ServiceNames
  BY DEF ServiceNames
<1>6. RequestFits(q)
  BY <1>2, <1>4, <1>5 DEF RequestFits
<1> QED BY <1>1, <1>3, <1>6

\* The course of a child: a move of the state machine, or by way of "approved" or "draft".
OnCourse(s, t) ==
    \/ CanMove(s, t)
    \/ CanMove(s, "approved") /\ t = "pending_client"
    \/ CanMove(s, "draft") /\ t = "scheduled"

\* The children move along their course, or by a request that is done and had loaded
\* them before somebody else moved them.
Courses ==
    \A c \in Channels : chip'[c] # chip[c] =>
        \/ OnCourse(chip[c], chip'[c])
        \/ \E d \in Deciders : /\ desk'[d] = NoRequestYet /\ desk[d] # NoRequestYet
                               /\ c \in DOMAIN desk[d].loaded /\ Stale(d, c)

\* The children that a decision moves.
LEMMA DecisionMoves ==
    ASSUME NEW q, RequestFits(q), q.does \in ServiceNames
    PROVE  /\ DOMAIN Moved(q) \subseteq DOMAIN q.loaded
           /\ \A c \in DOMAIN Moved(q) :
                LET s == q.loaded[c] t == Moved(q)[c] IN
                /\ s \in ChipStatus /\ t \in ChipStatus
                /\ OnCourse(s, t)
                /\ q.does \in Submissions => t = "pending_review"
                /\ TwoStage /\ t = "approved" => q.does = "approve" /\ s = "pending_client"
                /\ t = "pending_client" => q.does = "approve"
<1>1. PICK D \in SUBSET Channels : q.loaded \in [D -> ChipStatus]
  BY DEF RequestFits
<1>2. DOMAIN Moved(q) = {b \in DOMAIN q.loaded : Services[q.does].to[q.loaded[b]] # q.loaded[b]}
  BY DEF Moved
<1>3. \A c \in DOMAIN Moved(q) : Moved(q)[c] = Services[q.does].to[q.loaded[c]]
  BY DEF Moved
<1>4. ASSUME NEW c \in DOMAIN Moved(q)
      PROVE  LET s == q.loaded[c] t == Moved(q)[c] IN
             /\ s \in ChipStatus /\ t \in ChipStatus
             /\ OnCourse(s, t)
             /\ q.does \in Submissions => t = "pending_review"
             /\ TwoStage /\ t = "approved" => q.does = "approve" /\ s = "pending_client"
             /\ t = "pending_client" => q.does = "approve"
  <2>1. PICK s \in ChipStatus : s = q.loaded[c] /\ s \in Services[q.does].from /\ Services[q.does].to[s] # s
    BY <1>1, <1>2 DEF RequestFits
  <2> QED BY <2>1, <1>3, ServiceMoves DEF OnCourse
<1> QED BY <1>2, <1>4

\* A service decides on what its request had loaded.
LEMMA DecideKeeps ==
    ASSUME ApprovalsInv, NEW d \in Deciders, Decide(d)
    PROVE  ApprovalsInv' /\ Courses
<1>t. ApprovalsTypes /\ StagesFit
  BY DEF ApprovalsInv
<1>0. PICK q : q = desk[d]
  OBVIOUS
<1> DEFINE target == Moved(q)
           afresh == q.does \in Submissions
<1>1. q.does \in ServiceNames /\ RequestFits(q) /\ workflow' = workflow
  BY <1>0, <1>t DEF Decide, ApprovalsTypes, Services, ServiceNames
<1>2. CASE DOMAIN target = {}
  <2>1. desk' = [desk EXCEPT ![d] = NoRequestYet] /\ UNCHANGED <<workflow, chip, moves, stages, astray>>
    BY <1>0, <1>2 DEF Decide
  <2>2. ApprovalsTypes'
    BY <2>1, <1>t, RequestBegins, NoRequestFits DEF ApprovalsTypes
  <2>3. StagesFit' /\ Courses
    BY <2>1, <1>t DEF StagesFit, TwoStage, Courses
  <2> QED BY <2>2, <2>3 DEF ApprovalsInv
<1>3. CASE DOMAIN target # {}
  <2>1. /\ chip' = [c \in Channels |-> IF c \in DOMAIN target THEN target[c] ELSE chip[c]]
        /\ desk' = [desk EXCEPT ![d] = NoRequestYet]
        /\ stages' = [c \in Channels |->
             IF c \notin DOMAIN target THEN stages[c]
             ELSE IF afresh THEN 0
             ELSE IF q.does = "approve" /\ stages[c] < 2 THEN stages[c] + 1 ELSE stages[c]]
        /\ astray' = [c \in Channels |->
             IF c \notin DOMAIN target THEN astray[c]
             ELSE Stale(d, c) \/ (astray[c] /\ ~afresh)]
    BY <1>0, <1>3 DEF Decide, Save
  <2>2. /\ DOMAIN target \subseteq DOMAIN q.loaded
        /\ \A c \in DOMAIN target :
             LET s == q.loaded[c] t == target[c] IN
             /\ s \in ChipStatus /\ t \in ChipStatus
             /\ OnCourse(s, t)
             /\ q.does \in Submissions => t = "pending_review"
             /\ TwoStage /\ t = "approved" => q.does = "approve" /\ s = "pending_client"
             /\ t = "pending_client" => q.does = "approve"
    BY <1>1, DecisionMoves
  <2> HIDE DEF target
  <2>3. chip' \in [Channels -> ChipStatus]
    BY <2>1, <2>2, <1>t DEF ApprovalsTypes
  <2>4. stages' \in [Channels -> 0..2]
    <3> SUFFICES ASSUME NEW c \in Channels
                 PROVE  (IF c \notin DOMAIN target THEN stages[c]
                         ELSE IF afresh THEN 0
                         ELSE IF q.does = "approve" /\ stages[c] < 2 THEN stages[c] + 1 ELSE stages[c]) \in 0..2
      BY <2>1
    <3>1. stages[c] \in 0..2
      BY <1>t DEF ApprovalsTypes
    <3> QED BY <3>1
  <2>5. astray' \in [Channels -> BOOLEAN]
    BY <2>1, <1>t DEF ApprovalsTypes, Stale
  <2>6. ApprovalsTypes'
    BY <1>1, <2>1, <2>3, <2>4, <2>5, <1>t, RequestBegins, NoRequestFits DEF ApprovalsTypes
  <2>7. StagesFit'
    <3> SUFFICES ASSUME NEW c \in Channels, TwoStage, ~astray'[c]
                 PROVE  /\ chip'[c] = "approved" => stages'[c] >= 2
                        /\ chip'[c] = "pending_client" => stages'[c] >= 1
      BY <1>1 DEF StagesFit, TwoStage
    <3>0. PICK n \in 0..2 : n = stages[c]
      BY <1>t DEF ApprovalsTypes
    <3>1. CASE c \notin DOMAIN target
      BY <3>1, <2>1, <1>t DEF StagesFit
    <3>2. CASE c \in DOMAIN target
      <4>1. /\ chip'[c] = target[c] /\ ~Stale(d, c) /\ (afresh \/ ~astray[c])
            /\ stages'[c] = IF afresh THEN 0 ELSE IF q.does = "approve" /\ n < 2 THEN n + 1 ELSE n
        BY <3>0, <3>2, <2>1
      <4>2. chip[c] = q.loaded[c]
        BY <4>1, <1>0 DEF Stale
      <4>3. CASE chip'[c] = "approved"
        <5>1. q.does = "approve" /\ chip[c] = "pending_client" /\ ~afresh
          BY <4>1, <4>2, <4>3, <3>2, <2>2
        <5>2. n >= 1
          BY <5>1, <4>1, <3>0, <1>t DEF StagesFit
        <5> QED BY <5>1, <5>2, <4>1, <4>3
      <4>4. CASE chip'[c] = "pending_client"
        <5>1. q.does = "approve" /\ ~afresh
          BY <4>1, <4>4, <3>2, <2>2
        <5> QED BY <5>1, <4>1, <4>4
      <4> QED BY <4>3, <4>4
    <3> QED BY <3>1, <3>2
  <2>8. Courses
    <3> SUFFICES ASSUME NEW c \in Channels, chip'[c] # chip[c], ~OnCourse(chip[c], chip'[c])
                 PROVE  /\ desk'[d] = NoRequestYet /\ desk[d] # NoRequestYet
                        /\ c \in DOMAIN desk[d].loaded /\ Stale(d, c)
      BY DEF Courses
    <3>1. c \in DOMAIN target /\ chip'[c] = target[c]
      BY <2>1
    <3>2. c \in DOMAIN q.loaded /\ OnCourse(q.loaded[c], target[c])
      BY <3>1, <2>2
    <3>3. Stale(d, c)
      BY <3>1, <3>2, <1>0 DEF Stale
    <3>4. desk'[d] = NoRequestYet /\ desk[d] # NoRequestYet
      BY <2>1, <1>0, <1>1, <1>t DEF ApprovalsTypes, ServiceNames, NoRequestYet
    <3> QED BY <3>2, <3>3, <3>4, <1>0
  <2> QED BY <2>6, <2>7, <2>8, <1>t DEF ApprovalsInv
<1> QED BY <1>2, <1>3


\* A request begins and nothing else happens.
LEMMA BeginKeeps ==
    ASSUME ApprovalsInv, NEW d \in Deciders, NEW q, RequestFits(q), Begin(d, q)
    PROVE  ApprovalsInv' /\ Courses
<1>1. desk' = [desk EXCEPT ![d] = q] /\ UNCHANGED <<workflow, chip, stages, astray>>
  BY DEF Begin
<1>2. ApprovalsTypes'
  BY <1>1, RequestBegins DEF ApprovalsTypes, ApprovalsInv
<1> QED BY <1>1, <1>2 DEF ApprovalsInv, StagesFit, TwoStage, Courses

\* A chip that is moved past the services is astray.
LEMMA MovedAstray ==
    ASSUME ApprovalsInv, ApprovalsTypes', UNCHANGED <<workflow, stages>>,
           \A c \in Channels : \/ chip'[c] = chip[c] /\ astray'[c] = astray[c]
                               \/ astray'[c]
                               \/ chip'[c] \notin {"approved", "pending_client"}
    PROVE  StagesFit'
<1> SUFFICES ASSUME NEW c \in Channels, TwoStage, ~astray'[c],
                    chip'[c] \in {"approved", "pending_client"}
             PROVE  /\ chip'[c] = "approved" => stages[c] >= 2
                    /\ chip'[c] = "pending_client" => stages[c] >= 1
  BY DEF StagesFit, TwoStage
<1>1. chip'[c] = chip[c] /\ astray'[c] = astray[c]
  OBVIOUS
<1> QED BY <1>1 DEF ApprovalsInv, StagesFit

\* The chip menu saves the status it was asked for.
LEMMA SaveChipKeeps ==
    ASSUME ApprovalsInv, NEW d \in Deciders, SaveChip(d)
    PROVE  ApprovalsInv' /\ Courses
<1>t. ApprovalsTypes
  BY DEF ApprovalsInv
<1>0. PICK q : q = desk[d]
  OBVIOUS
<1>1. PICK D \in SUBSET Channels :
        /\ q.loaded \in [D -> ChipStatus] /\ q.target \in ChipStatus
        /\ \A c \in D : CanMove(q.loaded[c], q.target)
        /\ q.does = "chip"
  <2>1. RequestFits(q) /\ q.does = "chip"
    BY <1>0, <1>t DEF ApprovalsTypes, SaveChip
  <2> QED BY <2>1 DEF RequestFits
<1>2. /\ chip' = [c \in Channels |-> IF c \in D THEN q.target ELSE chip[c]]
      /\ desk' = [desk EXCEPT ![d] = NoRequestYet]
      /\ astray' = [c \in Channels |-> astray[c] \/ c \in D]
      /\ UNCHANGED <<workflow, stages>>
  <2>1. DOMAIN q.loaded = D
    BY <1>1
  <2>2. DOMAIN [c \in D |-> q.target] = D /\ \A c \in D : [b \in D |-> q.target][c] = q.target
    OBVIOUS
  <2> QED BY <1>0, <2>1, <2>2 DEF SaveChip, Save
<1>3. chip' \in [Channels -> ChipStatus] /\ astray' \in [Channels -> BOOLEAN]
  BY <1>1, <1>2, <1>t DEF ApprovalsTypes
<1>4. ApprovalsTypes'
  BY <1>2, <1>3, <1>t, RequestBegins, NoRequestFits DEF ApprovalsTypes
<1>5. StagesFit'
  <2>1. \A c \in Channels : (chip'[c] = chip[c] /\ astray'[c] = astray[c]) \/ astray'[c]
    BY <1>2, <1>t DEF ApprovalsTypes
  <2> QED BY <1>2, <1>4, <2>1, MovedAstray
<1>6. Courses
  <2> SUFFICES ASSUME NEW c \in Channels, chip'[c] # chip[c], ~CanMove(chip[c], chip'[c])
               PROVE  /\ desk'[d] = NoRequestYet /\ desk[d] # NoRequestYet
                      /\ c \in DOMAIN desk[d].loaded /\ Stale(d, c)
    BY DEF Courses, OnCourse
  <2>1. c \in D /\ chip'[c] = q.target /\ c \in DOMAIN q.loaded
    BY <1>1, <1>2
  <2>2. q.loaded[c] # chip[c]
    BY <2>1, <1>1
  <2>3. desk'[d] = NoRequestYet /\ desk[d] # NoRequestYet
    BY <1>0, <1>1, <1>2, <1>t DEF ApprovalsTypes, NoRequestYet
  <2> QED BY <2>1, <2>2, <2>3, <1>0 DEF Stale
<1> QED BY <1>4, <1>5, <1>6 DEF ApprovalsInv

\* A chip moves on, to scheduled or beyond.
LEMMA ChipKeeps ==
    ASSUME ApprovalsInv, NEW c \in Channels, NEW t \in {"scheduled", "publishing", "published", "failed"},
           chip' = [chip EXCEPT ![c] = t], OnCourse(chip[c], t),
           astray' = astray \/ astray' = [astray EXCEPT ![c] = TRUE],
           UNCHANGED <<workflow, desk, stages>>
    PROVE  ApprovalsInv' /\ Courses
<1>t. ApprovalsTypes
  BY DEF ApprovalsInv
<1>1. t \in ChipStatus
  BY DEF ChipStatus
<1>2. chip' \in [Channels -> ChipStatus] /\ chip'[c] = t /\ \A b \in Channels \ {c} : chip'[b] = chip[b]
  BY <1>1, <1>t DEF ApprovalsTypes
<1>3. astray' \in [Channels -> BOOLEAN] /\ \A b \in Channels \ {c} : astray'[b] = astray[b]
  BY <1>t DEF ApprovalsTypes
<1>4. Services' = Services
  BY DEF Services, submit_for_review, resubmit_post, approve_post, request_changes, reject_post,
         MovedTo, Approved, TwoStage
<1>5. \A e \in Deciders : RequestFits(desk[e])'
  BY <1>4, <1>t DEF RequestFits, ApprovalsTypes
<1>6. ApprovalsTypes'
  BY <1>2, <1>3, <1>5, <1>t DEF ApprovalsTypes
<1>7. StagesFit'
  <2>1. t \notin {"approved", "pending_client"}
    OBVIOUS
  <2> QED BY <1>2, <1>3, <1>6, <2>1, MovedAstray
<1>8. Courses
  BY <1>2 DEF Courses
<1> QED BY <1>6, <1>7, <1>8 DEF ApprovalsInv

\* Every step of the approvals keeps the invariant.
LEMMA ApprovalsStep ==
    ASSUME ApprovalsInv, [ApprovalsNext]_ApprovalVars
    PROVE  ApprovalsInv' /\ Courses
<1>t. ApprovalsTypes
  BY DEF ApprovalsInv
<1>1. ASSUME NEW d \in Deciders, NEW n \in ServiceNames,
             Begin(d, [does |-> n, loaded |-> Loaded(Services[n])])
      PROVE  ApprovalsInv' /\ Courses
  BY <1>1, <1>t, ServiceLoads, BeginKeeps
<1>2. ASSUME NEW d \in Deciders,
             \/ SubmitRequest(d) \/ ReviewerRequest(d) \/ BulkRequest(d)
             \/ PortalApprove(d) \/ PortalRequestChanges(d) \/ PortalReject(d)
      PROVE  ApprovalsInv' /\ Courses
  <2>1. PICK n \in ServiceNames : Begin(d, [does |-> n, loaded |-> Loaded(Services[n])])
    BY <1>2 DEF SubmitRequest, ReviewerRequest, BulkRequest, PortalApprove, PortalRequestChanges,
                PortalReject, PortalRequest, Submissions, Decisions, ServiceNames
  <2> QED BY <2>1, <1>1
<1>3. ASSUME NEW d \in Deciders, LoadChip(d)
      PROVE  ApprovalsInv' /\ Courses
  <2>1. PICK c \in Channels, t \in ChipStatus :
          /\ CanMove(chip[c], t)
          /\ Begin(d, [does |-> "chip", target |-> t, loaded |-> [b \in {c} |-> chip[c]]])
    BY <1>3, ChipStatuses DEF LoadChip
  <2> QED BY <2>1, <1>t, ChipLoads, BeginKeeps
<1>4. ASSUME NEW d \in Deciders, Decide(d) \/ SaveChip(d)
      PROVE  ApprovalsInv' /\ Courses
  BY <1>4, DecideKeeps, SaveChipKeeps
<1>5. CASE ScheduleChild
  <2>1. PICK c \in Channels :
          /\ ViaDraft(chip[c], "scheduled") # chip[c]
          /\ chip' = [chip EXCEPT ![c] = "scheduled"]
          /\ astray' = [astray EXCEPT ![c] = TRUE]
          /\ UNCHANGED <<workflow, desk, moves, stages>>
    BY <1>5 DEF ScheduleChild
  <2>2. OnCourse(chip[c], "scheduled")
    BY <2>1 DEF ViaDraft, OnCourse
  <2> QED BY <2>1, <2>2, ChipKeeps
<1>6. CASE ApiSchedule
  <2>1. PICK c \in Channels :
          /\ CanMove(chip[c], "scheduled")
          /\ chip' = [chip EXCEPT ![c] = "scheduled"]
          /\ astray' = [astray EXCEPT ![c] = TRUE]
          /\ UNCHANGED <<workflow, desk, moves, stages>>
    BY <1>6 DEF ApiSchedule
  <2>2. OnCourse(chip[c], "scheduled")
    BY <2>1 DEF OnCourse
  <2> QED BY <2>1, <2>2, ChipKeeps
<1>7. CASE Publish
  <2>1. PICK c \in Channels, t \in {"publishing", "published", "failed"} :
          /\ chip' = [chip EXCEPT ![c] = t]
          /\ (chip[c] = "scheduled" /\ t = "publishing") \/ (chip[c] = "publishing" /\ t # "publishing")
          /\ UNCHANGED <<workflow, desk, moves, stages, astray>>
    BY <1>7 DEF Publish
  <2>2. OnCourse(chip[c], t)
    BY <2>1, MovesOfChips DEF OnCourse, ChipStatus
  <2> QED BY <2>1, <2>2, ChipKeeps
<1>8. CASE UNCHANGED ApprovalVars
  <2>1. Services' = Services
    BY <1>8 DEF ApprovalVars, Services, submit_for_review, resubmit_post, approve_post, request_changes,
           reject_post, MovedTo, Approved, TwoStage
  <2>2. \A e \in Deciders : RequestFits(desk[e])'
    BY <1>8, <2>1, <1>t DEF RequestFits, ApprovalsTypes, ApprovalVars
  <2> QED BY <1>8, <2>2 DEF ApprovalVars, ApprovalsInv, ApprovalsTypes, StagesFit, TwoStage, Courses
<1> QED BY <1>2, <1>3, <1>4, <1>5, <1>6, <1>7, <1>8 DEF ApprovalsNext

\* However many requests decide on a post's accounts at once, with what they loaded
\* before (approvals/services.py, the chip menu and the composer's buttons): where two
\* stages are required a child is approved by two approvals since its last submission,
\* and every child follows the state machine, unless a request had loaded it before
\* somebody else moved it, or it went past the services.
THEOREM ApprovalsInStages == ApprovalsSpec => ApprovalsTakeTheirCourse
<1>1. ApprovalsInv => ApprovalsTypeOK /\ TwoStagesBeforeApproval
  BY ChipStatuses DEF ApprovalsInv, ApprovalsTypes, StagesFit, ApprovalsTypeOK, TwoStagesBeforeApproval
<1>2. ASSUME ApprovalsInv, [ApprovalsNext]_ApprovalVars
      PROVE  [\A c \in Channels : chip'[c] # chip[c] =>
          \/ CanMove(chip[c], chip'[c])
          \/ CanMove(chip[c], "approved") /\ chip'[c] = "pending_client"
          \/ CanMove(chip[c], "draft") /\ chip'[c] = "scheduled"
          \/ \E d \in Deciders : /\ desk'[d] = NoRequestYet /\ desk[d] # NoRequestYet
                                 /\ c \in DOMAIN desk[d].loaded /\ Stale(d, c)]_ApprovalVars
  BY <1>2, ApprovalsStep DEF Courses, OnCourse
<1> QED
  BY <1>1, <1>2, ApprovalsStart, ApprovalsStep, PTL
  DEF ApprovalsSpec, ApprovalsTakeTheirCourse, LegalUnlessStale

-----------------------------------------------------------------------------
(* The aggregate of a post                                                 *)

\* Where the statuses stand in the order of the workflow.
LEMMA Ranks ==
    /\ \A s \in Status \ TERMINAL : Rank(s) \in 1..8
    /\ Rank("published") = 10
    /\ Rank("failed") = 11
<1>1. /\ DOMAIN WORKFLOW_ORDER = 1..10 /\ Len(WORKFLOW_ORDER) = 10
      /\ WORKFLOW_ORDER[1] = "draft" /\ WORKFLOW_ORDER[2] = "changes_requested"
      /\ WORKFLOW_ORDER[3] = "rejected" /\ WORKFLOW_ORDER[4] = "pending_review"
      /\ WORKFLOW_ORDER[5] = "pending_client" /\ WORKFLOW_ORDER[6] = "approved"
      /\ WORKFLOW_ORDER[7] = "scheduled" /\ WORKFLOW_ORDER[8] = "publishing"
      /\ WORKFLOW_ORDER[9] = "partially_published" /\ WORKFLOW_ORDER[10] = "published"
  BY DEF WORKFLOW_ORDER
<1>2. \A i \in 1..10 : i \in {1, 2, 3, 4, 5, 6, 7, 8, 9, 10}
  OBVIOUS
<1> HIDE DEF WORKFLOW_ORDER
<1>3. Rank("failed") = 11
  BY <1>1, <1>2 DEF Rank
<1>4. ASSUME NEW s, NEW k \in 1..10, WORKFLOW_ORDER[k] = s,
             \A i \in 1..10 : WORKFLOW_ORDER[i] = s => i = k
      PROVE  Rank(s) = k
  BY <1>1, <1>4 DEF Rank
<1>5. Rank("published") = 10
  BY <1>1, <1>2, <1>4
<1>6. \A s \in Status \ TERMINAL : \E k \in 1..8 : WORKFLOW_ORDER[k] = s
  BY <1>1 DEF Status, TERMINAL
<1>7. \A k \in 1..8 : \A i \in 1..10 : WORKFLOW_ORDER[i] = WORKFLOW_ORDER[k] => i = k
  BY <1>1, <1>2
<1>8. ASSUME NEW s \in Status \ TERMINAL
      PROVE  Rank(s) \in 1..8
  <2>1. PICK k \in 1..8 : WORKFLOW_ORDER[k] = s
    BY <1>6
  <2>2. k \in 1..10
    OBVIOUS
  <2> QED BY <2>1, <2>2, <1>4, <1>7
<1> QED BY <1>3, <1>5, <1>8

\* There are finitely many statuses.
LEMMA StatusesAreFew == IsFiniteSet(Status)
<1>1. ASSUME NEW S, NEW x, IsFiniteSet(S) PROVE IsFiniteSet(S \cup {x})
  BY <1>1, FS_AddElement
<1>2. IsFiniteSet({"draft"})
  BY FS_Singleton
<1>3. IsFiniteSet({"draft"} \cup {"pending_review"} \cup {"pending_client"})
  BY <1>1, <1>2
<1>4. IsFiniteSet({"draft"} \cup {"pending_review"} \cup {"pending_client"} \cup {"approved"}
                  \cup {"changes_requested"} \cup {"rejected"})
  BY <1>1, <1>3
<1>5. IsFiniteSet({"draft"} \cup {"pending_review"} \cup {"pending_client"} \cup {"approved"}
                  \cup {"changes_requested"} \cup {"rejected"} \cup {"scheduled"} \cup {"publishing"}
                  \cup {"published"} \cup {"failed"})
  BY <1>1, <1>4
<1>6. Status = ({"draft"} \cup {"pending_review"} \cup {"pending_client"} \cup {"approved"}
                  \cup {"changes_requested"} \cup {"rejected"} \cup {"scheduled"} \cup {"publishing"}
                  \cup {"published"} \cup {"failed"})
  BY DEF Status
<1> QED BY <1>5, <1>6

\* What a post is shown as: what its only children are, partially published, or a
\* child that is being worked on (derive_post_status).
LEMMA AggregateIsOf ==
    ASSUME NEW S \in SUBSET Status, S # {}
    PROVE  \/ S = {DerivePostStatus(S)}
           \/ S = TERMINAL /\ DerivePostStatus(S) = "partially_published"
           \/ DerivePostStatus(S) \in S \ TERMINAL
<1>1. IsFiniteSet(S)
  BY StatusesAreFew, FS_Subset
<1>2. CASE Cardinality(S) = 1
  <2>1. PICK x : S = {x}
    BY <1>1, <1>2, FS_Singleton
  <2> QED BY <1>2, <2>1 DEF DerivePostStatus
<1>3. CASE Cardinality(S) # 1 /\ S \subseteq TERMINAL
  <2>1. DerivePostStatus(S) = "partially_published"
    BY <1>3 DEF DerivePostStatus
  <2>2. \A x : S # {x}
    BY <1>3, FS_Singleton
  <2>3. "published" \in S /\ "failed" \in S
    BY <1>3, <2>2 DEF TERMINAL
  <2> QED BY <1>3, <2>1, <2>3 DEF TERMINAL
<1>4. CASE Cardinality(S) # 1 /\ ~(S \subseteq TERMINAL)
  <2>1. DerivePostStatus(S) = CHOOSE s \in S : \A t \in S : Rank(s) <= Rank(t)
    BY <1>4 DEF DerivePostStatus
  <2>2. \A s \in S : Rank(s) \in Nat
    <3> TAKE s \in S
    <3>1. CASE s \in TERMINAL
      BY <3>1, Ranks DEF TERMINAL
    <3>2. CASE s \notin TERMINAL
      BY <3>2, Ranks
    <3> QED BY <3>1, <3>2
  <2>3. \E s \in S : \A t \in S : Rank(s) <= Rank(t)
    <3>1. PICK n \in {Rank(s) : s \in S} : \A m \in {Rank(s) : s \in S} : n <= m
      BY <2>2, Smallest
    <3> QED BY <3>1
  <2>4. PICK d \in S : d = DerivePostStatus(S) /\ \A t \in S : Rank(d) <= Rank(t)
    BY <2>1, <2>3
  <2>5. PICK t \in S : t \notin TERMINAL
    BY <1>4
  <2>6. Rank(t) <= 8 /\ Rank(d) <= Rank(t) /\ Rank(t) \in Nat /\ Rank(d) \in Nat
    BY <2>2, <2>4, <2>5, Ranks
  <2>7. d # "published" /\ d # "failed"
    BY <2>6, Ranks
  <2> QED BY <2>4, <2>7 DEF TERMINAL
<1> QED BY <1>2, <1>3, <1>4

\* The statuses of the children.
LEMMA ChildrenHaveStatuses ==
    ASSUME TypeOK
    PROVE  {status[c] : c \in Rows} \in SUBSET Status
  BY DEF TypeOK, Rows


\* The rows a post is created with have a status.
LEMMA LifecycleStart == Init => TypeOK
  BY DEF Init, TypeOK, INITIAL_STATUSES, Status

\* No writer leads a published row anywhere, nor is it removed.
LEMMA LifecycleStep ==
    ASSUME TypeOK, [Next]_status
    PROVE  TypeOK' /\ \A c \in Children : status[c] = "published" => status'[c] = "published"
<1>1. CASE Transition
  <2>0. PICK R \in SUBSET Rows : \E target \in [R -> Status] :
          /\ \A c \in R : CanTransition(status[c], target[c])
          /\ Write(R, target)
    BY <1>1 DEF Transition
  <2>1. PICK target \in [R -> Status] :
          /\ \A c \in R : CanTransition(status[c], target[c])
          /\ Write(R, target)
    BY <2>0
  <2>2. \A c \in R : c \in Children /\ status[c] \in Status
    BY <2>1 DEF Rows, TypeOK
  <2>3. \A c \in R : status[c] # "published"
    BY <2>1, <2>2 DEF CanTransition, VALID_TRANSITIONS, Status
  <2> QED BY <2>1, <2>2, <2>3 DEF Write, TypeOK
<1>2. ASSUME NEW c \in Children, SelectAccount(c)
      PROVE  TypeOK' /\ \A b \in Children : status[b] = "published" => status'[b] = "published"
  <2>1. PICK s \in INITIAL_STATUSES : status' = [b \in Children |-> IF b \in {c} THEN s ELSE status[b]]
    BY <1>2 DEF SelectAccount, Write
  <2>2. status[c] = "none" /\ s \in Status
    BY <1>2 DEF SelectAccount, Rows, INITIAL_STATUSES, Status
  <2> QED BY <2>1, <2>2 DEF TypeOK
<1>3. ASSUME NEW R \in SUBSET Children, RemoveDeselected(R)
      PROVE  TypeOK' /\ \A b \in Children : status[b] = "published" => status'[b] = "published"
  BY <1>3 DEF RemoveDeselected, Write, TypeOK, PROTECTED_STATUSES
<1>4. CASE UNCHANGED status
  BY <1>4 DEF TypeOK
<1> QED BY <1>1, <1>2, <1>3, <1>4 DEF Next

\* A post is shown as published only when its children's outcomes say so.
LEMMA OutcomeIsFinal == TypeOK => AggregateOutcomeIsFinal
<1> SUFFICES ASSUME TypeOK PROVE AggregateOutcomeIsFinal
  OBVIOUS
<1>0. PICK S \in SUBSET Status : S = {status[c] : c \in Rows}
  BY ChildrenHaveStatuses
<1>1. /\ PostStatus = DerivePostStatus(S) /\ \A c \in Rows : status[c] \in S
      /\ \A s \in S : \E c \in Rows : status[c] = s
  BY <1>0 DEF PostStatus
<1>2. CASE S = {}
  BY <1>1, <1>2 DEF AggregateOutcomeIsFinal, DerivePostStatus
<1>3. CASE S # {}
  <2>1. "published" \in TERMINAL /\ "failed" \in TERMINAL /\ "partially_published" \notin Status
    BY DEF TERMINAL, Status
  <2>2. CASE S = {DerivePostStatus(S)}
    BY <1>1, <2>1, <2>2 DEF AggregateOutcomeIsFinal
  <2>3. CASE S = TERMINAL /\ DerivePostStatus(S) = "partially_published"
    BY <1>1, <2>1, <2>3 DEF AggregateOutcomeIsFinal
  <2>4. CASE DerivePostStatus(S) \in S \ TERMINAL
    <3>1. PostStatus \notin {"published", "partially_published", "failed"}
      BY <1>1, <2>1, <2>4
    <3> QED BY <3>1 DEF AggregateOutcomeIsFinal
  <2> QED BY <1>3, <2>2, <2>3, <2>4, AggregateIsOf
<1> QED BY <1>2, <1>3

\* What is shown as published leaves that only for a child that is open again.
LEMMA ReopensForOpenChild ==
    ASSUME TypeOK, TypeOK', \A c \in Children : status[c] = "published" => status'[c] = "published"
    PROVE  \/ PostStatus \notin {"published", "partially_published"}
           \/ PostStatus' \in {"published", "partially_published"}
           \/ \E c \in Children : status'[c] = PostStatus' /\ status'[c] \notin TERMINAL
<1> SUFFICES ASSUME PostStatus \in {"published", "partially_published"},
                    PostStatus' \notin {"published", "partially_published"}
             PROVE  \E c \in Children : status'[c] = PostStatus' /\ status'[c] \notin TERMINAL
  OBVIOUS
<1>1. PICK b \in Rows : status[b] = "published"
  BY OutcomeIsFinal DEF AggregateOutcomeIsFinal
<1>2. b \in Children /\ status'[b] = "published"
  BY <1>1 DEF Rows
<1>3. PICK T : T = {status'[c] : c \in {k \in Children : status'[k] # "none"}}
  OBVIOUS
<1>4. /\ T \in SUBSET Status /\ PostStatus' = DerivePostStatus(T)
      /\ "published" \in T /\ \A s \in T : \E c \in Children : status'[c] = s
  BY <1>2, <1>3 DEF TypeOK, PostStatus, Rows
<1>5. DerivePostStatus(T) \in T \ TERMINAL
  BY <1>4, AggregateIsOf
<1> QED BY <1>4, <1>5

\* Whoever writes the statuses of a post's rows, along VALID_TRANSITIONS, selecting
\* and deselecting accounts (composer/models.py, status.py): for any number of rows a
\* published one stays published, and the post is shown as published or failed only
\* when all its rows say so, until one of them is worked on again.
THEOREM LifecycleOutcomesAreFinal == Spec => OutcomesAreFinal
<1>1. ASSUME TypeOK, [Next]_status
      PROVE  /\ [\A c \in Children : status[c] = "published" => status'[c] = "published"]_status
             /\ [\/ PostStatus \notin {"published", "partially_published"}
                 \/ PostStatus' \in {"published", "partially_published"}
                 \/ \E c \in Children : status'[c] = PostStatus' /\ status'[c] \notin TERMINAL]_status
  BY <1>1, LifecycleStep, ReopensForOpenChild
<1> QED
  BY <1>1, LifecycleStart, LifecycleStep, OutcomeIsFinal, PTL
  DEF Spec, OutcomesAreFinal, PublishedIsTerminal, AggregateReopensOnlyForOpenChild

-----------------------------------------------------------------------------
(* The board of ideas                                                      *)

IdeaCovers == Pictures \cup {Nothing}
IdeaRows ==
    [row : {TRUE}, column : Columns \cup {Nothing}, post : IdeaPosts \cup {Nothing},
     cover : IdeaCovers, first : IdeaCovers]
IdeaCalls ==
    {Away, [pc |-> "seed"]} \cup [pc : {"drop"}, column : Columns]
        \cup [pc : {"edit", "move", "post"}, idea : IdeaIds, copy : IdeaRows, picture : IdeaCovers,
              column : Columns \cup {Nothing}]

IdeasTypes ==
    /\ idea \in [IdeaIds -> IdeaRows \cup {NoIdea}]
    /\ editor \in [Editors -> IdeaCalls]
    /\ columns \subseteq Columns
    /\ ideaPosts \subseteq IdeaPosts

\* What exists, or is worked on, has had its id.
IdsAreUsed ==
    /\ columns \subseteq used
    /\ ideaPosts \subseteq used
    /\ \A i \in IdeaIds : Lives(i) => i \in used
    /\ \A e \in Editors : editor[e].pc = "drop" => editor[e].column \in used
    /\ \A e \in Editors : editor[e].pc \in {"edit", "move", "post"} => editor[e].idea \in used

\* Only an idea that strayed is in a column found empty.
DropsFit ==
    \A e \in Editors, i \in IdeaIds :
        editor[e].pc = "drop" /\ Lives(i) /\ idea[i].column = editor[e].column => i \in strayed

IdeasInv == IdeasTypes /\ IdsAreUsed /\ DropsFit /\ IdeasAreOnTheBoard

\* The row of an idea is there.
LEMMA IdeaRowLives == \A r \in IdeaRows : r # NoIdea
<1> SUFFICES ASSUME NEW r \in IdeaRows PROVE r # NoIdea
  OBVIOUS
<1>1. r.row = TRUE /\ NoIdea.row = FALSE
  BY DEF IdeaRows, NoIdea
<1> QED BY <1>1

\* What each request in progress carries.
LEMMA CallsCarry ==
    ASSUME NEW w \in IdeaCalls
    PROVE  /\ w.pc = "drop" => w.column \in Columns
           /\ w.pc \in {"edit", "move", "post"} =>
                /\ w.idea \in IdeaIds /\ w.copy \in IdeaRows
                /\ w.picture \in IdeaCovers /\ w.column \in Columns \cup {Nothing}
<1>1. CASE w = Away
  BY <1>1 DEF Away
<1>2. CASE w = [pc |-> "seed"]
  BY <1>2
<1>3. CASE w \in [pc : {"drop"}, column : Columns]
  BY <1>3
<1>4. CASE w \in [pc : {"edit", "move", "post"}, idea : IdeaIds, copy : IdeaRows, picture : IdeaCovers,
                  column : Columns \cup {Nothing}]
  BY <1>4
<1> QED BY <1>1, <1>2, <1>3, <1>4 DEF IdeaCalls

\* An empty board.
LEMMA IdeasStart == IdeasInit => IdeasInv
<1> SUFFICES ASSUME IdeasInit PROVE IdeasInv
  OBVIOUS
<1>1. /\ idea = [i \in IdeaIds |-> NoIdea] /\ editor = [e \in Editors |-> Away]
      /\ columns = {} /\ ideaPosts = {}
  BY DEF IdeasInit
<1>2. Away.pc = "away" /\ Away \in IdeaCalls
  BY DEF Away, IdeaCalls
<1>3. (\A i \in IdeaIds : ~Lives(i)) /\ \A e \in Editors : editor[e].pc = "away"
  BY <1>1, <1>2 DEF Lives
<1>4. idea \in [IdeaIds -> IdeaRows \cup {NoIdea}] /\ editor \in [Editors -> IdeaCalls]
  BY <1>1, <1>2
<1> QED
  BY <1>1, <1>3, <1>4 DEF IdeasInv, IdeasTypes, IdsAreUsed, DropsFit, IdeasAreOnTheBoard

\* An idea may be written where it can be seen, in a column that nobody found
\* empty, or else it strayed.
LEMMA IdeaWritten ==
    ASSUME IdeasInv, NEW i \in IdeaIds, NEW r \in IdeaRows, idea' = [idea EXCEPT ![i] = r],
           used \subseteq used', i \in used', strayed \subseteq strayed',
           columns \subseteq columns', columns' \subseteq Columns, columns' \subseteq used',
           ideaPosts' \subseteq IdeaPosts, ideaPosts' \subseteq used',
           NEW e \in Editors, editor' = editor \/ editor' = [editor EXCEPT ![e] = Away],
           \/ i \in strayed'
           \/ r.column \in columns' /\ \A d \in Editors : editor[d].pc = "drop" => editor[d].column # r.column
    PROVE  IdeasInv'
<1>t. IdeasTypes /\ IdsAreUsed /\ DropsFit /\ IdeasAreOnTheBoard
  BY DEF IdeasInv
<1>1. Away.pc = "away" /\ Away \in IdeaCalls
  BY DEF Away, IdeaCalls
<1>2. \A d \in Editors : editor'[d] = editor[d] \/ editor'[d] = Away
  BY <1>t DEF IdeasTypes
<1>3. editor' \in [Editors -> IdeaCalls]
  BY <1>1, <1>t DEF IdeasTypes
<1>4. /\ idea' \in [IdeaIds -> IdeaRows \cup {NoIdea}] /\ idea'[i] = r
      /\ \A j \in IdeaIds \ {i} : idea'[j] = idea[j]
  BY <1>t DEF IdeasTypes
<1>5. \A d \in Editors : editor'[d].pc \in {"drop", "edit", "move", "post"} => editor'[d] = editor[d]
  BY <1>1, <1>2
<1>6. IdeasTypes'
  BY <1>3, <1>4 DEF IdeasTypes
<1>7. IdsAreUsed'
  BY <1>4, <1>5, <1>t DEF IdsAreUsed, Lives
<1>8. DropsFit'
  BY <1>4, <1>5, <1>t DEF DropsFit, Lives
<1>9. IdeasAreOnTheBoard'
  BY <1>4, <1>t DEF IdeasAreOnTheBoard, Lives
<1> QED BY <1>6, <1>7, <1>8, <1>9 DEF IdeasInv

\* A request begins, or ends without having written anything.
LEMMA IdeaRequestGoesOn ==
    ASSUME IdeasInv, NEW e \in Editors, NEW w \in IdeaCalls, editor' = [editor EXCEPT ![e] = w],
           w.pc = "drop" => w.column \in used /\ \A i \in IdeaIds : Lives(i) => idea[i].column # w.column,
           w.pc \in {"edit", "move", "post"} => w.idea \in used,
           used \subseteq used', columns \subseteq columns', columns' \subseteq Columns \cap used',
           UNCHANGED <<idea, ideaPosts, strayed>>
    PROVE  IdeasInv'
<1>t. IdeasTypes /\ IdsAreUsed /\ DropsFit /\ IdeasAreOnTheBoard
  BY DEF IdeasInv
<1>2. \A d \in Editors : editor'[d] = editor[d] \/ editor'[d] = w
  BY <1>t DEF IdeasTypes
<1>3. editor' \in [Editors -> IdeaCalls]
  BY <1>t DEF IdeasTypes
<1>4. \A i \in IdeaIds : Lives(i)' = Lives(i)
  BY DEF Lives
<1>6. IdeasTypes'
  BY <1>3, <1>t DEF IdeasTypes
<1>7. IdsAreUsed'
  BY <1>2, <1>4, <1>t DEF IdsAreUsed
<1>8. DropsFit'
  BY <1>2, <1>4, <1>t DEF DropsFit
<1>9. IdeasAreOnTheBoard'
  BY <1>4, <1>t DEF IdeasAreOnTheBoard
<1> QED BY <1>6, <1>7, <1>8, <1>9 DEF IdeasInv

\* A request that ends.
LEMMA RequestEnds ==
    ASSUME IdeasInv, NEW e \in Editors, Ends(e), UNCHANGED <<idea, columns, ideaPosts, used, strayed>>
    PROVE  IdeasInv'
<1>1. Away \in IdeaCalls /\ Away.pc = "away"
  BY DEF Away, IdeaCalls
<1>2. columns \subseteq Columns /\ columns \subseteq used
  BY DEF IdeasInv, IdeasTypes, IdsAreUsed
<1> QED BY <1>1, <1>2, IdeaRequestGoesOn DEF Ends

\* A new idea has a row.
LEMMA NewIdeaRow ==
    ASSUME NEW c \in Columns \cup {Nothing}, NEW p \in IdeaCovers
    PROVE  NewIdea(c, p) \in IdeaRows /\ NewIdea(c, p).column = c
  BY DEF NewIdea, IdeaRows, IdeaCovers

\* A board without columns gets its first one, with an idea.
LEMMA SeedBoardKeeps ==
    ASSUME IdeasInv, NEW e \in Editors, SeedBoard(e)
    PROVE  IdeasInv'
<1>t. IdeasTypes /\ IdsAreUsed
  BY DEF IdeasInv
<1>1. PICK c \in Columns \ used, i \in IdeaIds \ used :
        /\ columns' = columns \cup {c}
        /\ idea' = [idea EXCEPT ![i] = NewIdea(c, Nothing)]
        /\ used' = used \cup {c, i}
  BY DEF SeedBoard
<1>2. NewIdea(c, Nothing) \in IdeaRows /\ NewIdea(c, Nothing).column = c
  BY NewIdeaRow DEF IdeaCovers
<1>3. \A d \in Editors : editor[d].pc = "drop" => editor[d].column # c
  BY <1>t DEF IdsAreUsed
<1>4. editor' = [editor EXCEPT ![e] = Away] /\ strayed' = strayed /\ ideaPosts' = ideaPosts
  BY DEF SeedBoard, Ends
<1>5. columns' \subseteq Columns /\ columns' \subseteq used' /\ ideaPosts' \subseteq IdeaPosts /\ ideaPosts' \subseteq used'
  BY <1>1, <1>4, <1>t DEF IdeasTypes, IdsAreUsed
<1> HIDE DEF NewIdea
<1> QED BY <1>1, <1>2, <1>3, <1>4, <1>5, IdeaWritten

\* A column goes, and the ideas in it, all strayed, have none.
LEMMA DropColumnKeeps ==
    ASSUME IdeasInv, NEW e \in Editors, DropColumn(e)
    PROVE  IdeasInv'
<1>t. IdeasTypes /\ IdsAreUsed /\ DropsFit /\ IdeasAreOnTheBoard
  BY DEF IdeasInv
<1>1. PICK c \in Columns : c = editor[e].column
  BY <1>t, CallsCarry DEF IdeasTypes, DropColumn
<1>2. /\ editor[e].pc = "drop" /\ columns' = columns \ {c}
      /\ idea' = [i \in IdeaIds |-> IF Lives(i) /\ idea[i].column = c
                                      THEN [idea[i] EXCEPT !.column = Nothing] ELSE idea[i]]
      /\ editor' = [editor EXCEPT ![e] = Away]
      /\ UNCHANGED <<ideaPosts, used, strayed>>
  BY <1>1 DEF DropColumn, Ends
<1>3. ASSUME NEW i \in IdeaIds
      PROVE  /\ idea'[i] \in IdeaRows \cup {NoIdea}
             /\ Lives(i)' => Lives(i)
             /\ Lives(i)' => i \in strayed \/ (idea'[i].column = idea[i].column /\ idea[i].column # c)
  <2>1. CASE Lives(i) /\ idea[i].column = c
    <3>1. idea[i] \in IdeaRows
      BY <2>1, <1>t DEF IdeasTypes, Lives
    <3>2. [idea[i] EXCEPT !.column = Nothing] \in IdeaRows
      BY <3>1 DEF IdeaRows
    <3>3. i \in strayed
      BY <2>1, <1>1, <1>2, <1>t DEF DropsFit
    <3> QED BY <2>1, <1>2, <3>2, <3>3
  <2>2. CASE ~(Lives(i) /\ idea[i].column = c)
    <3>1. idea'[i] = idea[i]
      BY <2>2, <1>2
    <3> QED BY <2>2, <3>1, <1>t DEF IdeasTypes, Lives
  <2> QED BY <2>1, <2>2
<1>4. Away.pc = "away" /\ Away \in IdeaCalls
  BY DEF Away, IdeaCalls
<1>5. \A d \in Editors : editor'[d].pc \in {"drop", "edit", "move", "post"} => editor'[d] = editor[d]
  BY <1>2, <1>4, <1>t DEF IdeasTypes
<1>6. editor' \in [Editors -> IdeaCalls] /\ idea' \in [IdeaIds -> IdeaRows \cup {NoIdea}]
  BY <1>2, <1>3, <1>4, <1>t DEF IdeasTypes
<1>7. IdeasTypes'
  BY <1>2, <1>6, <1>t DEF IdeasTypes
<1>8. IdsAreUsed'
  <2>1. columns' \subseteq used' /\ ideaPosts' \subseteq used' /\ \A i \in IdeaIds : Lives(i)' => i \in used'
    BY <1>2, <1>3, <1>t DEF IdsAreUsed
  <2>2. /\ \A d \in Editors : editor'[d].pc = "drop" => editor'[d].column \in used'
        /\ \A d \in Editors : editor'[d].pc \in {"edit", "move", "post"} => editor'[d].idea \in used'
    BY <1>2, <1>5, <1>t DEF IdsAreUsed
  <2> QED BY <2>1, <2>2 DEF IdsAreUsed
<1>9. DropsFit'
  BY <1>2, <1>3, <1>5, <1>t DEF DropsFit
<1>10. IdeasAreOnTheBoard'
  BY <1>2, <1>3, <1>t DEF IdeasAreOnTheBoard
<1> QED BY <1>7, <1>8, <1>9, <1>10 DEF IdeasInv

\* An idea is created in the column the page names, if it is still there.
LEMMA IdeaCreateKeeps ==
    ASSUME IdeasInv, NEW e \in Editors, IdeaCreate(e)
    PROVE  IdeasInv'
<1>t. IdeasTypes /\ IdsAreUsed
  BY DEF IdeasInv
<1>1. PICK i \in IdeaIds \ used, c \in used \cap Columns, p \in {Nothing} \cup Pictures :
         /\ idea' = [idea EXCEPT ![i] = NewIdea(Found(c), p)]
         /\ used' = used \cup {i}
         /\ strayed' = IF Going(c) THEN strayed \cup {i} ELSE strayed
  BY DEF IdeaCreate
<1>2. PICK f \in Columns \cup {Nothing} : f = Found(c) /\ (~Going(c) => f = c)
  BY DEF Found, Going
<1>3. PICK r \in IdeaRows : r = NewIdea(Found(c), p) /\ r.column = f
  BY <1>2, NewIdeaRow DEF IdeaCovers
<1>4. editor' = editor /\ ideaPosts' = ideaPosts /\ columns' = columns
  BY DEF IdeaCreate
<1>5. \/ i \in strayed'
      \/ r.column \in columns' /\ \A d \in Editors : editor[d].pc = "drop" => editor[d].column # r.column
  BY <1>1, <1>2, <1>3, <1>4 DEF Going
<1>6. columns' \subseteq Columns /\ columns' \subseteq used' /\ ideaPosts' \subseteq IdeaPosts /\ ideaPosts' \subseteq used'
  BY <1>1, <1>4, <1>t DEF IdeasTypes, IdsAreUsed
<1>7. idea' = [idea EXCEPT ![i] = r] /\ used \subseteq used' /\ i \in used' /\ strayed \subseteq strayed'
  BY <1>1, <1>3
<1> QED BY <1>4, <1>5, <1>6, <1>7, IdeaWritten

\* A request loads an idea.
LEMMA LoadsKeeps ==
    ASSUME IdeasInv, NEW e \in Editors, NEW pc \in {"edit", "move", "post"}, Loads(e, pc)
    PROVE  IdeasInv'
<1>t. IdeasTypes /\ IdsAreUsed
  BY DEF IdeasInv
<1>1. PICK i \in IdeaIds, c \in used \cap Columns, p \in {Nothing} \cup Pictures :
         /\ Lives(i)
         /\ editor' = [editor EXCEPT ![e] =
              [pc |-> pc, idea |-> i, copy |-> idea[i], picture |-> p,
               column |-> IF Found(c) = Nothing THEN idea[i].column ELSE c]]
  BY DEF Loads
<1>2. idea[i] \in IdeaRows /\ i \in used
  BY <1>1, <1>t DEF IdeasTypes, IdsAreUsed, Lives
<1>3. PICK k \in Columns \cup {Nothing} : k = IF Found(c) = Nothing THEN idea[i].column ELSE c
  BY <1>2 DEF IdeaRows
<1>4. PICK w \in IdeaCalls : w.pc = pc /\ w.idea = i /\ editor' = [editor EXCEPT ![e] = w]
  <2>1. [pc |-> pc, idea |-> i, copy |-> idea[i], picture |-> p, column |-> k] \in IdeaCalls
    BY <1>2 DEF IdeaCalls, IdeaCovers
  <2> QED BY <2>1, <1>1, <1>3
<1>5. /\ UNCHANGED <<idea, columns, ideaPosts, used, strayed>>
      /\ columns \subseteq Columns \cap used
  BY <1>t DEF Loads, IdeasTypes, IdsAreUsed
<1> QED BY <1>2, <1>4, <1>5, IdeaRequestGoesOn

\* What an edit, a drag and a post made from an idea leave in its row.
LEMMA SavesKeep ==
    ASSUME IdeasInv, NEW e \in Editors, SaveEdit(e) \/ SaveMove(e) \/ SavePost(e)
    PROVE  IdeasInv'
<1>t. IdeasTypes /\ IdsAreUsed /\ DropsFit /\ IdeasAreOnTheBoard
  BY DEF IdeasInv
<1>1. PICK i \in IdeaIds, k \in Columns \cup {Nothing}, copy \in IdeaRows, p \in IdeaCovers :
        /\ editor[e].pc \in {"edit", "move", "post"}
        /\ editor[e].idea = i /\ editor[e].column = k /\ editor[e].copy = copy /\ editor[e].picture = p
        /\ i \in used
  <2>1. editor[e].pc \in {"edit", "move", "post"}
    BY DEF SaveEdit, SaveMove, SavePost
  <2> QED BY <2>1, <1>t, CallsCarry DEF IdeasTypes, IdsAreUsed
<1>2. editor' = [editor EXCEPT ![e] = Away] /\ columns' = columns
  BY DEF SaveEdit, SaveMove, SavePost, Ends
<1>3. columns' \subseteq Columns /\ columns' \subseteq used
  BY <1>2, <1>t DEF IdeasTypes, IdsAreUsed
<1>4. ASSUME UNCHANGED <<idea, columns, ideaPosts, used, strayed>> PROVE IdeasInv'
  BY <1>2, <1>4, RequestEnds DEF Ends
<1>5. ASSUME Strays(i, k), k \in columns \cup {Nothing}
      PROVE  /\ strayed \subseteq strayed'
             /\ \/ i \in strayed'
                \/ k \in columns' /\ \A d \in Editors : editor[d].pc = "drop" => editor[d].column # k
  BY <1>2, <1>5 DEF Strays, Going
<1>6. CASE SaveEdit(e)
  <2>1. CASE Lives(i) /\ Refers(k, Nothing)
    <3>1. idea' = [idea EXCEPT ![i] = Edited(e)] /\ Strays(i, k) /\ ideaPosts' = ideaPosts /\ used' = used
      BY <1>1, <1>6, <2>1 DEF SaveEdit
    <3>2. idea[i] \in IdeaRows
      BY <2>1, <1>t DEF IdeasTypes, Lives
    <3>3. PICK r \in IdeaRows : r = Edited(e) /\ r.column = k
      <4>1. Edited(e) \in IdeaRows /\ Edited(e).column = k
        BY <1>1, <3>2 DEF Edited, IdeaRows
      <4> QED BY <4>1
    <3>4. k \in columns \cup {Nothing}
      BY <2>1 DEF Refers
    <3>5. ideaPosts' \subseteq IdeaPosts /\ ideaPosts' \subseteq used'
      BY <3>1, <1>t DEF IdeasTypes, IdsAreUsed
    <3>6. idea' = [idea EXCEPT ![i] = r]
      BY <3>1, <3>3
    <3>7. /\ i \in used' /\ used \subseteq used' /\ columns' \subseteq used' /\ columns \subseteq columns'
          /\ strayed \subseteq strayed'
      BY <1>1, <1>2, <1>3, <1>5, <3>1, <3>4
    <3>8. \/ i \in strayed'
          \/ r.column \in columns' /\ \A d \in Editors : editor[d].pc = "drop" => editor[d].column # r.column
      BY <1>5, <3>1, <3>3, <3>4
    <3> QED BY <1>2, <1>3, <3>5, <3>6, <3>7, <3>8, IdeaWritten
  <2>2. CASE ~(Lives(i) /\ Refers(k, Nothing))
    BY <1>1, <1>2, <1>4, <1>6, <2>2 DEF SaveEdit
  <2> QED BY <2>1, <2>2
<1>7. CASE SaveMove(e)
  <2>1. CASE Refers(k, copy.post)
    <3>1. /\ idea' = [idea EXCEPT ![i] = [copy EXCEPT !.column = k,
                                             !.first = IF Lives(i) THEN idea[i].first ELSE Nothing]]
          /\ Strays(i, k) /\ ideaPosts' = ideaPosts /\ used' = used
      BY <1>1, <1>7, <2>1 DEF SaveMove
    <3>2. PICK f \in IdeaCovers : f = IF Lives(i) THEN idea[i].first ELSE Nothing
      BY <1>t DEF IdeasTypes, IdeaRows, Lives, IdeaCovers
    <3>3. PICK r \in IdeaRows : r = [copy EXCEPT !.column = k, !.first = f] /\ r.column = k
      <4>1. [copy EXCEPT !.column = k, !.first = f] \in IdeaRows
        BY DEF IdeaRows
      <4>2. [copy EXCEPT !.column = k, !.first = f].column = k
        BY DEF IdeaRows
      <4> QED BY <4>1, <4>2
    <3>4. k \in columns \cup {Nothing}
      BY <2>1 DEF Refers
    <3>5. ideaPosts' \subseteq IdeaPosts /\ ideaPosts' \subseteq used'
      BY <3>1, <1>t DEF IdeasTypes, IdsAreUsed
    <3>6. idea' = [idea EXCEPT ![i] = r]
      BY <3>1, <3>2, <3>3
    <3>7. /\ i \in used' /\ used \subseteq used' /\ columns' \subseteq used' /\ columns \subseteq columns'
          /\ strayed \subseteq strayed'
      BY <1>1, <1>2, <1>3, <1>5, <3>1, <3>4
    <3>8. \/ i \in strayed'
          \/ r.column \in columns' /\ \A d \in Editors : editor[d].pc = "drop" => editor[d].column # r.column
      BY <1>5, <3>1, <3>3, <3>4
    <3> QED BY <1>2, <1>3, <3>5, <3>6, <3>7, <3>8, IdeaWritten
  <2>2. CASE ~Refers(k, copy.post)
    BY <1>1, <1>2, <1>4, <1>7, <2>2 DEF SaveMove
  <2> QED BY <2>1, <2>2
<1>8. CASE SavePost(e)
  <2>1. CASE Lives(i)
    <3>1. PICK q \in IdeaPosts \ used :
            ideaPosts' = ideaPosts \cup {q} /\ used' = used \cup {q} /\ idea' = [idea EXCEPT ![i].post = q]
      BY <1>1, <1>8, <2>1 DEF SavePost
    <3>2. idea[i] \in IdeaRows /\ strayed' = strayed
      BY <2>1, <1>8, <1>t DEF IdeasTypes, Lives, SavePost
    <3>3. PICK r \in IdeaRows : r = [idea[i] EXCEPT !.post = q] /\ r.column = idea[i].column
      <4>1. [idea[i] EXCEPT !.post = q] \in IdeaRows
        BY <3>2 DEF IdeaRows
      <4>2. [idea[i] EXCEPT !.post = q].column = idea[i].column
        BY <3>2 DEF IdeaRows
      <4> QED BY <4>1, <4>2
    <3>4. \/ i \in strayed'
          \/ r.column \in columns' /\ \A d \in Editors : editor[d].pc = "drop" => editor[d].column # r.column
      BY <1>2, <1>t, <2>1, <3>2, <3>3 DEF DropsFit, IdeasAreOnTheBoard
    <3>5. /\ ideaPosts' \subseteq IdeaPosts /\ ideaPosts' \subseteq used' /\ columns' \subseteq used'
          /\ used \subseteq used' /\ i \in used'
      BY <1>1, <1>3, <3>1, <1>t DEF IdeasTypes, IdsAreUsed
    <3>6. idea' = [idea EXCEPT ![i] = r]
      BY <3>1, <3>3, <1>t DEF IdeasTypes
    <3> QED BY <1>1, <1>2, <1>3, <3>2, <3>4, <3>5, <3>6, IdeaWritten
  <2>2. CASE ~Lives(i)
    BY <1>1, <1>2, <1>4, <1>8, <2>2 DEF SavePost
  <2> QED BY <2>1, <2>2
<1> QED BY <1>6, <1>7, <1>8

\* Ideas are deleted, and posts made from them.
LEMMA DeletesKeep ==
    ASSUME IdeasInv, NEW e \in Editors, IdeaDelete(e) \/ PostDelete(e)
    PROVE  IdeasInv'
<1>t. IdeasTypes /\ IdsAreUsed /\ DropsFit /\ IdeasAreOnTheBoard
  BY DEF IdeasInv
<1>1. UNCHANGED <<columns, used, editor, strayed>> /\ ideaPosts' \subseteq ideaPosts
  BY DEF IdeaDelete, PostDelete
<1>2. ASSUME NEW i \in IdeaIds
      PROVE  /\ idea'[i] \in IdeaRows \cup {NoIdea}
             /\ Lives(i)' => Lives(i) /\ idea'[i].column = idea[i].column
  <2>1. CASE IdeaDelete(e)
    <3>1. PICK j \in IdeaIds : idea' = [idea EXCEPT ![j] = NoIdea]
      BY <2>1 DEF IdeaDelete
    <3> QED BY <3>1, <1>t DEF IdeasTypes, Lives
  <2>2. CASE PostDelete(e)
    <3>1. PICK p \in ideaPosts :
            idea' = [j \in IdeaIds |-> IF Lives(j) /\ idea[j].post = p
                                         THEN [idea[j] EXCEPT !.post = Nothing] ELSE idea[j]]
      BY <2>2 DEF PostDelete
    <3>2. CASE Lives(i) /\ idea[i].post = p
      <4>1. idea[i] \in IdeaRows
        BY <3>2, <1>t DEF IdeasTypes, Lives
      <4>2. /\ [idea[i] EXCEPT !.post = Nothing] \in IdeaRows
            /\ [idea[i] EXCEPT !.post = Nothing].column = idea[i].column
        BY <4>1 DEF IdeaRows
      <4> QED BY <3>1, <3>2, <4>2
    <3>3. CASE ~(Lives(i) /\ idea[i].post = p)
      <4>1. idea'[i] = idea[i]
        BY <3>1, <3>3
      <4> QED BY <4>1, <1>t DEF IdeasTypes, Lives
    <3> QED BY <3>2, <3>3
  <2> QED BY <2>1, <2>2
<1>3. idea' \in [IdeaIds -> IdeaRows \cup {NoIdea}]
  <2>1. DOMAIN idea' = IdeaIds /\ idea' = [i \in IdeaIds |-> idea'[i]]
    BY <1>t DEF IdeaDelete, PostDelete, IdeasTypes
  <2> QED BY <2>1, <1>2
<1>4. IdeasTypes'
  BY <1>1, <1>3, <1>t DEF IdeasTypes
<1>5. IdsAreUsed'
  BY <1>1, <1>2, <1>t DEF IdsAreUsed
<1>6. DropsFit'
  BY <1>1, <1>2, <1>t DEF DropsFit
<1>7. IdeasAreOnTheBoard'
  BY <1>1, <1>2, <1>t DEF IdeasAreOnTheBoard
<1> QED BY <1>4, <1>5, <1>6, <1>7 DEF IdeasInv

\* A request opens the board, creates a column, or finds one empty.
LEMMA BoardKeeps ==
    ASSUME IdeasInv, NEW e \in Editors, BoardOpens(e) \/ IdeaGroupCreate(e) \/ IdeaGroupDelete(e)
    PROVE  IdeasInv'
<1>t. IdeasTypes /\ IdsAreUsed
  BY DEF IdeasInv
<1>0. columns \subseteq Columns /\ columns \subseteq used
  BY <1>t DEF IdeasTypes, IdsAreUsed
<1>1. CASE BoardOpens(e)
  <2>1. [pc |-> "seed"] \in IdeaCalls
    BY DEF IdeaCalls
  <2>2. editor' = [editor EXCEPT ![e] = [pc |-> "seed"]] /\ UNCHANGED <<idea, columns, ideaPosts, used, strayed>>
    BY <1>1 DEF BoardOpens
  <2> QED BY <1>0, <2>1, <2>2, IdeaRequestGoesOn
<1>2. CASE IdeaGroupCreate(e)
  <2>1. PICK c \in Columns \ used : columns' = columns \cup {c} /\ used' = used \cup {c}
    BY <1>2 DEF IdeaGroupCreate
  <2>2. UNCHANGED <<idea, ideaPosts, editor, strayed>>
    BY <1>2 DEF IdeaGroupCreate
  <2>3. PICK w \in IdeaCalls : w = editor[e] /\ editor' = [editor EXCEPT ![e] = w]
    BY <2>2, <1>t DEF IdeasTypes
  <2>4. columns \subseteq columns' /\ used \subseteq used' /\ columns' \subseteq Columns \cap used'
    BY <1>0, <2>1
  <2>5. \A i \in IdeaIds : Lives(i)' = Lives(i)
    BY <2>2 DEF Lives
  <2>6. IdeasTypes'
    BY <2>2, <2>4, <1>t DEF IdeasTypes
  <2>7. IdsAreUsed'
    BY <2>2, <2>4, <2>5, <1>t DEF IdsAreUsed
  <2>8. DropsFit' /\ IdeasAreOnTheBoard'
    BY <2>2, <2>4, <2>5 DEF IdeasInv, DropsFit, IdeasAreOnTheBoard
  <2> QED BY <2>6, <2>7, <2>8 DEF IdeasInv
<1>3. CASE IdeaGroupDelete(e)
  <2>1. PICK c \in columns : IsEmpty(c) /\ editor' = [editor EXCEPT ![e] = [pc |-> "drop", column |-> c]]
    BY <1>3 DEF IdeaGroupDelete
  <2>2. UNCHANGED <<idea, columns, ideaPosts, used, strayed>>
    BY <1>3 DEF IdeaGroupDelete
  <2>3. PICK w \in IdeaCalls : w.pc = "drop" /\ w.column = c /\ editor' = [editor EXCEPT ![e] = w]
    <3>1. [pc |-> "drop", column |-> c] \in IdeaCalls
      BY <1>0 DEF IdeaCalls
    <3> QED BY <3>1, <2>1
  <2>4. c \in used /\ \A i \in IdeaIds : Lives(i) => idea[i].column # c
    BY <1>0, <2>1 DEF IsEmpty
  <2> QED BY <1>0, <2>2, <2>3, <2>4, IdeaRequestGoesOn
<1> QED BY <1>1, <1>2, <1>3

\* Every step of the board keeps the ideas on it.
LEMMA IdeasStep ==
    ASSUME IdeasInv, [IdeasNext]_IdeaVars
    PROVE  IdeasInv'
<1>1. ASSUME NEW e \in Editors, IdeaEdit(e) \/ IdeaMove(e) \/ IdeaCreatePost(e)
      PROVE  IdeasInv'
  BY <1>1, LoadsKeeps DEF IdeaEdit, IdeaMove, IdeaCreatePost
<1>2. CASE UNCHANGED IdeaVars
  BY <1>2 DEF IdeaVars, IdeasInv, IdeasTypes, IdsAreUsed, DropsFit, IdeasAreOnTheBoard, Lives
<1>3. ASSUME NEW e \in Editors, BoardOpens(e) \/ IdeaGroupCreate(e) \/ IdeaGroupDelete(e)
      PROVE  IdeasInv'
  BY <1>3, BoardKeeps
<1>4. ASSUME NEW e \in Editors, SaveEdit(e) \/ SaveMove(e) \/ SavePost(e)
      PROVE  IdeasInv'
  BY <1>4, SavesKeep
<1>5. ASSUME NEW e \in Editors, IdeaDelete(e) \/ PostDelete(e)
      PROVE  IdeasInv'
  BY <1>5, DeletesKeep
<1> QED
  BY <1>1, <1>2, <1>3, <1>4, <1>5, SeedBoardKeeps, DropColumnKeeps, IdeaCreateKeeps DEF IdeasNext

\* A step parts an idea from its post only when the post goes, another is made, or a
\* drag that loaded it earlier is saved.
LEMMA PostsStayWithIdeas ==
    ASSUME IdeasInv, IdeasNext, NEW i \in IdeaIds, Lives(i), idea'[i] # NoIdea, idea'[i].post # idea[i].post
    PROVE  \/ idea[i].post \notin ideaPosts'
           \/ idea'[i].post \in ideaPosts' \ ideaPosts
           \/ \E e \in Editors : editor[e].pc = "move" /\ editor[e].idea = i /\ editor[e].copy.post # idea[i].post
<1>t. IdeasTypes /\ IdsAreUsed
  BY DEF IdeasInv
<1>0. idea[i] \in IdeaRows /\ i \in used
  BY <1>t DEF IdeasTypes, IdsAreUsed, Lives
<1>1. ASSUME NEW e \in Editors, SeedBoard(e) \/ IdeaCreate(e)
      PROVE  idea'[i] = idea[i]
  <2>1. PICK j \in IdeaIds \ used : \E r : idea' = [idea EXCEPT ![j] = r]
    BY <1>1 DEF SeedBoard, IdeaCreate
  <2> QED BY <1>0, <2>1, <1>t DEF IdeasTypes
<1>2. ASSUME NEW e \in Editors, DropColumn(e)
      PROVE  idea'[i].post = idea[i].post
  <2>1. idea'[i] = idea[i] \/ idea'[i] = [idea[i] EXCEPT !.column = Nothing]
    BY <1>2 DEF DropColumn
  <2>2. [idea[i] EXCEPT !.column = Nothing].post = idea[i].post
    BY <1>0 DEF IdeaRows
  <2> QED BY <2>1, <2>2
<1>3. ASSUME NEW e \in Editors, SaveEdit(e)
      PROVE  idea'[i].post = idea[i].post
  <2>1. CASE editor[e].idea = i
    <3>1. Edited(e).post = idea[i].post
      BY <1>0, <2>1 DEF Edited, IdeaRows
    <3>2. idea'[i] = idea[i] \/ idea'[i] = Edited(e)
      BY <1>3, <2>1, <1>t DEF SaveEdit, IdeasTypes
    <3> QED BY <3>1, <3>2
  <2>2. CASE editor[e].idea # i
    <3>1. idea' = idea \/ \E r : idea' = [idea EXCEPT ![editor[e].idea] = r]
      BY <1>3 DEF SaveEdit
    <3>2. idea'[i] = idea[i]
      BY <2>2, <3>1, <1>t DEF IdeasTypes
    <3> QED BY <3>2
  <2> QED BY <2>1, <2>2
<1>4. ASSUME NEW e \in Editors, SaveMove(e)
      PROVE  editor[e].pc = "move" /\ editor[e].idea = i /\ editor[e].copy.post # idea[i].post
  <2>0. editor[e].pc = "move" /\ editor[e].copy \in IdeaRows
    BY <1>4, <1>t, CallsCarry DEF SaveMove, IdeasTypes
  <2>1. editor[e].idea = i
    <3>1. idea' = idea \/ \E r : idea' = [idea EXCEPT ![editor[e].idea] = r]
      BY <1>4 DEF SaveMove
    <3> QED BY <3>1, <1>t DEF IdeasTypes
  <2>2. PICK f : idea'[i] = [editor[e].copy EXCEPT !.column = editor[e].column, !.first = f]
    <3>1. idea' # idea
      OBVIOUS
    <3> QED BY <1>4, <2>1, <3>1, <1>t DEF SaveMove, IdeasTypes
  <2>3. [editor[e].copy EXCEPT !.column = editor[e].column, !.first = f].post = editor[e].copy.post
    BY <2>0 DEF IdeaRows
  <2> QED BY <2>0, <2>1, <2>2, <2>3
<1>5. ASSUME NEW e \in Editors, SavePost(e)
      PROVE  idea'[i].post \in ideaPosts' \ ideaPosts
  <2>1. PICK p \in IdeaPosts \ used :
          ideaPosts' = ideaPosts \cup {p} /\ idea' = [idea EXCEPT ![editor[e].idea].post = p]
    BY <1>5 DEF SavePost
  <2>2. editor[e].idea = i
    BY <2>1, <1>t DEF IdeasTypes
  <2>3. idea'[i] = [idea[i] EXCEPT !.post = p]
    BY <2>1, <2>2, <1>t DEF IdeasTypes
  <2>4. idea'[i].post = p
    BY <1>0, <2>3 DEF IdeaRows
  <2> QED BY <2>1, <2>4, <1>t DEF IdsAreUsed
<1>6. ASSUME NEW e \in Editors, IdeaDelete(e)
      PROVE  FALSE
  <2>1. PICK j \in IdeaIds : idea' = [idea EXCEPT ![j] = NoIdea]
    BY <1>6 DEF IdeaDelete
  <2> QED BY <2>1, <1>t DEF IdeasTypes
<1>7. ASSUME NEW e \in Editors, PostDelete(e)
      PROVE  idea[i].post \notin ideaPosts'
  <2>1. PICK p \in ideaPosts :
          /\ ideaPosts' = ideaPosts \ {p}
          /\ idea' = [j \in IdeaIds |-> IF Lives(j) /\ idea[j].post = p
                                          THEN [idea[j] EXCEPT !.post = Nothing] ELSE idea[j]]
    BY <1>7 DEF PostDelete
  <2>2. idea[i].post = p
    BY <2>1
  <2> QED BY <2>1, <2>2
<1>8. ASSUME NEW e \in Editors, BoardOpens(e) \/ IdeaGroupCreate(e) \/ IdeaGroupDelete(e)
                                  \/ IdeaEdit(e) \/ IdeaMove(e) \/ IdeaCreatePost(e)
      PROVE  FALSE
  BY <1>8 DEF BoardOpens, IdeaGroupCreate, IdeaGroupDelete, IdeaEdit, IdeaMove, IdeaCreatePost, Loads
<1> QED BY <1>1, <1>2, <1>3, <1>4, <1>5, <1>6, <1>7, <1>8 DEF IdeasNext

\* However the requests on a board interleave (composer/views.py, idea_edit,
\* idea_move, idea_create_post and the columns' views): for any number of ideas,
\* columns, posts and requests an idea stays where it can be seen, and with the post
\* made from it, but for the two races the properties name.
THEOREM IdeasStayOnTheBoard == IdeasSpec => IdeasAreKept
<1>1. ASSUME IdeasInv, [IdeasNext]_IdeaVars
      PROVE  [\A i \in IdeaIds :
         (Lives(i) /\ idea'[i] # NoIdea /\ idea'[i].post # idea[i].post) =>
            \/ idea[i].post \notin ideaPosts'
            \/ idea'[i].post \in ideaPosts' \ ideaPosts
            \/ \E e \in Editors : editor[e].pc = "move" /\ editor[e].idea = i /\ editor[e].copy.post # idea[i].post]_IdeaVars
  BY <1>1, PostsStayWithIdeas
<1>2. IdeasInv => IdeasAreOnTheBoard
  BY DEF IdeasInv
<1> QED
  BY <1>1, <1>2, IdeasStart, IdeasStep, PTL DEF IdeasSpec, IdeasAreKept, IdeaKeepsItsPost

-----------------------------------------------------------------------------
(* The folders of the media library                                        *)

Parents == Folders \cup {Root}
ClerkCalls ==
    {Off} \cup [pc : {"create"}, folder : Folders, parent : Parents, name : Names]
          \cup [pc : {"move", "moved", "emptied"}, folder : Folders, parent : Parents]

FoldersTypes ==
    /\ above \in [Folders -> Parents \cup {NoFolder}]
    /\ clerk \in [Clerks -> ClerkCalls]

Seen(f) == Has(f) \/ f \in vanished

\* Parents are there, requests know folders that are or were there, and what is
\* about to be created was not yet.
FoldersFit ==
    /\ \A f \in Folders : above[f] \in Folders => Has(above[f])
    /\ \A c \in Clerks : DeletesFolder(c) => Seen(clerk[c].folder)
    /\ \A c \in Clerks : (DeletesFolder(c) \/ clerk[c].pc = "create") /\ clerk[c].parent \in Folders
         => Seen(clerk[c].parent)
    /\ \A c \in Clerks : clerk[c].pc = "create" =>
         /\ ~Seen(clerk[c].folder)
         /\ \A o \in Clerks \ {c} : clerk[o].pc = "create" => clerk[o].folder # clerk[c].folder

\* A ranking of the folders in which what is or was above another comes earlier.
FitsRank(rank) ==
    /\ \A f \in Folders : above[f] \in Folders => rank[above[f]] < rank[f]
    /\ \A c \in Clerks : DeletesFolder(c) /\ clerk[c].parent \in Folders => rank[clerk[c].parent] < rank[clerk[c].folder]
FoldersRanked == \E rank \in [Folders -> Nat] : FitsRank(rank)

\* What is under a folder that was emptied came late.
EmptiedFits == \A c \in Clerks : clerk[c].pc = "emptied" => Below(clerk[c].folder) \subseteq late

FoldersInv == FoldersTypes /\ FoldersFit /\ FoldersRanked /\ EmptiedFits

\* What each request in progress carries.
LEMMA ClerkCarries ==
    ASSUME NEW w \in ClerkCalls
    PROVE  /\ w.pc \in {"off", "create", "move", "moved", "emptied"}
           /\ w.pc # "off" => w # Off /\ w.folder \in Folders /\ w.parent \in Parents
           /\ w.pc = "off" => w = Off
<1>1. Off.pc = "off"
  BY DEF Off
<1>2. CASE w \in [pc : {"create"}, folder : Folders, parent : Parents, name : Names]
  BY <1>1, <1>2
<1>3. CASE w \in [pc : {"move", "moved", "emptied"}, folder : Folders, parent : Parents]
  BY <1>1, <1>3
<1> QED BY <1>1, <1>2, <1>3 DEF ClerkCalls

\* What goes with a folder contains what is under it, and under that.
LEMMA CascadeIsClosed ==
    ASSUME NEW f \in Folders
    PROVE  /\ Below(f) \subseteq Cascade(f)
           /\ \A h \in Cascade(f) : Below(h) \subseteq Cascade(f)
<1>1. \A h : Below(h) \subseteq Folders
  BY DEF Below
<1>2. ASSUME NEW g \in Below(f) PROVE g \in Cascade(f)
  BY <1>1, <1>2 DEF Cascade
<1>3. ASSUME NEW h \in Cascade(f), NEW g \in Below(h) PROVE g \in Cascade(f)
  BY <1>1, <1>3 DEF Cascade
<1> QED BY <1>2, <1>3

\* ... and nothing else.
LEMMA CascadeIsLeast ==
    ASSUME NEW f \in Folders, NEW S \in SUBSET Folders, Below(f) \subseteq S, \A h \in S : Below(h) \subseteq S
    PROVE  Cascade(f) \subseteq S
  BY DEF Cascade

\* No folders, and nobody at work on them.
LEMMA FoldersStart == FoldersInit => FoldersInv
<1> SUFFICES ASSUME FoldersInit PROVE FoldersInv
  OBVIOUS
<1>1. Off \in ClerkCalls /\ Off.pc = "off"
  BY DEF ClerkCalls, Off
<1>2. /\ above = [f \in Folders |-> NoFolder] /\ clerk = [c \in Clerks |-> Off]
      /\ \A c \in Clerks : clerk[c].pc = "off"
  BY <1>1 DEF FoldersInit
<1>3. \A f \in Folders : above[f] \notin Folders
  BY <1>2, FoldersAssumption
<1>4. FoldersTypes
  BY <1>1, <1>2 DEF FoldersTypes
<1>5. FoldersFit
  BY <1>2, <1>3 DEF FoldersFit, DeletesFolder
<1>6. FoldersRanked
  <2>1. [f \in Folders |-> 0] \in [Folders -> Nat]
    OBVIOUS
  <2>2. FitsRank([f \in Folders |-> 0])
    BY <1>2, <1>3 DEF FitsRank, DeletesFolder
  <2> QED BY <2>1, <2>2 DEF FoldersRanked
<1>7. EmptiedFits
  BY <1>2 DEF EmptiedFits
<1> QED BY <1>4, <1>5, <1>6, <1>7 DEF FoldersInv

\* A request may go on, or end, with a folder and a parent that are known and ranked,
\* while the folders stay where they are.
LEMMA ClerkGoesOn ==
    ASSUME FoldersInv, NEW c \in Clerks, NEW w \in ClerkCalls, clerk' = [clerk EXCEPT ![c] = w],
           above' = above, vanished' = vanished, late' = late,
           w.pc = "create" => /\ ~Seen(w.folder) /\ (w.parent \in Folders => Seen(w.parent))
                              /\ \A o \in Clerks : clerk[o] # Off => clerk[o].folder # w.folder,
           w.pc \in {"move", "moved"} =>
             \/ w.parent = above[w.folder] /\ Has(w.folder)
             \/ DeletesFolder(c) /\ w.folder = clerk[c].folder /\ w.parent = clerk[c].parent,
           w.pc # "emptied"
    PROVE  FoldersInv'
<1>t. FoldersTypes /\ FoldersFit /\ FoldersRanked /\ EmptiedFits
  BY DEF FoldersInv
<1>1. clerk' \in [Clerks -> ClerkCalls] /\ clerk'[c] = w /\ \A o \in Clerks \ {c} : clerk'[o] = clerk[o]
  BY <1>t DEF FoldersTypes
<1>2. \A f : Seen(f)' = Seen(f) /\ Has(f)' = Has(f) /\ Below(f)' = Below(f)
  BY DEF Seen, Has, Below
<1>3. w.pc \in {"move", "moved"} \/ w.pc = "off" \/ w.pc = "create"
  BY ClerkCarries
<1>4. w.pc # "off" => w.folder \in Folders
  BY ClerkCarries
<1>5. \A o \in Clerks : clerk[o].pc = "create" => clerk[o] # Off
  BY DEF Off
<1>6. FoldersTypes'
  BY <1>1, <1>t DEF FoldersTypes
<1>7. FoldersFit'
  <2>1. \A f \in Folders : above'[f] \in Folders => Has(above[f])'
    BY <1>2, <1>t DEF FoldersFit
  <2>2. \A o \in Clerks : DeletesFolder(o)' => Seen(clerk[o].folder)'
    BY <1>1, <1>2, <1>3, <1>t DEF FoldersFit, DeletesFolder, Seen
  <2>3. \A o \in Clerks : (DeletesFolder(o)' \/ clerk'[o].pc = "create") /\ clerk'[o].parent \in Folders
          => Seen(clerk[o].parent)'
    BY <1>1, <1>2, <1>3, <1>4, <1>t DEF FoldersFit, DeletesFolder, Seen
  <2>4. \A o \in Clerks : clerk'[o].pc = "create" => ~Seen(clerk[o].folder)'
    BY <1>1, <1>2, <1>t DEF FoldersFit
  <2>5. \A o \in Clerks : clerk'[o].pc = "create" =>
          \A d \in Clerks \ {o} : clerk'[d].pc = "create" => clerk'[d].folder # clerk'[o].folder
    BY <1>1, <1>5, <1>t DEF FoldersFit
  <2> QED BY <2>1, <2>2, <2>3, <2>4, <2>5 DEF FoldersFit
<1>8. FoldersRanked'
  <2>1. PICK rank \in [Folders -> Nat] : FitsRank(rank)
    BY <1>t DEF FoldersRanked
  <2>2. FitsRank(rank)'
    BY <1>1, <1>3, <1>4, <2>1 DEF FitsRank, DeletesFolder
  <2> QED BY <2>2 DEF FoldersRanked
<1>9. EmptiedFits'
  BY <1>1, <1>2, <1>t DEF EmptiedFits
<1> QED BY <1>6, <1>7, <1>8, <1>9 DEF FoldersInv

\* The new folder comes after the one it is put under.
LEMMA InsertFolderKeeps ==
    ASSUME FoldersInv, NEW c \in Clerks, InsertFolder(c)
    PROVE  FoldersInv'
<1>t. FoldersTypes /\ FoldersFit /\ FoldersRanked /\ EmptiedFits
  BY DEF FoldersInv
<1>0. Off \in ClerkCalls /\ Off.pc = "off"
  BY DEF ClerkCalls, Off
<1>1. PICK f \in Folders, p \in Parents : clerk[c].folder = f /\ clerk[c].parent = p
  BY <1>t, ClerkCarries DEF InsertFolder, FoldersTypes
<1>2. clerk[c].pc = "create" /\ clerk' = [clerk EXCEPT ![c] = Off] /\ vanished' = vanished
  BY DEF InsertFolder
<1>3. CASE UNCHANGED <<above, late>>
  BY <1>0, <1>2, <1>3, ClerkGoesOn
<1>4. CASE ~UNCHANGED <<above, late>>
  <2>1. /\ p = Root \/ Has(p)
        /\ above' = [above EXCEPT ![f] = p]
        /\ late' = IF p # Root /\ Emptied(p) THEN late \cup {f} ELSE late
    BY <1>1, <1>4 DEF InsertFolder
  <2>2. /\ clerk' \in [Clerks -> ClerkCalls] /\ clerk'[c] = Off
        /\ \A o \in Clerks \ {c} : clerk'[o] = clerk[o]
    BY <1>0, <1>2, <1>t DEF FoldersTypes
  <2>3. /\ above' \in [Folders -> Parents \cup {NoFolder}] /\ above'[f] = p
        /\ \A g \in Folders \ {f} : above'[g] = above[g]
    BY <2>1, <1>t DEF FoldersTypes
  <2>4. ~Has(f) /\ ~Seen(f) /\ f \notin vanished
    BY <1>1, <1>2, <1>t DEF FoldersFit, Seen
  <2>5. p # f /\ p # NoFolder /\ Root # NoFolder
    <3>1. Root # NoFolder
      BY DEF Root, NoFolder
    <3> QED BY <2>1, <2>4, <3>1, FoldersAssumption DEF Parents
  <2>6. /\ Has(f)' /\ \A g \in Folders \ {f} : Has(g)' = Has(g)
        /\ \A g \in Folders \ {f} : Seen(g)' = Seen(g)
    BY <1>2, <2>3, <2>5 DEF Has, Seen
  <2>7. \A o \in Clerks : clerk'[o].pc # "off" => o # c /\ clerk'[o] = clerk[o]
    BY <1>0, <2>2
  <2>8. FoldersTypes'
    BY <2>2, <2>3 DEF FoldersTypes
  <2>9. \A o \in Clerks : DeletesFolder(o) => clerk[o].folder \in Folders /\ clerk[o].folder # f
    BY <1>t, <2>4, ClerkCarries DEF FoldersTypes, FoldersFit, DeletesFolder
  <2>10. \A o \in Clerks : clerk[o].pc = "create" /\ o # c => clerk[o].folder \in Folders /\ clerk[o].folder # f
    <3>1. \A o \in Clerks \ {c} : clerk[o].pc = "create" => clerk[o].folder # f
      BY <1>1, <1>2, <1>t DEF FoldersFit
    <3>2. \A o \in Clerks : clerk[o].pc = "create" => clerk[o].folder \in Folders
      <4> SUFFICES ASSUME NEW o \in Clerks, clerk[o].pc = "create" PROVE clerk[o].folder \in Folders
        OBVIOUS
      <4>1. clerk[o] \in ClerkCalls /\ clerk[o].pc # "off"
        BY <1>t DEF FoldersTypes
      <4> QED BY <4>1, ClerkCarries
    <3> QED BY <3>1, <3>2
  <2>11. FoldersFit'
    <3>1. ASSUME NEW g \in Folders, above'[g] \in Folders PROVE Has(above[g])'
      <4>1. CASE g = f
        <5>1. above'[g] = p /\ Has(p) /\ p \in Folders \ {f}
          BY <3>1, <4>1, <2>1, <2>3, <2>5, FoldersAssumption
        <5> QED BY <5>1, <2>3 DEF Has
      <4>2. CASE g # f
        <5>1. above'[g] = above[g] /\ Has(above[g]) /\ above[g] \in Folders \ {f}
          BY <3>1, <4>2, <2>3, <2>4, <1>t DEF FoldersFit
        <5> QED BY <5>1, <2>3 DEF Has
      <4> QED BY <4>1, <4>2
    <3>2. \A o \in Clerks : DeletesFolder(o)' => Seen(clerk[o].folder)'
      BY <2>6, <2>7, <2>9, <1>t DEF FoldersFit, DeletesFolder
    <3>3. \A o \in Clerks : (DeletesFolder(o)' \/ clerk'[o].pc = "create") /\ clerk'[o].parent \in Folders
            => Seen(clerk[o].parent)'
      BY <2>6, <2>7, <1>t DEF FoldersFit, DeletesFolder, Seen
    <3>4. \A o \in Clerks : clerk'[o].pc = "create" => ~Seen(clerk[o].folder)'
      BY <2>6, <2>7, <2>10, <1>t DEF FoldersFit
    <3>5. \A o \in Clerks : clerk'[o].pc = "create" =>
            \A d \in Clerks \ {o} : clerk'[d].pc = "create" => clerk'[d].folder # clerk'[o].folder
      BY <2>7, <1>t DEF FoldersFit
    <3> QED BY <3>1, <3>2, <3>3, <3>4, <3>5 DEF FoldersFit
  <2>12. FoldersRanked'
    <3>1. PICK rank \in [Folders -> Nat] : FitsRank(rank)
      BY <1>t DEF FoldersRanked
    <3>2. PICK n \in Nat : p \in Folders => rank[p] < n
      <4>1. CASE p \in Folders
        <5>1. rank[p] + 1 \in Nat /\ rank[p] < rank[p] + 1
          BY <4>1
        <5> QED BY <5>1
      <4>2. CASE p \notin Folders
        BY <4>2
      <4> QED BY <4>1, <4>2
    <3>3. PICK later \in [Folders -> Nat] : later[f] = n /\ \A g \in Folders \ {f} : later[g] = rank[g]
      <4>1. [rank EXCEPT ![f] = n] \in [Folders -> Nat]
        OBVIOUS
      <4> QED BY <4>1
    <3>4. \A g \in Folders : above'[g] \in Folders => later[above'[g]] < later[g]
      <4> SUFFICES ASSUME NEW g \in Folders, above'[g] \in Folders PROVE later[above'[g]] < later[g]
        OBVIOUS
      <4>1. CASE g = f
        BY <4>1, <2>3, <2>5, <3>2, <3>3
      <4>2. CASE g # f
        <5>1. above'[g] = above[g] /\ above[g] # f
          BY <4>2, <2>3, <2>4, <1>t DEF FoldersFit
        <5> QED BY <4>2, <5>1, <3>1, <3>3 DEF FitsRank
      <4> QED BY <4>1, <4>2
    <3>5. ASSUME NEW o \in Clerks, DeletesFolder(o)', clerk'[o].parent \in Folders
          PROVE  later[clerk'[o].parent] < later[clerk'[o].folder]
      <4>1. clerk'[o] = clerk[o] /\ DeletesFolder(o)
        BY <3>5, <2>7 DEF DeletesFolder
      <4>2. clerk[o].parent # f /\ clerk[o].folder # f /\ clerk[o].folder \in Folders
        BY <3>5, <4>1, <2>4, <2>9, <1>t DEF FoldersFit
      <4> QED BY <3>1, <3>3, <3>5, <4>1, <4>2 DEF FitsRank
    <3>6. FitsRank(later)'
      BY <3>4, <3>5 DEF FitsRank
    <3> QED BY <3>6 DEF FoldersRanked
  <2>13. EmptiedFits'
    <3> SUFFICES ASSUME NEW o \in Clerks, clerk'[o].pc = "emptied", NEW g \in Below(clerk[o].folder)'
                 PROVE  g \in late'
      BY DEF EmptiedFits
    <3>1. clerk'[o] = clerk[o] /\ g \in Folders /\ above'[g] = clerk[o].folder
      BY <2>7 DEF Below
    <3>2. CASE g = f
      <4>1. p = clerk[o].folder /\ p \in Folders
        BY <3>1, <3>2, <2>3, <2>9 DEF DeletesFolder
      <4>2. Emptied(p) /\ p # Root
        BY <3>1, <4>1, FoldersAssumption DEF Emptied
      <4> QED BY <2>1, <3>2, <4>2
    <3>3. CASE g # f
      BY <3>1, <3>3, <2>1, <2>3, <1>t DEF EmptiedFits, Below
    <3> QED BY <3>2, <3>3
  <2> QED BY <2>8, <2>11, <2>12, <2>13 DEF FoldersInv
<1> QED BY <1>3, <1>4

\* A request takes a folder to be created or to be deleted.
LEMMA ClerkBeginsKeeps ==
    ASSUME FoldersInv, NEW c \in Clerks, FolderCreate(c) \/ FolderDelete(c) \/ MoveAssets(c)
    PROVE  FoldersInv'
<1>t. FoldersTypes /\ FoldersFit
  BY DEF FoldersInv
<1>0. Off \in ClerkCalls /\ Off.pc = "off"
  BY DEF ClerkCalls, Off
<1>1. UNCHANGED <<above, late, vanished>>
  BY DEF FolderCreate, FolderDelete, MoveAssets
<1>2. ASSUME clerk' = [clerk EXCEPT ![c] = Off] PROVE FoldersInv'
  BY <1>0, <1>1, <1>2, ClerkGoesOn
<1>3. CASE FolderCreate(c)
  <2>1. PICK f \in Folders, holder \in {Root} \cup {g \in Folders : Has(g)}, name \in Names :
         /\ FreshFolder(f) /\ \A o \in Clerks : clerk[o] # Off => clerk[o].folder # f
         /\ \/ clerk' = [clerk EXCEPT ![c] = Off]
            \/ clerk' = [clerk EXCEPT ![c] = [pc |-> "create", folder |-> f, parent |-> holder, name |-> name]]
    BY <1>3 DEF FolderCreate
  <2>2. PICK w \in ClerkCalls : /\ w = [pc |-> "create", folder |-> f, parent |-> holder, name |-> name]
                                /\ w.pc = "create" /\ w.folder = f /\ w.parent = holder
    <3>1. [pc |-> "create", folder |-> f, parent |-> holder, name |-> name] \in ClerkCalls
      BY DEF ClerkCalls, Parents
    <3> QED BY <3>1
  <2>3. ~Seen(f) /\ (holder \in Folders => Seen(holder))
    BY <2>1, FoldersAssumption DEF FreshFolder, Seen
  <2>4. CASE clerk' = [clerk EXCEPT ![c] = w]
    BY <1>1, <2>1, <2>2, <2>3, <2>4, ClerkGoesOn
  <2> QED BY <1>2, <2>1, <2>2, <2>4
<1>4. CASE FolderDelete(c)
  <2>1. PICK f \in Folders : Has(f) /\ clerk' = [clerk EXCEPT ![c] = [pc |-> "move", folder |-> f, parent |-> above[f]]]
    BY <1>4 DEF FolderDelete
  <2>2. PICK w \in ClerkCalls : /\ w = [pc |-> "move", folder |-> f, parent |-> above[f]]
                                /\ w.pc = "move" /\ w.folder = f /\ w.parent = above[f]
    <3>1. above[f] \in Parents
      BY <2>1, <1>t DEF FoldersTypes, Has
    <3>2. [pc |-> "move", folder |-> f, parent |-> above[f]] \in ClerkCalls
      BY <3>1 DEF ClerkCalls
    <3> QED BY <3>2
  <2> QED BY <1>1, <2>1, <2>2, ClerkGoesOn
<1>5. CASE MoveAssets(c)
  <2>1. clerk[c].pc = "move" /\ (\/ clerk' = [clerk EXCEPT ![c] = Off]
                                 \/ clerk' = [clerk EXCEPT ![c] = [clerk[c] EXCEPT !.pc = "moved"]])
    BY <1>5 DEF MoveAssets
  <2>2. clerk[c] \in [pc : {"move", "moved", "emptied"}, folder : Folders, parent : Parents]
    BY <2>1, <1>0, <1>t DEF FoldersTypes, ClerkCalls
  <2>3. PICK w \in ClerkCalls : /\ w = [clerk[c] EXCEPT !.pc = "moved"] /\ w.pc = "moved"
                                /\ w.folder = clerk[c].folder /\ w.parent = clerk[c].parent
    <3>1. [clerk[c] EXCEPT !.pc = "moved"] \in [pc : {"move", "moved", "emptied"}, folder : Folders, parent : Parents]
      BY <2>2
    <3>2. PICK w \in [pc : {"move", "moved", "emptied"}, folder : Folders, parent : Parents] :
            w = [clerk[c] EXCEPT !.pc = "moved"]
      BY <3>1
    <3>3. w.pc = "moved" /\ w.folder = clerk[c].folder /\ w.parent = clerk[c].parent
      BY <2>2, <3>2
    <3> QED BY <3>2, <3>3 DEF ClerkCalls
  <2>4. CASE clerk' = [clerk EXCEPT ![c] = w]
    BY <1>1, <2>1, <2>3, <2>4, ClerkGoesOn DEF DeletesFolder
  <2> QED BY <1>2, <2>1, <2>3, <2>4
<1> QED BY <1>3, <1>4, <1>5

\* The subfolders go where the deleted one was, and are late if that was emptied.
LEMMA MoveSubfoldersKeeps ==
    ASSUME FoldersInv, NEW c \in Clerks, MoveSubfolders(c)
    PROVE  FoldersInv'
<1>t. FoldersTypes /\ FoldersFit /\ FoldersRanked /\ EmptiedFits
  BY DEF FoldersInv
<1>0. Off \in ClerkCalls /\ Off.pc = "off"
  BY DEF ClerkCalls, Off
<1>1. PICK x \in Folders, p \in Parents : clerk[c].folder = x /\ clerk[c].parent = p
  BY <1>t, ClerkCarries DEF MoveSubfolders, FoldersTypes
<1>2. clerk[c].pc = "moved" /\ vanished' = vanished
  BY DEF MoveSubfolders
<1>3. CASE UNCHANGED <<above, late>> /\ clerk' = [clerk EXCEPT ![c] = Off]
  BY <1>0, <1>2, <1>3, ClerkGoesOn
<1>4. CASE ~(UNCHANGED <<above, late>> /\ clerk' = [clerk EXCEPT ![c] = Off])
  <2>1. /\ p = Root \/ Has(p) \/ Below(x) = {}
        /\ above' = Gives(x, p)
        /\ late' = IF p # Root /\ Emptied(p) THEN late \cup Below(x) ELSE late
        /\ clerk' = [clerk EXCEPT ![c] = [clerk[c] EXCEPT !.pc = "emptied"]]
    BY <1>1, <1>4 DEF MoveSubfolders
  <2>2. clerk[c] \in [pc : {"move", "moved", "emptied"}, folder : Folders, parent : Parents]
    BY <1>2, <1>0, <1>t DEF FoldersTypes, ClerkCalls
  <2>3. PICK w \in ClerkCalls : /\ w = [clerk[c] EXCEPT !.pc = "emptied"] /\ w.pc = "emptied"
                                /\ w.folder = x /\ w.parent = p
    <3>1. [clerk[c] EXCEPT !.pc = "emptied"] \in [pc : {"move", "moved", "emptied"}, folder : Folders, parent : Parents]
      BY <2>2
    <3>2. PICK w \in [pc : {"move", "moved", "emptied"}, folder : Folders, parent : Parents] :
            w = [clerk[c] EXCEPT !.pc = "emptied"]
      BY <3>1
    <3>3. w.pc = "emptied" /\ w.folder = x /\ w.parent = p
      BY <1>1, <2>2, <3>2
    <3> QED BY <3>2, <3>3 DEF ClerkCalls
  <2>4. /\ clerk' \in [Clerks -> ClerkCalls] /\ clerk'[c] = w
        /\ \A o \in Clerks \ {c} : clerk'[o] = clerk[o]
    BY <2>1, <2>3, <1>t DEF FoldersTypes
  <2>5. \A o \in Clerks : /\ (DeletesFolder(o)' => DeletesFolder(o)) /\ (clerk'[o].pc = "create" => clerk[o].pc = "create")
                          /\ clerk'[o].folder = clerk[o].folder /\ clerk'[o].parent = clerk[o].parent
                          /\ o # c => clerk'[o] = clerk[o]
    <3> SUFFICES ASSUME NEW o \in Clerks
                 PROVE  /\ (DeletesFolder(o)' => DeletesFolder(o)) /\ (clerk'[o].pc = "create" => clerk[o].pc = "create")
                        /\ clerk'[o].folder = clerk[o].folder /\ clerk'[o].parent = clerk[o].parent
                        /\ o # c => clerk'[o] = clerk[o]
      OBVIOUS
    <3>1. CASE o = c
      BY <3>1, <1>1, <1>2, <2>3, <2>4 DEF DeletesFolder
    <3>2. CASE o # c
      BY <3>2, <2>4 DEF DeletesFolder
    <3> QED BY <3>1, <3>2
  <2>6. \A g \in Folders : above'[g] = IF above[g] = x THEN p ELSE above[g]
    BY <2>1 DEF Gives
  <2>7. Root # NoFolder /\ p # NoFolder /\ x # NoFolder
    <3>1. Root # NoFolder
      BY DEF Root, NoFolder
    <3> QED BY <3>1, FoldersAssumption DEF Parents
  <2>8. \A g \in Folders : Has(g)' = Has(g) /\ Seen(g)' = Seen(g)
    BY <1>2, <2>6, <2>7 DEF Has, Seen
  <2>9. PICK rank \in [Folders -> Nat] : FitsRank(rank)
    BY <1>t DEF FoldersRanked
  <2>10. p # x /\ (p \in Folders => rank[p] < rank[x])
    <3>1. DeletesFolder(c)
      BY <1>2 DEF DeletesFolder
    <3>2. p \in Folders => rank[p] < rank[x]
      BY <1>1, <2>9, <3>1 DEF FitsRank
    <3> QED BY <3>2
  <2>11. FoldersTypes'
    <3>1. above' \in [Folders -> Parents \cup {NoFolder}]
      BY <2>1, <1>t DEF FoldersTypes, Gives
    <3> QED BY <3>1, <2>4 DEF FoldersTypes
  <2>12. FoldersFit'
    <3>1. ASSUME NEW g \in Folders, above'[g] \in Folders PROVE Has(above[g])'
      <4>1. CASE above[g] = x
        BY <3>1, <4>1, <2>1, <2>6, <2>8, FoldersAssumption DEF Below
      <4>2. CASE above[g] # x
        BY <3>1, <4>2, <2>6, <2>8, <1>t DEF FoldersFit
      <4> QED BY <4>1, <4>2
    <3>a. \A o \in Clerks : clerk'[o].pc # "off" => clerk'[o].folder \in Folders
      BY <2>4, ClerkCarries
    <3>2. \A o \in Clerks : DeletesFolder(o)' => Seen(clerk[o].folder)'
      <4> SUFFICES ASSUME NEW o \in Clerks, DeletesFolder(o)' PROVE Seen(clerk[o].folder)'
        OBVIOUS
      <4>1. DeletesFolder(o) /\ clerk'[o].pc # "off" /\ clerk'[o].folder = clerk[o].folder /\ clerk'[o].folder \in Folders
        BY <2>5, <3>a DEF DeletesFolder
      <4>2. Seen(clerk[o].folder)
        BY <4>1, <1>t DEF FoldersFit
      <4> QED BY <4>1, <4>2, <2>8
    <3>3. \A o \in Clerks : (DeletesFolder(o)' \/ clerk'[o].pc = "create") /\ clerk'[o].parent \in Folders
            => Seen(clerk[o].parent)'
      <4> SUFFICES ASSUME NEW o \in Clerks, DeletesFolder(o)' \/ clerk'[o].pc = "create", clerk'[o].parent \in Folders
                   PROVE  Seen(clerk[o].parent)'
        OBVIOUS
      <4>1. (DeletesFolder(o) \/ clerk[o].pc = "create") /\ clerk'[o].pc # "off" /\ clerk'[o].parent = clerk[o].parent
        BY <2>5 DEF DeletesFolder
      <4>2. Seen(clerk[o].parent)
        BY <4>1, <1>t DEF FoldersFit
      <4> QED BY <4>1, <4>2, <2>8
    <3>4. \A o \in Clerks : clerk'[o].pc = "create" => ~Seen(clerk[o].folder)'
      <4> SUFFICES ASSUME NEW o \in Clerks, clerk'[o].pc = "create" PROVE ~Seen(clerk[o].folder)'
        OBVIOUS
      <4>1. clerk[o].pc = "create" /\ clerk'[o].folder = clerk[o].folder /\ clerk'[o].folder \in Folders
        BY <2>5, <3>a
      <4>2. ~Seen(clerk[o].folder)
        BY <4>1, <1>t DEF FoldersFit
      <4> QED BY <4>1, <4>2, <2>8
    <3>5. \A o \in Clerks : clerk'[o].pc = "create" =>
            \A d \in Clerks \ {o} : clerk'[d].pc = "create" => clerk'[d].folder # clerk'[o].folder
      BY <2>5, <1>t DEF FoldersFit
    <3> QED BY <3>1, <3>2, <3>3, <3>4, <3>5 DEF FoldersFit
  <2>13. FoldersRanked'
    <3>1. ASSUME NEW g \in Folders, above'[g] \in Folders PROVE rank[above'[g]] < rank[g]
      <4>1. CASE above[g] = x
        <5>1. rank[x] < rank[g] /\ p \in Folders /\ above'[g] = p
          BY <3>1, <4>1, <2>6, <2>9 DEF FitsRank
        <5>2. rank[x] \in Nat /\ rank[g] \in Nat /\ rank[p] \in Nat
          BY <5>1
        <5> QED BY <5>1, <5>2, <2>10
      <4>2. CASE above[g] # x
        BY <3>1, <4>2, <2>6, <2>9 DEF FitsRank
      <4> QED BY <4>1, <4>2
    <3>2. ASSUME NEW o \in Clerks, DeletesFolder(o)', clerk'[o].parent \in Folders
          PROVE  rank[clerk'[o].parent] < rank[clerk'[o].folder]
      <4>1. DeletesFolder(o) /\ clerk'[o].folder = clerk[o].folder /\ clerk'[o].parent = clerk[o].parent
        BY <3>2, <2>5 DEF DeletesFolder
      <4> QED BY <3>2, <4>1, <2>9 DEF FitsRank
    <3>3. FitsRank(rank)'
      BY <3>1, <3>2 DEF FitsRank
    <3> QED BY <3>3 DEF FoldersRanked
  <2>14. EmptiedFits'
    <3> SUFFICES ASSUME NEW o \in Clerks, clerk'[o].pc = "emptied", NEW g \in Below(clerk[o].folder)'
                 PROVE  g \in late'
      BY DEF EmptiedFits
    <3>1. g \in Folders /\ above'[g] = clerk'[o].folder
      BY DEF Below
    <3>2. CASE o = c
      BY <3>1, <3>2, <2>3, <2>4, <2>6, <2>10
    <3>3. CASE o # c
      <4>1. clerk'[o] = clerk[o] /\ clerk[o].folder \in Folders /\ clerk[o].pc = "emptied"
        BY <3>3, <2>4, ClerkCarries
      <4>2. CASE above[g] = x
        <5>1. p = clerk[o].folder /\ p # Root /\ g \in Below(x)
          BY <3>1, <4>1, <4>2, <2>6, FoldersAssumption DEF Below
        <5>2. Emptied(p)
          BY <4>1, <5>1 DEF Emptied
        <5> QED BY <5>1, <5>2, <2>1
      <4>3. CASE above[g] # x
        BY <3>1, <4>1, <4>3, <2>1, <2>6, <1>t DEF EmptiedFits, Below
      <4> QED BY <4>2, <4>3
    <3> QED BY <3>2, <3>3
  <2> QED BY <2>11, <2>12, <2>13, <2>14 DEF FoldersInv
<1> QED BY <1>3, <1>4

\* A folder goes, with all that is under it.
LEMMA DeleteFolderKeeps ==
    ASSUME FoldersInv, NEW c \in Clerks, DeleteFolder(c)
    PROVE  FoldersInv'
<1>t. FoldersTypes /\ FoldersFit /\ FoldersRanked /\ EmptiedFits
  BY DEF FoldersInv
<1>0. Off \in ClerkCalls /\ Off.pc = "off"
  BY DEF ClerkCalls, Off
<1>1. PICK x \in Folders : clerk[c].folder = x
  BY <1>t, ClerkCarries DEF DeleteFolder, FoldersTypes
<1>2. clerk' = [clerk EXCEPT ![c] = Off] /\ late' = late
  BY DEF DeleteFolder
<1>3. CASE ~Has(x)
  <2>1. above' = [g \in Folders |-> above[g]] /\ vanished' = vanished
    BY <1>1, <1>3 DEF DeleteFolder
  <2>2. above' = above
    BY <2>1, <1>t DEF FoldersTypes
  <2> QED BY <1>0, <1>2, <2>1, <2>2, ClerkGoesOn
<1>4. CASE Has(x)
  <2>1. PICK gone \in SUBSET Folders :
          /\ gone = Cascade(x) \cup {x}
          /\ above' = [g \in Folders |-> IF g \in gone THEN NoFolder ELSE above[g]]
          /\ vanished' = vanished \cup gone
    BY <1>1, <1>4 DEF DeleteFolder, Cascade
  <2>2. \A g \in gone : Has(g)
    <3>1. Cascade(x) \subseteq {g \in Folders : Has(g)}
      <4>1. \A f \in Folders : Below(f) \subseteq {g \in Folders : Has(g)}
        BY FoldersAssumption DEF Below, Has
      <4> QED BY <4>1, CascadeIsLeast
    <3> QED BY <1>4, <2>1, <3>1
  <2>3. \A h \in gone : Below(h) \subseteq gone
    BY <2>1, CascadeIsClosed
  <2>4. \A g \in Folders : /\ above'[g] = IF g \in gone THEN NoFolder ELSE above[g]
                           /\ Has(g)' = (Has(g) /\ g \notin gone)
                           /\ Seen(g)' = Seen(g)
    BY <2>1, <2>2 DEF Has, Seen
  <2>5. /\ clerk' \in [Clerks -> ClerkCalls] /\ \A o \in Clerks : clerk'[o].pc # "off" => clerk'[o] = clerk[o]
    BY <1>0, <1>2, <1>t DEF FoldersTypes
  <2>6. \A o \in Clerks : clerk'[o].pc # "off" => clerk'[o].folder \in Folders
    BY <2>5, ClerkCarries
  <2>7. \A g \in Folders : above'[g] \in Folders => above'[g] = above[g] /\ g \notin gone
    BY <2>4, FoldersAssumption
  <2>8. FoldersTypes'
    <3>1. above' \in [Folders -> Parents \cup {NoFolder}]
      BY <2>1, <1>t DEF FoldersTypes
    <3> QED BY <3>1, <2>5 DEF FoldersTypes
  <2>9. FoldersFit'
    <3>1. ASSUME NEW g \in Folders, above'[g] \in Folders PROVE Has(above[g])'
      <4>1. above'[g] = above[g] /\ g \notin gone
        BY <3>1, <2>7
      <4>2. above[g] \notin gone
        BY <2>3, <4>1 DEF Below
      <4> QED BY <3>1, <4>1, <4>2, <2>4, <1>t DEF FoldersFit
    <3>2. \A o \in Clerks : DeletesFolder(o)' => Seen(clerk[o].folder)'
      <4> SUFFICES ASSUME NEW o \in Clerks, DeletesFolder(o)' PROVE Seen(clerk[o].folder)'
        OBVIOUS
      <4>1. clerk'[o].pc # "off"
        BY DEF DeletesFolder
      <4>2. DeletesFolder(o) /\ clerk'[o] = clerk[o] /\ clerk[o].folder \in Folders
        BY <4>1, <2>5, <2>6 DEF DeletesFolder
      <4>3. Seen(clerk[o].folder)
        BY <4>2, <1>t DEF FoldersFit
      <4> QED BY <4>2, <4>3, <2>4
    <3>3. \A o \in Clerks : (DeletesFolder(o)' \/ clerk'[o].pc = "create") /\ clerk'[o].parent \in Folders
            => Seen(clerk[o].parent)'
      <4> SUFFICES ASSUME NEW o \in Clerks, DeletesFolder(o)' \/ clerk'[o].pc = "create", clerk'[o].parent \in Folders
                   PROVE  Seen(clerk[o].parent)'
        OBVIOUS
      <4>1. clerk'[o].pc # "off"
        BY DEF DeletesFolder
      <4>2. (DeletesFolder(o) \/ clerk[o].pc = "create") /\ clerk'[o] = clerk[o]
        BY <4>1, <2>5 DEF DeletesFolder
      <4>3. Seen(clerk[o].parent)
        BY <4>2, <1>t DEF FoldersFit
      <4> QED BY <4>2, <4>3, <2>4
    <3>4. \A o \in Clerks : clerk'[o].pc = "create" => ~Seen(clerk[o].folder)'
      <4> SUFFICES ASSUME NEW o \in Clerks, clerk'[o].pc = "create" PROVE ~Seen(clerk[o].folder)'
        OBVIOUS
      <4>1. clerk[o].pc = "create" /\ clerk'[o] = clerk[o] /\ clerk[o].folder \in Folders
        BY <2>5, <2>6
      <4>2. ~Seen(clerk[o].folder)
        BY <4>1, <1>t DEF FoldersFit
      <4> QED BY <4>1, <4>2, <2>4
    <3>5. \A o \in Clerks : clerk'[o].pc = "create" =>
            \A d \in Clerks \ {o} : clerk'[d].pc = "create" => clerk'[d].folder # clerk'[o].folder
      BY <2>5, <1>t DEF FoldersFit
    <3> QED BY <3>1, <3>2, <3>3, <3>4, <3>5 DEF FoldersFit
  <2>10. FoldersRanked'
    <3>1. PICK rank \in [Folders -> Nat] : FitsRank(rank)
      BY <1>t DEF FoldersRanked
    <3>2. \A o \in Clerks : DeletesFolder(o)' => DeletesFolder(o) /\ clerk'[o] = clerk[o]
      BY <2>5 DEF DeletesFolder
    <3>3. FitsRank(rank)'
      BY <2>7, <3>1, <3>2 DEF FitsRank
    <3> QED BY <3>3 DEF FoldersRanked
  <2>11. EmptiedFits'
    <3> SUFFICES ASSUME NEW o \in Clerks, clerk'[o].pc = "emptied", NEW g \in Below(clerk[o].folder)'
                 PROVE  g \in late'
      BY DEF EmptiedFits
    <3>1. clerk'[o] = clerk[o] /\ g \in Folders /\ above'[g] = clerk[o].folder /\ clerk[o].folder \in Folders
      BY <2>5, <2>6 DEF Below
    <3>2. above[g] = clerk[o].folder
      BY <3>1, <2>7
    <3> QED BY <3>1, <3>2, <1>2, <1>t DEF EmptiedFits, Below
  <2> QED BY <2>8, <2>9, <2>10, <2>11 DEF FoldersInv
<1> QED BY <1>3, <1>4

\* Every step keeps the folders in order.
LEMMA FoldersStep ==
    ASSUME FoldersInv, [FoldersNext]_FolderVars
    PROVE  FoldersInv'
<1>1. ASSUME UNCHANGED <<above, clerk, vanished, late>> PROVE FoldersInv'
  <2>1. \A f : Has(f)' = Has(f) /\ Seen(f)' = Seen(f) /\ Below(f)' = Below(f)
    BY <1>1 DEF Has, Seen, Below
  <2>2. \A c : DeletesFolder(c)' = DeletesFolder(c)
    BY <1>1 DEF DeletesFolder
  <2>3. \A rank : FitsRank(rank)' = FitsRank(rank)
    BY <1>1, <2>2 DEF FitsRank
  <2>4. FoldersTypes' /\ EmptiedFits'
    BY <1>1, <2>1 DEF FoldersInv, FoldersTypes, EmptiedFits
  <2>5. FoldersFit'
    BY <1>1, <2>1, <2>2 DEF FoldersInv, FoldersFit
  <2>6. FoldersRanked'
    BY <2>3 DEF FoldersInv, FoldersRanked
  <2> QED BY <2>4, <2>5, <2>6 DEF FoldersInv
<1>2. ASSUME NEW c \in Clerks, FolderRename(c) \/ AssetMove(c) PROVE FoldersInv'
  BY <1>1, <1>2 DEF FolderRename, AssetMove
<1>3. CASE UNCHANGED FolderVars
  BY <1>1, <1>3 DEF FolderVars
<1> QED
  BY <1>2, <1>3, InsertFolderKeeps, ClerkBeginsKeeps, MoveSubfoldersKeeps, DeleteFolderKeeps DEF FoldersNext

\* Folders that are ranked form trees.
LEMMA RankedFormTrees == FoldersInv => FoldersFormTrees
<1> SUFFICES ASSUME FoldersInv, NEW S \in SUBSET Folders, S # {} PROVE \E f \in S : above[f] \notin S
  BY DEF FoldersFormTrees
<1>1. PICK rank \in [Folders -> Nat] : FitsRank(rank)
  BY DEF FoldersInv, FoldersRanked
<1>2. PICK n \in {rank[f] : f \in S} : \A m \in {rank[f] : f \in S} : n <= m
  <2>1. {rank[f] : f \in S} \subseteq Nat /\ {rank[f] : f \in S} # {}
    OBVIOUS
  <2> QED BY <2>1, Smallest
<1>3. PICK f \in S : n = rank[f]
  BY <1>2
<1>4. above[f] \notin S
  <2> SUFFICES ASSUME above[f] \in S PROVE FALSE
    OBVIOUS
  <2>1. rank[above[f]] < rank[f] /\ rank[f] <= rank[above[f]]
    BY <1>1, <1>2, <1>3 DEF FitsRank
  <2>2. rank[above[f]] \in Nat /\ rank[f] \in Nat
    OBVIOUS
  <2> QED BY <2>1, <2>2
<1> QED BY <1>4

\* Only a deletion makes a folder go, and those with it came late, or are under
\* one that did.
LEMMA FoldersGo ==
    ASSUME FoldersInv, FoldersNext, NEW f \in Folders, Has(f), above'[f] = NoFolder
    PROVE  \/ \E c \in Clerks : clerk[c].pc = "emptied" /\ clerk[c].folder = f
           \/ \E g \in late : f = g \/ f \in Cascade(g)
<1>t. FoldersTypes /\ EmptiedFits
  BY DEF FoldersInv
<1>1. PICK c \in Clerks : DeleteFolder(c)
  <2>1. ASSUME NEW c \in Clerks, InsertFolder(c) PROVE FALSE
    <3>1. clerk[c].parent \in Parents /\ NoFolder \notin Parents
      <4>1. NoFolder \notin Parents
        BY FoldersAssumption DEF Parents, Root, NoFolder
      <4> QED BY <2>1, <4>1, <1>t, ClerkCarries DEF InsertFolder, FoldersTypes
    <3> QED BY <2>1, <3>1, <1>t DEF InsertFolder, FoldersTypes, Has
  <2>2. ASSUME NEW c \in Clerks, MoveSubfolders(c) PROVE FALSE
    <3>1. clerk[c].parent \in Parents /\ NoFolder \notin Parents
      <4>1. NoFolder \notin Parents
        BY FoldersAssumption DEF Parents, Root, NoFolder
      <4> QED BY <2>2, <4>1, <1>t, ClerkCarries DEF MoveSubfolders, FoldersTypes
    <3> QED BY <2>2, <3>1, <1>t DEF MoveSubfolders, Gives, FoldersTypes, Has
  <2>3. \A c \in Clerks : ~(FolderCreate(c) \/ FolderRename(c) \/ AssetMove(c) \/ FolderDelete(c) \/ MoveAssets(c))
    BY DEF FolderCreate, FolderRename, AssetMove, FolderDelete, MoveAssets, Has
  <2> QED BY <2>1, <2>2, <2>3 DEF FoldersNext
<1>2. PICK x \in Folders : clerk[c].folder = x /\ clerk[c].pc = "emptied"
  BY <1>1, <1>t, ClerkCarries DEF DeleteFolder, FoldersTypes
<1>3. f = x \/ f \in Cascade(x)
  BY <1>1, <1>2 DEF DeleteFolder, Has
<1>4. PICK S \in SUBSET Folders : S = {g \in Folders : \E l \in late : g = l \/ g \in Cascade(l)}
  OBVIOUS
<1>5. Below(x) \subseteq S
  BY <1>2, <1>4, <1>t DEF EmptiedFits, Below
<1>6. ASSUME NEW h \in S PROVE Below(h) \subseteq S
  <2>1. PICK l \in late : h = l \/ h \in Cascade(l)
    BY <1>4
  <2>2. Below(h) \subseteq Folders
    BY DEF Below
  <2>3. Below(h) \subseteq Cascade(l)
    <3>1. \A g \in Below(h) : g \in Cascade(l)
      BY <2>1, <2>2 DEF Cascade
    <3> QED BY <3>1
  <2> QED BY <1>4, <2>1, <2>2, <2>3
<1>7. Cascade(x) \subseteq S
  BY <1>5, <1>6, CascadeIsLeast
<1> QED BY <1>2, <1>3, <1>4, <1>7

\* While deletions do not overlap, one knows where its folder is, and what is about
\* to be created goes where there is room.
FoldersLow ==
    /\ overlapped \in BOOLEAN
    /\ ~overlapped =>
         /\ \A c, o \in Clerks : DeletesFolder(c) /\ DeletesFolder(o) => c = o
         /\ \A c \in Clerks : DeletesFolder(c) => above[clerk[c].folder] = clerk[c].parent
         /\ \A c \in Clerks : clerk[c].pc = "create" /\ clerk[c].parent \in Folders /\ Has(clerk[c].parent)
              => HasRoomBelow(clerk[c].parent)
         /\ \A f \in Folders : Has(f) => WithinDepth(f)

\* A request may go on where the folders stay.
LEMMA ClerkStaysLow ==
    ASSUME FoldersInv, FoldersLow, NEW c \in Clerks, NEW w \in ClerkCalls, clerk' = [clerk EXCEPT ![c] = w],
           above' = above, overlapped' \in BOOLEAN, ~overlapped' => ~overlapped,
           w.pc = "create" /\ w.parent \in Folders => HasRoomBelow(w.parent),
           w.pc \in {"move", "moved", "emptied"} /\ ~overlapped' =>
             /\ above[w.folder] = w.parent
             /\ \A o \in Clerks \ {c} : ~DeletesFolder(o)
    PROVE  FoldersLow'
<1>1. clerk'[c] = w /\ \A o \in Clerks \ {c} : clerk'[o] = clerk[o]
  BY DEF FoldersInv, FoldersTypes
<1>2. \A f : Has(f)' = Has(f) /\ (HasRoomBelow(f)' <=> HasRoomBelow(f)) /\ (WithinDepth(f)' <=> WithinDepth(f))
  BY DEF Has, HasRoomBelow, WithinDepth
<1> SUFFICES ASSUME ~overlapped'
             PROVE  /\ \A d, o \in Clerks : DeletesFolder(d)' /\ DeletesFolder(o)' => d = o
                    /\ \A d \in Clerks : DeletesFolder(d)' => above[clerk'[d].folder] = clerk'[d].parent
                    /\ \A d \in Clerks : clerk'[d].pc = "create" /\ clerk'[d].parent \in Folders /\ Has(clerk'[d].parent)
                         => HasRoomBelow(clerk'[d].parent)
                    /\ \A f \in Folders : Has(f) => WithinDepth(f)
  <2>1. \A d : DeletesFolder(d)' => above'[clerk'[d].folder] = above[clerk'[d].folder]
    OBVIOUS
  <2>2. \A d : Has(clerk[d].parent)' = Has(clerk'[d].parent) /\ (HasRoomBelow(clerk[d].parent)' <=> HasRoomBelow(clerk'[d].parent))
    BY DEF Has, HasRoomBelow
  <2> QED BY <1>2, <2>1, <2>2 DEF FoldersLow
<1>3. \A o \in Clerks \ {c} : DeletesFolder(o)' => DeletesFolder(o)
  BY <1>1 DEF DeletesFolder
<1>4. DeletesFolder(c)' => w.pc \in {"move", "moved", "emptied"}
  BY <1>1 DEF DeletesFolder
<1>5. \A d, o \in Clerks : DeletesFolder(d)' /\ DeletesFolder(o)' => d = o
  BY <1>3, <1>4 DEF FoldersLow
<1>6. \A d \in Clerks : DeletesFolder(d)' => above[clerk'[d].folder] = clerk'[d].parent
  BY <1>1, <1>3, <1>4 DEF FoldersLow
<1>7. \A d \in Clerks : clerk'[d].pc = "create" /\ clerk'[d].parent \in Folders /\ Has(clerk'[d].parent)
        => HasRoomBelow(clerk'[d].parent)
  BY <1>1 DEF FoldersLow
<1> QED BY <1>5, <1>6, <1>7 DEF FoldersLow

\* A folder is created where there is room, and deleted from where it is.
LEMMA BeginsLow ==
    ASSUME FoldersInv, FoldersLow, NEW c \in Clerks, FolderCreate(c) \/ FolderDelete(c) \/ MoveAssets(c)
    PROVE  FoldersLow'
<1>t. FoldersTypes /\ FoldersFit /\ overlapped \in BOOLEAN
  BY DEF FoldersInv, FoldersLow
<1>0. Off \in ClerkCalls /\ Off.pc = "off"
  BY DEF ClerkCalls, Off
<1>1. ASSUME above' = above, overlapped' = overlapped, clerk' = [clerk EXCEPT ![c] = Off] PROVE FoldersLow'
  BY <1>t, <1>0, <1>1, ClerkStaysLow
<1>2. CASE FolderCreate(c)
  <2>1. PICK f \in Folders, holder \in {Root} \cup {g \in Folders : Has(g)}, name \in Names :
         \/ clerk' = [clerk EXCEPT ![c] = Off]
         \/ /\ clerk' = [clerk EXCEPT ![c] = [pc |-> "create", folder |-> f, parent |-> holder, name |-> name]]
            /\ holder = Root \/ ~(DepthOf(holder) >= MaxDepth)
    BY <1>2 DEF FolderCreate
  <2>2. PICK w \in ClerkCalls : /\ w = [pc |-> "create", folder |-> f, parent |-> holder, name |-> name]
                                /\ w.pc = "create" /\ w.parent = holder
    <3>1. [pc |-> "create", folder |-> f, parent |-> holder, name |-> name] \in ClerkCalls
      BY DEF ClerkCalls, Parents
    <3> QED BY <3>1
  <2>3. holder \in Folders /\ ~(DepthOf(holder) >= MaxDepth) => HasRoomBelow(holder)
    <3>1. holder \in Folders => above[holder] \in Parents
      BY <1>t, FoldersAssumption DEF FoldersTypes, Has
    <3> QED BY <3>1 DEF DepthOf, MaxDepth, HasRoomBelow, Parents
  <2>4. ASSUME clerk' = [clerk EXCEPT ![c] = w], holder = Root \/ ~(DepthOf(holder) >= MaxDepth)
        PROVE  FoldersLow'
    BY <1>t, <1>2, <2>2, <2>3, <2>4, FoldersAssumption, ClerkStaysLow DEF FolderCreate
  <2>5. above' = above /\ overlapped' = overlapped
    BY <1>2 DEF FolderCreate
  <2> QED BY <1>1, <2>1, <2>2, <2>4, <2>5
<1>3. CASE FolderDelete(c)
  <2>1. PICK f \in Folders : Has(f) /\ clerk' = [clerk EXCEPT ![c] = [pc |-> "move", folder |-> f, parent |-> above[f]]]
    BY <1>3 DEF FolderDelete
  <2>2. PICK w \in ClerkCalls : /\ w = [pc |-> "move", folder |-> f, parent |-> above[f]]
                                /\ w.pc = "move" /\ w.folder = f /\ w.parent = above[f]
    <3>1. above[f] \in Parents
      BY <2>1, <1>t DEF FoldersTypes, Has
    <3>2. [pc |-> "move", folder |-> f, parent |-> above[f]] \in ClerkCalls
      BY <3>1 DEF ClerkCalls
    <3> QED BY <3>2
  <2>3. /\ above' = above /\ overlapped' \in BOOLEAN
        /\ ~overlapped' => ~overlapped /\ \A o \in Clerks : ~DeletesFolder(o)
    BY <1>3, <1>t DEF FolderDelete
  <2> QED BY <2>1, <2>2, <2>3, ClerkStaysLow
<1>4. CASE MoveAssets(c)
  <2>1. /\ clerk[c].pc = "move" /\ above' = above /\ overlapped' = overlapped
        /\ \/ clerk' = [clerk EXCEPT ![c] = Off]
           \/ clerk' = [clerk EXCEPT ![c] = [clerk[c] EXCEPT !.pc = "moved"]]
    BY <1>4 DEF MoveAssets
  <2>2. clerk[c] \in [pc : {"move", "moved", "emptied"}, folder : Folders, parent : Parents]
    BY <2>1, <1>0, <1>t DEF FoldersTypes, ClerkCalls
  <2>3. PICK w \in ClerkCalls : /\ w = [clerk[c] EXCEPT !.pc = "moved"] /\ w.pc = "moved"
                                /\ w.folder = clerk[c].folder /\ w.parent = clerk[c].parent
    <3>1. [clerk[c] EXCEPT !.pc = "moved"] \in [pc : {"move", "moved", "emptied"}, folder : Folders, parent : Parents]
      BY <2>2
    <3>2. PICK w \in [pc : {"move", "moved", "emptied"}, folder : Folders, parent : Parents] :
            w = [clerk[c] EXCEPT !.pc = "moved"]
      BY <3>1
    <3>3. w.pc = "moved" /\ w.folder = clerk[c].folder /\ w.parent = clerk[c].parent
      BY <2>2, <3>2
    <3> QED BY <3>2, <3>3 DEF ClerkCalls
  <2>4. ~overlapped => above[clerk[c].folder] = clerk[c].parent /\ \A o \in Clerks \ {c} : ~DeletesFolder(o)
    BY <2>1 DEF FoldersLow, DeletesFolder
  <2>5. CASE clerk' = [clerk EXCEPT ![c] = w]
    BY <1>t, <2>1, <2>3, <2>4, <2>5, ClerkStaysLow
  <2> QED BY <1>1, <2>1, <2>3, <2>5
<1> QED BY <1>2, <1>3, <1>4

\* What is inserted where there was room is within the depth.
LEMMA InsertsLow ==
    ASSUME FoldersInv, FoldersLow, NEW c \in Clerks, InsertFolder(c)
    PROVE  FoldersLow'
<1>t. FoldersTypes /\ FoldersFit /\ overlapped \in BOOLEAN
  BY DEF FoldersInv, FoldersLow
<1>0. Off \in ClerkCalls /\ Off.pc = "off"
  BY DEF ClerkCalls, Off
<1>1. PICK f \in Folders, p \in Parents : clerk[c].folder = f /\ clerk[c].parent = p
  BY <1>t, ClerkCarries DEF InsertFolder, FoldersTypes
<1>2. clerk[c].pc = "create" /\ clerk' = [clerk EXCEPT ![c] = Off] /\ overlapped' = overlapped
  BY DEF InsertFolder
<1>3. CASE above' = above
  BY <1>0, <1>t, <1>2, <1>3, ClerkStaysLow
<1>4. CASE above' # above
  <2>1. (p = Root \/ Has(p)) /\ above' = [above EXCEPT ![f] = p]
    BY <1>1, <1>4 DEF InsertFolder
  <2>2. above'[f] = p /\ \A g \in Folders \ {f} : above'[g] = above[g]
    BY <2>1, <1>t DEF FoldersTypes
  <2>3. ~Has(f) /\ ~Seen(f)
    BY <1>1, <1>2, <1>t DEF FoldersFit, Seen
  <2>4. \A o \in Clerks : clerk'[o].pc # "off" => o # c /\ clerk'[o] = clerk[o]
    BY <1>0, <1>2, <1>t DEF FoldersTypes
  <2>5. \A g \in Folders : above[g] \in Folders => above[g] # f /\ above'[above[g]] = above[above[g]]
    BY <2>2, <2>3, <1>t DEF FoldersFit
  <2>6. p # f
    BY <2>1, <2>3, FoldersAssumption DEF Parents
  <2>7. \A g \in Folders \ {f} : (HasRoomBelow(g) => HasRoomBelow(g)') /\ (WithinDepth(g) => WithinDepth(g)')
    <3>1. \A g \in Folders \ {f} : HasRoomBelow(g) => HasRoomBelow(g)'
      BY <2>2, <2>5 DEF HasRoomBelow
    <3> QED BY <2>2, <2>5, <3>1 DEF WithinDepth
  <2> SUFFICES ASSUME ~overlapped
               PROVE  /\ \A d, o \in Clerks : DeletesFolder(d)' /\ DeletesFolder(o)' => d = o
                      /\ \A d \in Clerks : DeletesFolder(d)' => above'[clerk'[d].folder] = clerk'[d].parent
                      /\ \A d \in Clerks : clerk'[d].pc = "create" /\ clerk'[d].parent \in Folders /\ Has(clerk[d].parent)'
                           => HasRoomBelow(clerk[d].parent)'
                      /\ \A g \in Folders : Has(g)' => WithinDepth(g)'
    BY <1>t, <1>2 DEF FoldersLow
  <2>8. \A d \in Clerks : DeletesFolder(d)' => DeletesFolder(d) /\ clerk'[d] = clerk[d]
    BY <2>4 DEF DeletesFolder
  <2>9. \A d \in Clerks : DeletesFolder(d) => clerk[d].folder \in Folders /\ clerk[d].folder # f
    BY <1>t, <2>3, ClerkCarries DEF FoldersTypes, FoldersFit, DeletesFolder
  <2>10. ASSUME NEW d \in Clerks, clerk'[d].pc = "create", clerk'[d].parent \in Folders, Has(clerk[d].parent)'
         PROVE  HasRoomBelow(clerk[d].parent)'
    <3>1. clerk'[d] = clerk[d]
      BY <2>4, <2>10
    <3>2. Seen(clerk[d].parent) /\ clerk[d].parent \in Folders \ {f}
      BY <2>3, <2>10, <3>1, <1>t DEF FoldersFit
    <3>3. Has(clerk[d].parent)
      BY <2>2, <2>10, <3>1, <3>2 DEF Has
    <3>4. PICK h \in Folders \ {f} : h = clerk[d].parent
      BY <3>2
    <3>5. HasRoomBelow(h)
      BY <2>10, <3>1, <3>3, <3>4 DEF FoldersLow
    <3>6. HasRoomBelow(h)'
      BY <2>7, <3>5
    <3> QED BY <3>1, <3>4, <3>6 DEF HasRoomBelow
  <2>11. WithinDepth(f)'
    <3>1. CASE p = Root
      BY <2>2, <3>1 DEF WithinDepth
    <3>2. CASE p \in Folders
      <4>1. HasRoomBelow(p)
        BY <1>1, <1>2, <2>1, <3>2, FoldersAssumption DEF FoldersLow
      <4>2. HasRoomBelow(p)'
        BY <2>6, <2>7, <3>2, <4>1
      <4> QED BY <2>2, <3>2, <4>2 DEF WithinDepth, HasRoomBelow
    <3> QED BY <3>1, <3>2 DEF Parents
  <2>12. \A g \in Folders : Has(g)' => WithinDepth(g)'
    <3> SUFFICES ASSUME NEW g \in Folders, Has(g)', g # f PROVE WithinDepth(g)'
      BY <2>11
    <3>1. Has(g)
      BY <2>2 DEF Has
    <3> QED BY <2>7, <3>1 DEF FoldersLow
  <2>13. \A d, o \in Clerks : DeletesFolder(d)' /\ DeletesFolder(o)' => d = o
    BY <2>8 DEF FoldersLow
  <2>14. \A d \in Clerks : DeletesFolder(d)' => above'[clerk'[d].folder] = clerk'[d].parent
    BY <2>2, <2>8, <2>9 DEF FoldersLow
  <2> QED BY <2>10, <2>12, <2>13, <2>14
<1> QED BY <1>3, <1>4

\* What takes the place of its parent rises, and takes what is under it along.
LEMMA MovesLow ==
    ASSUME FoldersInv, FoldersLow, NEW c \in Clerks, MoveSubfolders(c)
    PROVE  FoldersLow'
<1>t. FoldersTypes /\ FoldersFit /\ FoldersRanked /\ overlapped \in BOOLEAN
  BY DEF FoldersInv, FoldersLow
<1>0. Off \in ClerkCalls /\ Off.pc = "off"
  BY DEF ClerkCalls, Off
<1>1. PICK x \in Folders, p \in Parents : clerk[c].folder = x /\ clerk[c].parent = p
  BY <1>t, ClerkCarries DEF MoveSubfolders, FoldersTypes
<1>2. clerk[c].pc = "moved" /\ overlapped' = overlapped
  BY DEF MoveSubfolders
<1>3. CASE above' = above /\ clerk' = [clerk EXCEPT ![c] = Off]
  BY <1>0, <1>t, <1>2, <1>3, ClerkStaysLow
<1>4. CASE ~(above' = above /\ clerk' = [clerk EXCEPT ![c] = Off])
  <2>1. above' = Gives(x, p) /\ clerk' = [clerk EXCEPT ![c] = [clerk[c] EXCEPT !.pc = "emptied"]]
    BY <1>1, <1>4 DEF MoveSubfolders
  <2>2. clerk[c] \in [pc : {"move", "moved", "emptied"}, folder : Folders, parent : Parents]
    BY <1>2, <1>0, <1>t DEF FoldersTypes, ClerkCalls
  <2>3. /\ clerk'[c].pc = "emptied" /\ clerk'[c].folder = x /\ clerk'[c].parent = p
        /\ \A o \in Clerks \ {c} : clerk'[o] = clerk[o]
    BY <1>1, <1>t, <2>1, <2>2 DEF FoldersTypes
  <2> SUFFICES ASSUME ~overlapped
               PROVE  /\ \A d, o \in Clerks : DeletesFolder(d)' /\ DeletesFolder(o)' => d = o
                      /\ \A d \in Clerks : DeletesFolder(d)' => above'[clerk'[d].folder] = clerk'[d].parent
                      /\ \A d \in Clerks : clerk'[d].pc = "create" /\ clerk'[d].parent \in Folders /\ Has(clerk[d].parent)'
                           => HasRoomBelow(clerk[d].parent)'
                      /\ \A g \in Folders : Has(g)' => WithinDepth(g)'
    BY <1>t, <1>2 DEF FoldersLow
  <2>4. DeletesFolder(c) /\ above[x] = p
    BY <1>1, <1>2 DEF FoldersLow, DeletesFolder
  <2>5. p # x
    <3>1. PICK rank \in [Folders -> Nat] : FitsRank(rank)
      BY <1>t DEF FoldersRanked
    <3>2. p \in Folders => rank[p] < rank[x] /\ rank[x] \in Nat
      BY <2>4, <3>1 DEF FitsRank
    <3> QED BY <3>2
  <2>6. \A g \in Folders : above'[g] = IF above[g] = x THEN p ELSE above[g]
    BY <2>1 DEF Gives
  <2>7. \A d \in Clerks : DeletesFolder(d)' => d = c
    BY <2>3, <2>4 DEF FoldersLow, DeletesFolder
  <2>8. above'[x] = p
    BY <2>4, <2>5, <2>6
  <2>9. Root \notin Folders /\ Root # NoFolder /\ NoFolder \notin Folders
    BY FoldersAssumption DEF Root, NoFolder
  <2>10. \A g \in Folders : above[g] = Root => above'[g] = Root
    BY <2>6, <2>9
  <2>11. \A g \in Folders : HasRoomBelow(g) => HasRoomBelow(g)'
    <3> SUFFICES ASSUME NEW g \in Folders, HasRoomBelow(g) PROVE HasRoomBelow(g)'
      OBVIOUS
    <3>1. CASE above[g] = Root
      BY <2>10, <3>1 DEF HasRoomBelow
    <3>2. CASE above[g] = x
      BY <2>4, <2>6, <2>9, <3>2 DEF HasRoomBelow
    <3>3. CASE above[g] # Root /\ above[g] # x
      BY <2>6, <2>10, <3>3 DEF HasRoomBelow
    <3> QED BY <3>1, <3>2, <3>3
  <2>12. \A g \in Folders : WithinDepth(g) => WithinDepth(g)'
    <3> SUFFICES ASSUME NEW g \in Folders, WithinDepth(g) PROVE WithinDepth(g)'
      OBVIOUS
    <3>1. CASE above[g] = Root
      BY <2>10, <3>1 DEF WithinDepth
    <3>2. CASE above[g] = x
      <4>1. p = Root \/ (p \in Folders /\ above[p] = Root)
        BY <2>4, <2>9, <3>2 DEF WithinDepth, HasRoomBelow
      <4>2. above'[g] = p
        BY <2>6, <3>2
      <4> QED BY <2>10, <4>1, <4>2 DEF WithinDepth, HasRoomBelow
    <3>3. CASE above[g] # Root /\ above[g] # x
      <4>1. PICK h \in Folders : above[g] = h /\ HasRoomBelow(h)
        BY <3>3 DEF WithinDepth
      <4>2. HasRoomBelow(h)' /\ above'[g] = h
        BY <2>6, <2>11, <3>3, <4>1
      <4> QED BY <4>1, <4>2 DEF WithinDepth, HasRoomBelow
    <3> QED BY <3>1, <3>2, <3>3
  <2>13. \A g \in Folders : Has(g)' => Has(g)
    BY <2>6, <2>9 DEF Has
  <2>14. ASSUME NEW d \in Clerks, clerk'[d].pc = "create", clerk'[d].parent \in Folders, Has(clerk[d].parent)'
         PROVE  HasRoomBelow(clerk[d].parent)'
    <3>1. clerk'[d] = clerk[d]
      BY <2>3, <2>14
    <3>2. PICK h \in Folders : h = clerk[d].parent
      BY <2>14, <3>1
    <3>3. Has(h)'
      BY <2>14, <3>1, <3>2 DEF Has
    <3>4. HasRoomBelow(h)
      BY <2>13, <2>14, <3>1, <3>2, <3>3 DEF FoldersLow
    <3>5. HasRoomBelow(h)'
      BY <2>11, <3>4
    <3> QED BY <3>1, <3>2, <3>5 DEF HasRoomBelow
  <2>15. \A g \in Folders : Has(g)' => WithinDepth(g)'
    BY <2>12, <2>13 DEF FoldersLow
  <2>16. \A d \in Clerks : DeletesFolder(d)' => above'[clerk'[d].folder] = clerk'[d].parent
    BY <2>3, <2>7, <2>8
  <2> QED BY <2>7, <2>14, <2>15, <2>16
<1> QED BY <1>3, <1>4

\* What stays when a folder goes, stays where it is.
LEMMA DeletesLow ==
    ASSUME FoldersInv, FoldersLow, NEW c \in Clerks, DeleteFolder(c)
    PROVE  FoldersLow'
<1>t. FoldersTypes /\ FoldersFit /\ overlapped \in BOOLEAN
  BY DEF FoldersInv, FoldersLow
<1>0. Off \in ClerkCalls /\ Off.pc = "off"
  BY DEF ClerkCalls, Off
<1>1. PICK x \in Folders : clerk[c].folder = x
  BY <1>t, ClerkCarries DEF DeleteFolder, FoldersTypes
<1>2. clerk[c].pc = "emptied" /\ clerk' = [clerk EXCEPT ![c] = Off] /\ overlapped' = overlapped
  BY DEF DeleteFolder
<1>3. CASE ~Has(x)
  <2>1. above' = [g \in Folders |-> above[g]]
    BY <1>1, <1>3 DEF DeleteFolder
  <2>2. above' = above
    BY <2>1, <1>t DEF FoldersTypes
  <2> QED BY <1>0, <1>t, <1>2, <2>2, ClerkStaysLow
<1>4. CASE Has(x)
  <2>1. PICK gone \in SUBSET Folders :
          /\ gone = Cascade(x) \cup {x}
          /\ above' = [g \in Folders |-> IF g \in gone THEN NoFolder ELSE above[g]]
    BY <1>1, <1>4 DEF DeleteFolder, Cascade
  <2>2. \A h \in gone : Below(h) \subseteq gone
    BY <2>1, CascadeIsClosed
  <2>3. /\ \A g \in Folders \ gone : above'[g] = above[g] /\ above[g] \notin gone
        /\ \A g \in gone : above'[g] = NoFolder
    BY <2>1, <2>2 DEF Below
  <2>4. \A g \in Folders \ gone : (HasRoomBelow(g) => HasRoomBelow(g)') /\ (WithinDepth(g) => WithinDepth(g)')
    <3>1. \A g \in Folders \ gone : HasRoomBelow(g) => HasRoomBelow(g)'
      BY <2>3 DEF HasRoomBelow
    <3> QED BY <2>3, <3>1 DEF WithinDepth
  <2>5. \A g \in Folders : Has(g)' => Has(g) /\ g \in Folders \ gone
    BY <2>3 DEF Has
  <2>6. \A o \in Clerks : clerk'[o].pc # "off" => o # c /\ clerk'[o] = clerk[o]
    BY <1>0, <1>2, <1>t DEF FoldersTypes
  <2> SUFFICES ASSUME ~overlapped
               PROVE  /\ \A d \in Clerks : ~DeletesFolder(d)'
                      /\ \A d \in Clerks : clerk'[d].pc = "create" /\ clerk'[d].parent \in Folders /\ Has(clerk[d].parent)'
                           => HasRoomBelow(clerk[d].parent)'
                      /\ \A g \in Folders : Has(g)' => WithinDepth(g)'
    BY <1>t, <1>2 DEF FoldersLow
  <2>7. \A d \in Clerks : ~DeletesFolder(d)'
    BY <1>2, <2>6 DEF FoldersLow, DeletesFolder
  <2>8. ASSUME NEW d \in Clerks, clerk'[d].pc = "create", clerk'[d].parent \in Folders, Has(clerk[d].parent)'
        PROVE  HasRoomBelow(clerk[d].parent)'
    <3>1. clerk'[d] = clerk[d]
      BY <2>6, <2>8
    <3>2. PICK h \in Folders : h = clerk[d].parent
      BY <2>8, <3>1
    <3>3. Has(h)'
      BY <2>8, <3>1, <3>2 DEF Has
    <3>4. HasRoomBelow(h) /\ h \notin gone
      BY <2>5, <2>8, <3>1, <3>2, <3>3 DEF FoldersLow
    <3>5. HasRoomBelow(h)'
      BY <2>4, <3>4
    <3> QED BY <3>1, <3>2, <3>5 DEF HasRoomBelow
  <2>9. \A g \in Folders : Has(g)' => WithinDepth(g)'
    BY <2>4, <2>5 DEF FoldersLow
  <2> QED BY <2>7, <2>8, <2>9
<1> QED BY <1>3, <1>4

\* At the start there is nothing to be deep.
LEMMA LowStart == FoldersInit => FoldersLow
<1> SUFFICES ASSUME FoldersInit PROVE FoldersLow
  OBVIOUS
<1>1. \A c \in Clerks : clerk[c].pc = "off"
  BY DEF FoldersInit, Off
<1>2. \A f \in Folders : ~Has(f)
  BY DEF FoldersInit, Has
<1>3. overlapped = FALSE
  BY DEF FoldersInit
<1> QED BY <1>1, <1>2, <1>3 DEF FoldersLow, DeletesFolder

\* No step takes a folder too low, as long as deletions do not overlap.
LEMMA LowStep ==
    ASSUME FoldersInv, FoldersLow, [FoldersNext]_FolderVars
    PROVE  FoldersLow'
<1>1. ASSUME UNCHANGED <<above, clerk, overlapped>> PROVE FoldersLow'
  <2>1. \A f : Has(f)' = Has(f) /\ (HasRoomBelow(f)' <=> HasRoomBelow(f)) /\ (WithinDepth(f)' <=> WithinDepth(f))
    BY <1>1 DEF Has, HasRoomBelow, WithinDepth
  <2>2. \A c : DeletesFolder(c)' <=> DeletesFolder(c)
    BY <1>1 DEF DeletesFolder
  <2>3. \A c : Has(clerk[c].parent)' = Has(clerk[c].parent)
               /\ (HasRoomBelow(clerk[c].parent)' <=> HasRoomBelow(clerk[c].parent))
    BY <1>1 DEF Has, HasRoomBelow
  <2> QED BY <1>1, <2>1, <2>2, <2>3 DEF FoldersLow
<1>2. ASSUME NEW c \in Clerks, FolderRename(c) \/ AssetMove(c) PROVE FoldersLow'
  BY <1>1, <1>2 DEF FolderRename, AssetMove
<1>3. CASE UNCHANGED FolderVars
  BY <1>1, <1>3 DEF FolderVars
<1> QED
  BY <1>2, <1>3, BeginsLow, InsertsLow, MovesLow, DeletesLow DEF FoldersNext

\* However folders are created and deleted at once (media_library/views.py,
\* folder_delete): for any number of folders and of requests they stay a tree, three
\* levels deep as long as two deletions do not overlap, and none goes but the one that
\* is deleted and what had come under one that was emptied.
THEOREM FoldersStayTrees == FoldersSpec => FoldersAreKept
<1>1. ASSUME FoldersInv, [FoldersNext]_FolderVars
      PROVE  [\A f \in Folders :
         (Has(f) /\ above'[f] = NoFolder) =>
            \/ \E c \in Clerks : clerk[c].pc = "emptied" /\ clerk[c].folder = f
            \/ \E g \in late : f = g \/ f \in Cascade(g)]_FolderVars
  BY <1>1, FoldersGo
<1>2. FoldersLow => FoldersAreShallow
  BY DEF FoldersLow, FoldersAreShallow
<1>3. FoldersInv /\ FoldersLow => FoldersFormTrees /\ FoldersAreShallow
  BY <1>2, RankedFormTrees
<1> QED
  BY <1>1, <1>3, FoldersStart, LowStart, FoldersStep, LowStep, PTL
  DEF FoldersSpec, FoldersAreKept, FoldersGoWhenAsked
=============================================================================
