-------------------------------- MODULE Feeds --------------------------------
(***************************************************************************)
(* The RSS feeds of a workspace (composer/views.py, from                   *)
(* _feed_events_cache_key on): the subscriptions are rows, the events of   *)
(* all of them one cache entry with a time to live.  An entry carries the  *)
(* signature of the feeds it was built from: a page may build one from     *)
(* feeds it listed before a subscription came or went, and store it after  *)
(* the entry was deleted.                                                  *)
(***************************************************************************)
EXTENDS Naturals, FiniteSets

CONSTANTS
    Urls,         \* addresses of feeds
    FeedPages,        \* pages that show or change the feeds
    MaxFeeds      \* bound: subscriptions that are ever made

ASSUME FeedsAssumption == MaxFeeds \in Nat

NoEntry == [cached |-> FALSE]
Blind == [pc |-> "blind"]

VARIABLES
    feeds,     \* Feed rows: id and url
    subscribed,      \* ids that have been given
    entry,     \* the cache entry: signature, the feeds events are of, and those it missed
    feedPage       \* the request of each page: the feeds it listed, the events it has

FeedsVars == <<feeds, subscribed, entry, feedPage>>

PageGoes(v, record) == feedPage' = [feedPage EXCEPT ![v] = record]
IsSubscribed(u) == \E f \in feeds : f.url = u

FeedsInit ==
    /\ feeds = {}
    /\ subscribed = 0
    /\ entry = NoEntry
    /\ feedPage = [v \in FeedPages |-> Blind]

-----------------------------------------------------------------------------
(* feed_add and feed_delete *)

\* The address is read (unless it is one of those explored), and is not subscribed yet;
\* otherwise the tab, or the explored feeds, are shown again.
FeedAdd(v) ==
    \E u \in Urls, valid \in BOOLEAN, explored \in BOOLEAN :
        /\ feedPage[v] = Blind
        /\ IF (valid \/ explored) /\ ~IsSubscribed(u)
           THEN PageGoes(v, [pc |-> "create", url |-> u, explored |-> explored])
           ELSE ~explored /\ PageGoes(v, [pc |-> "list"])
        /\ UNCHANGED <<feeds, subscribed, entry>>

\* The row; when another page has made one for the address since, the request fails.
FeedCreate(v) ==
    /\ feedPage[v].pc = "create"
    /\ \/ /\ IsSubscribed(feedPage[v].url)
          /\ PageGoes(v, Blind)
          /\ UNCHANGED <<feeds, subscribed>>
       \/ /\ ~IsSubscribed(feedPage[v].url) /\ subscribed < MaxFeeds
          /\ subscribed' = subscribed + 1
          /\ feeds' = feeds \cup {[id |-> subscribed + 1, url |-> feedPage[v].url]}
          /\ PageGoes(v, [pc |-> "forget", explored |-> feedPage[v].explored])
    /\ UNCHANGED entry

FeedDelete(v) ==
    \E f \in feeds :
        /\ feedPage[v] = Blind
        /\ feeds' = feeds \ {f}
        /\ PageGoes(v, [pc |-> "forget", explored |-> FALSE])
        /\ UNCHANGED <<subscribed, entry>>

\* cache.delete after either; then the tab is shown, except after an explored feed.
Forget(v) ==
    /\ feedPage[v].pc = "forget"
    /\ entry' = NoEntry
    /\ PageGoes(v, IF feedPage[v].explored THEN Blind ELSE [pc |-> "list"])
    /\ UNCHANGED <<feeds, subscribed>>

-----------------------------------------------------------------------------
(* Showing the events: feed_list, and the tab after a change *)

FeedList(v) == feedPage[v] = Blind /\ PageGoes(v, [pc |-> "list"]) /\ UNCHANGED <<feeds, subscribed, entry>>

\* _build_feed_events_context lists the subscriptions first.
ListFeeds(v) ==
    /\ feedPage[v].pc = "list"
    /\ PageGoes(v, [pc |-> "look", listed |-> feeds])
    /\ UNCHANGED <<feeds, subscribed, entry>>

\* Mutant: the entry is of the workspace, whatever its feeds.
MutantIsHit(listed) == entry.cached

\* _get_cached_workspace_feed_events takes an entry with the signature of its feeds.
IsHit(listed) == entry.cached /\ entry.signature = listed

ReadCache(v) ==
    /\ feedPage[v].pc = "look"
    /\ PageGoes(v, IF IsHit(feedPage[v].listed)
               THEN [pc |-> "shown", listed |-> feedPage[v].listed, of |-> entry.of, missed |-> entry.missed]
               ELSE [pc |-> "fetch", listed |-> feedPage[v].listed])
    /\ UNCHANGED <<feeds, subscribed, entry>>

\* _safe_fetch_feed and _parse_feed_document: what an address answers is a feed, or it is
\* left out.
Readable(listed) == SUBSET listed

\* _fetch_feed_events_for_workspace: the events of the feeds that can be read.
Fetch(v) ==
    /\ feedPage[v].pc = "fetch"
    /\ \E read \in Readable(feedPage[v].listed) :
        PageGoes(v, [pc |-> "store", listed |-> feedPage[v].listed, of |-> read, missed |-> feedPage[v].listed \ read])
    /\ UNCHANGED <<feeds, subscribed, entry>>

StoreEvents(v) ==
    /\ feedPage[v].pc = "store"
    /\ entry' = [cached |-> TRUE, signature |-> feedPage[v].listed, of |-> feedPage[v].of, missed |-> feedPage[v].missed]
    /\ PageGoes(v, [feedPage[v] EXCEPT !.pc = "shown"])
    /\ UNCHANGED <<feeds, subscribed>>

PageLeft(v) == feedPage[v].pc = "shown" /\ PageGoes(v, Blind) /\ UNCHANGED <<feeds, subscribed, entry>>

\* FEED_EVENTS_CACHE_TTL_SECONDS are over, or the cache makes room.
EntryExpires == entry.cached /\ entry' = NoEntry /\ UNCHANGED <<feeds, subscribed, feedPage>>

FeedsNext ==
    \/ EntryExpires
    \/ \E v \in FeedPages :
        \/ FeedAdd(v) \/ FeedCreate(v) \/ FeedDelete(v) \/ Forget(v)
        \/ FeedList(v) \/ ListFeeds(v) \/ ReadCache(v) \/ Fetch(v) \/ StoreEvents(v) \/ PageLeft(v)

FeedsSpec == FeedsInit /\ [][FeedsNext]_FeedsVars

-----------------------------------------------------------------------------
\* A page shows the events of the feeds it lists, of each that could be read and of no
\* other, whichever feeds came and went, and entries were stored and deleted, meanwhile.
PagesMatchTheirFeeds ==
    \A v \in FeedPages : feedPage[v].pc = "shown" =>
        /\ feedPage[v].of \cup feedPage[v].missed = feedPage[v].listed
        /\ feedPage[v].of \cap feedPage[v].missed = {}
=============================================================================
