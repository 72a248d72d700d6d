------------------------------ MODULE Composer ------------------------------
(***************************************************************************)
(* The composer page and the media it adds (composer/views.py, and the     *)
(* script of templates/composer/compose.html).  Before its post is saved a *)
(* page keeps its media in the session, as a list that all pages of the    *)
(* browser share; every request loads the session when it begins and saves *)
(* the whole of it when it ends (SESSION_SAVE_EVERY_REQUEST).              *)
(***************************************************************************)
EXTENDS Naturals, FiniteSets, FiniteSetsExt

CONSTANTS
    Pages,       \* composer pages opened one after the other
    Drafts,      \* the posts there can be
    PickedFiles,      \* media assets of the workspace and of the shared library
    Shared,      \* those of the shared library
    Requests,    \* requests of the browser that can be in progress together
    MaxCalls     \* bound: requests

NoPost == "no post"

ASSUME ComposerAssumption ==
    /\ Shared \subseteq PickedFiles
    /\ Requests # {}
    /\ {NoPost, "unopened"} \cap (Drafts \cup Pages) = {}
    /\ MaxCalls \in Nat

VARIABLES
    pending,     \* the list in the stored session
    page,        \* "unopened", or the post each part of the page works on
    posts,       \* the posts that exist
    media,       \* the media of each post
    library,     \* the assets that exist
    saving,     \* requests in progress
    calls,
    latest,      \* the page opened last
    added,       \* history: assets put into each page
    made,        \* history: posts each page created or was opened on
    mixed        \* history: requests overlapped, an older page was used again, a
                 \* page did not hear that its post was created, or its picker
                 \* still added to the session after it had

ComposerVars == <<pending, page, posts, media, library, saving, calls, latest, added, made, mixed>>

NoRequest == [pc |-> "none"]
Unopened == [picks |-> "unopened", saves |-> "unopened"]
Free(r) == saving[r] = NoRequest

-----------------------------------------------------------------------------
(* A request: it begins, does its work, and answers *)

\* The browser sends a request; what it carries is the page's.
Sends(r, p, kind, picture) ==
    /\ Free(r)
    /\ calls < MaxCalls
    /\ calls' = calls + 1
    /\ saving' = [saving EXCEPT ![r] =
         [pc |-> "work", kind |-> kind, page |-> p, asset |-> picture,
          post |-> IF kind = "compose" THEN picture ELSE IF kind = "pick" THEN page[p].picks ELSE page[p].saves,
          list |-> pending, new |-> FALSE]]
    /\ mixed' = (mixed \/ (\E o \in Requests : ~Free(o)) \/ (kind # "compose" /\ p # latest)
                     \/ (kind = "pick" /\ page[p].picks # page[p].saves))

\* The page is opened on a new post or on one there is.
Compose(r) ==
    \E p \in Pages, post \in {NoPost} \cup posts :
        /\ page[p] = Unopened
        /\ ~\E o \in Requests : ~Free(o) /\ saving[o].page = p
        /\ Sends(r, p, "compose", post)
        /\ latest' = p
        /\ made' = [made EXCEPT ![p] = {post} \ {NoPost}]
        /\ UNCHANGED <<pending, page, posts, media, library, added>>

Acts(r, kind, picture) ==
    /\ \E p \in Pages : page[p] # Unopened /\ Sends(r, p, kind, picture)
    /\ UNCHANGED <<pending, page, posts, media, library, latest, added, made>>

Upload(r) == \E a \in PickedFiles \ (Shared \cup library) : Acts(r, "upload", a)
Pick(r) == \E a \in library : Acts(r, "pick", a)

\* The cross of a thumbnail: one that waits, or one on the post.
RemoveThumbnail(r, kind) ==
    \E p \in Pages : \E a \in added[p] :
        /\ page[p] # Unopened
        /\ IF kind = "remove" THEN page[p].picks = NoPost
           ELSE page[p].saves # NoPost /\ a \in media[page[p].saves]
        /\ Sends(r, p, kind, a)
        /\ UNCHANGED <<pending, page, posts, media, library, latest, added, made>>

RemovePending(r) == RemoveThumbnail(r, "remove")
RemoveMedia(r) == RemoveThumbnail(r, "detach")
Autosave(r) == Acts(r, "autosave", NoPost)
SaveDraft(r) == Acts(r, "save", NoPost)
SaveToQueue(r) == Acts(r, "queue", NoPost)

Works(r, kind) == saving[r].pc = "work" /\ saving[r].kind = kind
Done(r, list) == saving' = [saving EXCEPT ![r].pc = "answer", ![r].list = list]

\* Mutant: the list of the page before stays.
MutantFreshList(list) == list

\* Each page load starts fresh.
FreshList(list) == {}

DoCompose(r) ==
    /\ Works(r, "compose")
    /\ Done(r, FreshList(saving[r].list))
    /\ UNCHANGED <<pending, page, posts, media, library, calls, latest, added, made, mixed>>

\* What a list attaches to a post: assets of the workspace that still exist.
Attachable(list) == (list \cap library) \ Shared

Adds(r) == added' = [added EXCEPT ![saving[r].page] = @ \cup {saving[r].asset}]

\* A file uploaded before the post is saved joins the list.
WithUpload(list, picture) == list \cup {picture}

\* upload_media: the list moves to the post when there is one.
DoUpload(r) ==
    LET post == saving[r].post
        list == saving[r].list
        picture == saving[r].asset
    IN /\ Works(r, "upload")
       /\ library' = library \cup {picture}
       /\ Adds(r)
       /\ IF post = NoPost
            THEN Done(r, WithUpload(list, picture)) /\ UNCHANGED media
            ELSE /\ media' = [media EXCEPT ![post] = @ \cup Attachable(list) \cup {picture}]
                 /\ Done(r, {})
       /\ UNCHANGED <<pending, page, posts, calls, latest, made, mixed>>

\* attach_media, or attach_pending_media for a page opened on a new post.
DoPick(r) ==
    LET post == saving[r].post
        picture == saving[r].asset
    IN /\ Works(r, "pick")
       /\ IF picture \in library
            THEN /\ Adds(r)
                 /\ media' = IF post = NoPost THEN media ELSE [media EXCEPT ![post] = @ \cup {picture}]
                 /\ Done(r, IF post = NoPost THEN saving[r].list \cup {picture} ELSE saving[r].list)
            ELSE Done(r, saving[r].list) /\ UNCHANGED <<added, media>>
       /\ UNCHANGED <<pending, page, posts, library, calls, latest, made, mixed>>

\* remove_pending_media: the asset itself goes, and with it every use of it,
\* unless a post that is scheduled has it; one of the shared library only
\* leaves the list.
DoRemovePending(r) ==
    LET picture == saving[r].asset
        p == saving[r].page
        users == {d \in posts : picture \in media[d]}
    IN
    /\ Works(r, "remove")
    /\ Done(r, saving[r].list \ {picture})
    /\ \E protected \in BOOLEAN :
         /\ protected => users # {}
         /\ added' = [added EXCEPT ![p] = IF protected /\ users \cap made[p] # {} THEN @ ELSE @ \ {picture}]
         /\ library' = IF protected \/ picture \in Shared THEN library ELSE library \ {picture}
         /\ media' = IF protected \/ picture \in Shared THEN media ELSE [d \in Drafts |-> media[d] \ {picture}]
    /\ UNCHANGED <<pending, page, posts, calls, latest, made, mixed>>

\* remove_media (the page may have made another post that keeps the asset).
DoRemoveMedia(r) ==
    LET picture == saving[r].asset
        p == saving[r].page
        kept == \E d \in made[p] \ {saving[r].post} : picture \in media[d]
    IN
    /\ Works(r, "detach")
    /\ Done(r, saving[r].list)
    /\ added' = [added EXCEPT ![p] = IF kept THEN @ ELSE @ \ {picture}]
    /\ media' = [media EXCEPT ![saving[r].post] = @ \ {picture}]
    /\ UNCHANGED <<pending, page, posts, library, calls, latest, made, mixed>>

\* autosave and save_post: a page that knows of no post creates one, with the
\* media of the list; a post sent to a queue or for approval returns before.
CreatesPost(r, kind) ==
    LET keepsList == kind = "queue" IN
    /\ Works(r, kind)
    /\ saving[r].post = NoPost
    /\ \E d \in Drafts \ posts :
         /\ posts' = posts \cup {d}
         /\ media' = [media EXCEPT ![d] = IF keepsList THEN {} ELSE Attachable(saving[r].list)]
         /\ made' = [made EXCEPT ![saving[r].page] = @ \cup {d}]
         /\ saving' = [saving EXCEPT ![r].pc = "answer", ![r].new = TRUE, ![r].post = d,
                                       ![r].list = IF keepsList THEN @ ELSE {}]
    /\ UNCHANGED <<pending, page, library, calls, latest, added, mixed>>

DoAutosave(r) == CreatesPost(r, "autosave")
DoSavePost(r) == CreatesPost(r, "save")
DoQueuePost(r) == CreatesPost(r, "queue")

\* A post that is saved again keeps its media, and the list is left alone.
SavesPost(r) ==
    /\ saving[r].pc = "work"
    /\ saving[r].kind \in {"autosave", "save", "queue"}
    /\ saving[r].post # NoPost
    /\ Done(r, saving[r].list)
    /\ UNCHANGED <<pending, page, posts, media, library, calls, latest, added, made, mixed>>

\* The answers that tell the page which post it has ("autosaved").
Tells(kind) == kind = "autosave"

\* The session is stored, and the page hears of its post, if the answer arrives.
Answer(r) ==
    \E arrives \in BOOLEAN :
        LET w == saving[r] IN
        /\ w.pc = "answer"
        /\ pending' = w.list
        /\ page' = IF ~arrives THEN page
                   ELSE IF w.kind = "compose" THEN [page EXCEPT ![w.page] = [picks |-> w.post, saves |-> w.post]]
                   ELSE IF Tells(w.kind) /\ w.new THEN [page EXCEPT ![w.page].saves = w.post] ELSE page
        /\ saving' = [saving EXCEPT ![r] = NoRequest]
        /\ mixed' = (mixed \/ (w.new /\ ~arrives))
        /\ UNCHANGED <<posts, media, library, calls, latest, added, made>>

-----------------------------------------------------------------------------
ComposerInit ==
    /\ pending = {}
    /\ page = [p \in Pages |-> Unopened]
    /\ posts = {}
    /\ media = [d \in Drafts |-> {}]
    /\ library = Shared
    /\ saving = [r \in Requests |-> NoRequest]
    /\ calls = 0
    /\ latest = NoPost
    /\ added = [p \in Pages |-> {}]
    /\ made = [p \in Pages |-> {}]
    /\ mixed = FALSE

ComposerNext ==
    \E r \in Requests :
        \/ Compose(r) \/ Upload(r) \/ Pick(r) \/ RemovePending(r) \/ RemoveMedia(r)
        \/ Autosave(r) \/ SaveDraft(r) \/ SaveToQueue(r)
        \/ DoCompose(r) \/ DoUpload(r) \/ DoPick(r) \/ DoRemovePending(r) \/ DoRemoveMedia(r)
        \/ DoAutosave(r) \/ DoSavePost(r) \/ DoQueuePost(r) \/ SavesPost(r)
        \/ Answer(r)

ComposerSpec == ComposerInit /\ [][ComposerNext]_ComposerVars

-----------------------------------------------------------------------------
\* As long as the requests of a browser follow one another, and the user stays
\* in the page opened last and reloads its picker once the post is made: a post
\* has no media but what was put into a page of that post, and what is put into
\* the page is on a post of the page or waits in the session; media of the
\* shared library apart, which a new post drops.
MediaFollowsItsPage ==
    ~mixed =>
        /\ \A d \in posts :
             media[d] \subseteq UNION {added[p] : p \in {q \in Pages : d \in made[q]}}
        /\ (latest # NoPost /\ \A r \in Requests : Free(r)) =>
             (added[latest] \cap library) \ Shared
               \subseteq pending \cup UNION {media[d] : d \in made[latest]}
=============================================================================
