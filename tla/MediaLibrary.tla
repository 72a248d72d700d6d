---------------------------- MODULE MediaLibrary ----------------------------
(***************************************************************************)
(* The media library: uploads under the organization's storage quota,      *)
(* edits that make versions of an asset, background tasks that work on     *)
(* them, and the deletions that must spare what a post is going to send    *)
(* (media_library/views.py, services.py, tasks.py, quotas.py and the       *)
(* cleanup_orphaned_media command).  Every file counts as one unit.        *)
(***************************************************************************)
EXTENDS Naturals, FiniteSets, Sequences

CONSTANTS
    Assets,        \* media assets there can be
    Composed,      \* those uploaded in the composer, without an organization
    MediaPosts,    \* posts that use them
    Hands,         \* requests and commands that can be in progress together
    StorageLimit,  \* the quota of the organization
    MaxVersions,   \* bound: versions of an asset
    MaxEdits       \* bound: requests

ASSUME MediaAssumption ==
    /\ Composed \subseteq Assets
    /\ Hands # {} /\ IsFiniteSet(Hands)
    /\ {StorageLimit, MaxVersions, MaxEdits} \subseteq Nat

Fresh == [gone |-> FALSE]
Gone == [gone |-> TRUE]
NoFile == MaxVersions + 1
Idle == [pc |-> "idle"]

VARIABLES
    asset,      \* Fresh, Gone, or the file an asset serves and its thumbnail's
    versions,   \* of each asset: the file and the thumbnail's of each version
    stored,     \* the files of each asset in the storage; 0 is the upload
    tasks,      \* background tasks that wait
    uses,       \* PostMedia: pairs of a post and an asset
    postState,     \* of each post
    hand,       \* requests and commands in progress
    edits,
    planned,    \* history: media a post had when it was scheduled
    raced,      \* history: a deletion had looked for posts before it was
    outcome     \* history: the media that were sent

MediaVars == <<asset, versions, stored, tasks, uses, postState, hand, edits, planned, raced, outcome>>

Exists(a) == asset[a] \notin {Fresh, Gone}
MediaOf(p) == {a \in Assets : <<p, a>> \in uses}
Used == Cardinality({a \in Assets \ Composed : Exists(a)})
AtRest(h) == hand[h] = Idle
Spend == edits < MaxEdits /\ edits' = edits + 1

-----------------------------------------------------------------------------
(* Uploads *)

\* enforce_storage_quota.
WithinQuota == Used + 1 <= StorageLimit

\* create_asset, before the file is kept.
BeginUpload(h) ==
    /\ AtRest(h) /\ Spend
    /\ \E a \in Assets \ Composed :
         /\ asset[a] = Fresh
         /\ \A o \in Hands : ~AtRest(o) => hand[o].asset # a
         /\ hand' = [hand EXCEPT ![h] = IF WithinQuota THEN [pc |-> "keep", asset |-> a, todo |-> {}] ELSE Idle]
    /\ UNCHANGED <<asset, versions, stored, tasks, uses, postState, planned, raced, outcome>>

Keeps(a) ==
    /\ asset' = [asset EXCEPT ![a] = [file |-> 0, thumb |-> NoFile]]
    /\ stored' = [stored EXCEPT ![a] = {0}]

\* create_asset keeps the file, and process_media_asset will look at it.
KeepUpload(h) ==
    /\ hand[h].pc = "keep"
    /\ Keeps(hand[h].asset)
    /\ tasks' = tasks \cup {[kind |-> "process", asset |-> hand[h].asset, version |-> 0]}
    /\ hand' = [hand EXCEPT ![h] = Idle]
    /\ UNCHANGED <<versions, uses, postState, edits, planned, raced, outcome>>

\* upload_media and thumbnail_upload of the composer: no quota, no task.
ComposerUpload ==
    /\ Spend
    /\ \E a \in Composed : asset[a] = Fresh /\ Keeps(a)
    /\ UNCHANGED <<versions, tasks, uses, postState, hand, planned, raced, outcome>>

-----------------------------------------------------------------------------
(* Versions *)

\* create_version: the next number, with a file there is.
AddVersion(a, file) ==
    versions' = [versions EXCEPT ![a] = Append(@, [file |-> file, thumb |-> NoFile])]

\* asset_edit and shared_asset_edit.
AssetEdit ==
    /\ Spend
    /\ \E a \in Assets :
         /\ Exists(a) /\ Len(versions[a]) < MaxVersions
         /\ AddVersion(a, asset[a].file)
         /\ tasks' = tasks \cup {[kind |-> "edit", asset |-> a, version |-> Len(versions[a]) + 1]}
    /\ UNCHANGED <<asset, stored, uses, postState, hand, planned, raced, outcome>>

\* restore_version.
VersionRestore ==
    /\ Spend
    /\ \E a \in Assets :
         /\ Exists(a) /\ Len(versions[a]) < MaxVersions
         /\ \E n \in DOMAIN versions[a] :
              /\ AddVersion(a, versions[a][n].file)
              /\ asset' = [asset EXCEPT ![a] = [file |-> versions[a][n].file, thumb |-> versions[a][n].thumb]]
    /\ UNCHANGED <<stored, tasks, uses, postState, hand, planned, raced, outcome>>

\* process_media_asset, which gives up on an asset that is gone or not readable.
RunProcess ==
    \E t \in tasks :
        /\ t.kind = "process"
        /\ tasks' = tasks \ {t}
        /\ asset' = IF Exists(t.asset) /\ asset[t.asset].file \in stored[t.asset]
                    THEN [asset EXCEPT ![t.asset].thumb = asset[t.asset].file] ELSE asset
        /\ UNCHANGED <<versions, stored, uses, postState, hand, edits, planned, raced, outcome>>

\* Mutant: the file that the version had is removed from the storage.
MutantWithEdited(a, n) == (stored[a] \ {versions[a][n].file}) \cup {n}

\* The storage once the version has a file of its own.
WithEdited(a, n) == stored[a] \cup {n}

\* process_image_edit and process_video_trim: the version gets its own file and
\* the asset the thumbnail of it; the asset goes on serving the file it had.
RunEdit ==
    \E t \in tasks :
        LET a == t.asset
            n == t.version
        IN /\ t.kind = "edit"
           /\ tasks' = tasks \ {t}
           /\ IF Exists(a) /\ asset[a].file \in stored[a]
                THEN /\ stored' = [stored EXCEPT ![a] = WithEdited(a, n)]
                     /\ versions' = [versions EXCEPT ![a][n] = [file |-> n, thumb |-> n]]
                     /\ asset' = [asset EXCEPT ![a].thumb = n]
                ELSE UNCHANGED <<stored, versions, asset>>
           /\ UNCHANGED <<uses, postState, hand, edits, planned, raced, outcome>>

-----------------------------------------------------------------------------
(* Posts that use the assets *)

FilesOf(a) == {asset[a].file} \cup {versions[a][n].file : n \in DOMAIN versions[a]}

\* A deletion has looked for posts and is under way, or stopped half-way: a file that
\* the asset serves, or can be restored to, is gone.
Deleting(a) ==
    \/ \E h \in Hands : hand[h].pc \in {"files", "versions", "row"} /\ hand[h].asset = a
    \/ ~(FilesOf(a) \subseteq stored[a])

\* attach_media; media may be added to a post that is scheduled.
Attach ==
    /\ Spend
    /\ \E p \in MediaPosts, a \in Assets :
         /\ Exists(a) /\ <<p, a>> \notin uses /\ postState[p] \notin {"sent", "failed"}
         /\ uses' = uses \cup {<<p, a>>}
         /\ planned' = IF postState[p] = "draft" THEN planned ELSE [planned EXCEPT ![p] = @ \cup {a}]
         /\ raced' = [raced EXCEPT ![p] = @ \/ (postState[p] # "draft" /\ Deleting(a))]
    /\ UNCHANGED <<asset, versions, stored, tasks, postState, hand, outcome>>

\* The children of a post are scheduled (save_post, queues, the API).
SchedulePost ==
    /\ Spend
    /\ \E p \in MediaPosts :
         /\ postState[p] = "draft" /\ MediaOf(p) # {}
         /\ postState' = [postState EXCEPT ![p] = "scheduled"]
         /\ planned' = [planned EXCEPT ![p] = MediaOf(p)]
         /\ raced' = [raced EXCEPT ![p] = \E a \in MediaOf(p) : Deleting(a)]
    /\ UNCHANGED <<asset, versions, stored, tasks, uses, hand, outcome>>

\* The publisher claims a post, and later reads its attachments and sends them.
ClaimPost(p) ==
    /\ postState[p] = "scheduled"
    /\ postState' = [postState EXCEPT ![p] = "publishing"]
    /\ UNCHANGED <<asset, versions, stored, tasks, uses, hand, edits, planned, raced, outcome>>

\* A file that is not there fails the attempt.
SendPost(p) ==
    LET whole == \A a \in MediaOf(p) : asset[a].file \in stored[a] IN
    /\ postState[p] = "publishing"
    /\ postState' = [postState EXCEPT ![p] = IF whole THEN "sent" ELSE "failed"]
    /\ outcome' = [outcome EXCEPT ![p] = IF whole THEN MediaOf(p) ELSE {}]
    /\ UNCHANGED <<asset, versions, stored, tasks, uses, hand, edits, planned, raced>>

-----------------------------------------------------------------------------
(* Deletions *)

\* _check_post_references.
Protected(a) == \E p \in MediaPosts : <<p, a>> \in uses /\ postState[p] \in {"scheduled", "publishing"}

\* A deletion keeps the asset it has loaded.
Deletes(a, todo) == [pc |-> "files", asset |-> a, todo |-> todo, file |-> asset[a].file]

\* asset_delete, shared_asset_delete, remove_pending_media.
DeleteLooks(h) ==
    /\ AtRest(h) /\ Spend
    /\ \E a \in Assets :
         /\ Exists(a) /\ ~Protected(a)
         /\ hand' = [hand EXCEPT ![h] = Deletes(a, {})]
    /\ UNCHANGED <<asset, versions, stored, tasks, uses, postState, planned, raced, outcome>>

\* cleanup_orphaned_media: the assets nothing refers to when it scans ...
CleanupScans(h) ==
    /\ AtRest(h) /\ Spend
    /\ \E orphans \in SUBSET {a \in Assets : Exists(a) /\ \A p \in MediaPosts : <<p, a>> \notin uses} :
         /\ orphans # {}
         /\ hand' = [hand EXCEPT ![h] = [pc |-> "cleanup", asset |-> "none", todo |-> orphans]]
    /\ UNCHANGED <<asset, versions, stored, tasks, uses, postState, planned, raced, outcome>>

\* ... and each of them later, unless it is gone or protected by then.
CleanupLooks(h) ==
    /\ hand[h].pc = "cleanup"
    /\ IF hand[h].todo = {} THEN hand' = [hand EXCEPT ![h] = Idle]
       ELSE \E a \in hand[h].todo :
              LET rest == hand[h].todo \ {a} IN
              hand' = [hand EXCEPT ![h] =
                 IF Exists(a) /\ ~Protected(a) THEN Deletes(a, rest)
                 ELSE [pc |-> "cleanup", asset |-> "none", todo |-> rest]]
    /\ UNCHANGED <<asset, versions, stored, tasks, uses, postState, edits, planned, raced, outcome>>

\* delete_asset: the file it loaded, the files of the versions, the rows.
DeleteFile(h) ==
    LET a == hand[h].asset IN
    /\ hand[h].pc = "files"
    /\ stored' = [stored EXCEPT ![a] = @ \ {hand[h].file}]
    /\ hand' = [hand EXCEPT ![h].pc = "versions"]
    /\ UNCHANGED <<asset, versions, tasks, uses, postState, edits, planned, raced, outcome>>

DeleteVersions(h) ==
    LET a == hand[h].asset IN
    /\ hand[h].pc = "versions"
    /\ stored' = [stored EXCEPT ![a] = @ \ {versions[a][n].file : n \in DOMAIN versions[a]}]
    /\ hand' = [hand EXCEPT ![h].pc = "row"]
    /\ UNCHANGED <<asset, versions, tasks, uses, postState, edits, planned, raced, outcome>>

AfterDelete(h) == IF hand[h].todo = {} THEN Idle ELSE [pc |-> "cleanup", asset |-> "none", todo |-> hand[h].todo]

DeleteRow(h) ==
    LET a == hand[h].asset IN
    /\ hand[h].pc = "row"
    /\ asset' = [asset EXCEPT ![a] = Gone]
    /\ versions' = [versions EXCEPT ![a] = << >>]
    /\ uses' = {u \in uses : u[2] # a}
    /\ hand' = [hand EXCEPT ![h] = AfterDelete(h)]
    /\ UNCHANGED <<stored, tasks, postState, edits, planned, raced, outcome>>

\* The storage refuses, or the process dies, anywhere on the way.
Stops(h) ==
    /\ ~AtRest(h)
    /\ hand' = [hand EXCEPT ![h] = IF hand[h].pc \in {"versions", "row"} THEN AfterDelete(h) ELSE Idle]
    /\ UNCHANGED <<asset, versions, stored, tasks, uses, postState, edits, planned, raced, outcome>>

-----------------------------------------------------------------------------
MediaInit ==
    /\ asset = [a \in Assets |-> Fresh]
    /\ versions = [a \in Assets |-> << >>]
    /\ stored = [a \in Assets |-> {}]
    /\ tasks = {}
    /\ uses = {}
    /\ postState = [p \in MediaPosts |-> "draft"]
    /\ hand = [h \in Hands |-> Idle]
    /\ edits = 0
    /\ planned = [p \in MediaPosts |-> {}]
    /\ raced = [p \in MediaPosts |-> FALSE]
    /\ outcome = [p \in MediaPosts |-> {}]

MediaNext ==
    \/ ComposerUpload \/ AssetEdit \/ VersionRestore \/ RunProcess \/ RunEdit \/ Attach \/ SchedulePost
    \/ \E p \in MediaPosts : ClaimPost(p) \/ SendPost(p)
    \/ \E h \in Hands :
         \/ BeginUpload(h) \/ KeepUpload(h)
         \/ DeleteLooks(h) \/ CleanupScans(h) \/ CleanupLooks(h)
         \/ DeleteFile(h) \/ DeleteVersions(h) \/ DeleteRow(h) \/ Stops(h)

MediaSpec == MediaInit /\ [][MediaNext]_MediaVars

-----------------------------------------------------------------------------
\* A post is sent with all the media it was scheduled with, and never fails
\* for want of one of their files, whoever edits, restores, cleans up or deletes
\* assets meanwhile; only a deletion that had looked for posts before the post
\* was scheduled, or before the asset was attached to it, can take one away.
SentWithItsMedia ==
    \A p \in MediaPosts :
        (postState[p] \in {"sent", "failed"} /\ ~raced[p])
            => postState[p] = "sent" /\ outcome[p] = planned[p]

\* The quota is checked without a lock: the requests that can be in progress
\* together may exceed it by what all but one of them upload, and no more.
UploadsWithinQuota == Used <= StorageLimit + Cardinality(Hands) - 1

\* Posts keep their media, and the library its quota.
MediaIsKept == SentWithItsMedia /\ UploadsWithinQuota
=============================================================================
