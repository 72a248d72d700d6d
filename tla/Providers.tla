----------------------------- MODULE Providers -----------------------------
(***************************************************************************)
(* The platform clients (src/providers): what publish_post and             *)
(* publish_comment do on the wire, call by call.  A publication is a       *)
(* script of calls, one script per platform and type of post.  Any call    *)
(* may be refused, fail, or lose its reply after it has had its effect;    *)
(* media that a platform has taken in becomes ready, or fails, later.      *)
(* The scripts are translated from each client; what the platforms do is   *)
(* taken from how the clients use them.                                    *)
(***************************************************************************)
EXTENDS Naturals, Sequences, FiniteSets

CONSTANTS
    Contents,      \* [hint, files, isVideo]: what the engine derives the type from
    MAX_POLLS,     \* CONTAINER_POLL_MAX_ATTEMPTS, timeout_seconds / poll_interval
    MAX_ATTEMPTS,  \* attempts of the engine, the first one included
    MaxLostReplies,       \* bound: replies lost after the call took effect
    NoHint         \* platform_extra has no post_type

ASSUME ProvidersAssumption ==
    /\ MAX_POLLS \in Nat \ {0}
    /\ MAX_ATTEMPTS \in Nat \ {0}
    /\ MaxLostReplies \in Nat
    /\ \A c \in Contents : c.files \in Seq({"image", "video"}) /\ c.isVideo \in BOOLEAN

VARIABLES
    job,       \* what is published: platform, content, and post or comment
    phase,     \* idle, calling, retry, published or failed
    script,    \* the calls the attempt still has to make
    media,     \* the media objects this attempt made, by the state the platform has them in
    polls,     \* polls of the current wait
    tries,
    posted,    \* history: copies on the platform
    lost       \* history: copies whose reply was lost, and all replies lost

ProvidersVars == <<job, phase, script, media, polls, tries, posted, lost>>

-----------------------------------------------------------------------------
(* Calls.  check: no call, a condition on data the model leaves out.       *)
(* raise: a condition that does not hold.  read: no effect.  attempt:      *)
(* a call whose failure is caught and logged.  open: a media object that   *)
(* waits for its bytes.  send: bytes.  seal: the bytes are complete.       *)
(* create: a media object the platform fetches or gets at once.  wait:     *)
(* poll until the last object is ready.  post: the post is visible.        *)
(* deliver: bytes whose completion makes the post visible.                 *)

Op(name) == [op |-> name, permanent |-> FALSE]

\* A call whose refusal carries retryable=False.
Final(step) == [step EXCEPT !.permanent = TRUE]

Check == Op("check")
Missing == Op("raise")
Read == Op("read")
Attempt == Op("attempt")
Send == Op("send")
Seal == Op("seal")
Post == Op("post")
Deliver == Op("deliver")

\* The upload session or container; a reply without an id raises.
Open == Op("open")
Create == Op("create")
Wait == Op("wait")

\* What must hold before anything is called.
Need(condition) == IF condition THEN <<>> ELSE <<Missing>>

Repeated(n, calls) == [i \in 1..(n * Len(calls)) |-> calls[1 + ((i - 1) % Len(calls))]]

-----------------------------------------------------------------------------
(* LinkedIn *)

LinkedInUploadBinary == Seal
LinkedInUploadChunk == Send
LinkedInWait == Wait

\* The file is on disk already, or is downloaded first.
LinkedInVideoFile == Check

LinkedInText == <<Post>>
LinkedInImage == <<Open, LinkedInUploadBinary, Post>>
LinkedInVideo(n) ==
    <<LinkedInVideoFile, Open>> \o Repeated(n, <<LinkedInUploadChunk>>) \o <<Seal, LinkedInWait, Post>>
LinkedInArticle == <<Post>>
LinkedInPoll == <<Check, Post>>
LinkedInComment == <<Read, Post>>

LinkedInScript(type, n) ==
    CASE type = "image" /\ n > 0 -> LinkedInImage
      [] type = "video" /\ n > 0 -> LinkedInVideo(n)
      [] type = "article"        -> LinkedInArticle
      [] type = "poll"           -> LinkedInPoll
      [] OTHER                   -> LinkedInText

\* A member is the author of a post by the profile, a company by its account.
\* With OpenID Connect alone a member cannot comment.
LinkedInPersonalComment == <<Check>> \o LinkedInComment

LinkedInPersonal(type, n) ==
    IF type = "comment" THEN LinkedInPersonalComment ELSE <<Read>> \o LinkedInScript(type, n)
LinkedInCompany(type, n) ==
    IF type = "comment" THEN LinkedInComment ELSE LinkedInScript(type, n)

-----------------------------------------------------------------------------
(* Instagram, through a Facebook page or with its own login: a container   *)
(* is waited for before it is published or put into a carousel.            *)

InstagramContainer == Create
InstagramWait == Wait
InstagramPublish == Post

InstagramSingle == <<InstagramContainer, InstagramWait, InstagramPublish>>
InstagramCarousel(n) ==
    Repeated(n, <<InstagramContainer, InstagramWait>>)
        \o <<InstagramContainer, InstagramWait, InstagramPublish>>
InstagramComment == <<Post>>

InstagramLogin(type, n) ==
    CASE type = "comment"            -> InstagramComment
      [] type = "carousel" /\ n > 1  -> InstagramCarousel(n)
      [] OTHER                       -> Need(n > 0) \o InstagramSingle

BusinessContainer == Create
BusinessWait == Wait
BusinessPublish == Post
BusinessUserId == Read

BusinessSingle == <<BusinessContainer, BusinessWait, BusinessPublish>>
BusinessCarousel(n) ==
    Repeated(n, <<BusinessContainer, BusinessWait>>) \o <<BusinessContainer, BusinessWait, BusinessPublish>>
BusinessComment == <<Post>>

Instagram(type, n) ==
    CASE type = "comment"  -> BusinessComment
      [] type = "carousel" -> <<BusinessUserId>> \o BusinessCarousel(n)
      [] OTHER             -> <<BusinessUserId>> \o Need(n > 0) \o BusinessSingle

-----------------------------------------------------------------------------
(* Threads publishes its containers without waiting for them. *)

ThreadsSingle == <<Create, Post>>
ThreadsCarousel(n) == Repeated(n, <<Create>>) \o <<Create, Post>>
ThreadsComment == <<Read, Create, Post>>

Threads(type, n) ==
    CASE type = "comment"  -> ThreadsComment
      [] type = "carousel" -> <<Read>> \o ThreadsCarousel(n)
      [] OTHER             -> <<Read>> \o ThreadsSingle

-----------------------------------------------------------------------------
(* Facebook pages *)

FacebookText == <<Post>>
FacebookPhoto == <<Post>>
FacebookVideo == <<Post>>
FacebookComment == <<Post>>

\* Without a page id nothing is called.
Facebook(type, n) ==
    CASE type = "comment"        -> FacebookComment
      [] type = "image" /\ n > 0 -> <<Check>> \o FacebookPhoto
      [] type = "video" /\ n > 0 -> <<Check>> \o FacebookVideo
      [] OTHER                   -> <<Check>> \o FacebookText

-----------------------------------------------------------------------------
(* YouTube and TikTok: the end of the upload is the publication. *)

MutantYouTubeThumbnail == Read

\* A custom thumbnail that cannot be set does not fail the video.
YouTubeThumbnail == Attempt

YouTubeVideo(n) == <<Open>> \o Need(n > 0) \o <<Deliver, YouTubeThumbnail>>
YouTubeComment == <<Post>>
YouTube(type, n) ==
    CASE type = "comment"            -> YouTubeComment
      [] OTHER                       -> Need(type \in {"video", "short"}) \o YouTubeVideo(n)

\* creator_info may fail, but a privacy level it rules out is final.
TikTokPrivacy == <<Final(Check), Attempt, Final(Check)>>
TikTokInit == Final(Open)
TikTokInitPull == Final(Post)
TikTokFile == <<Check, TikTokInit, Deliver>>
TikTokPull == <<TikTokInitPull>>

\* The engine always has a file; without one there is no source at all.
TikTok(type, files, urls) ==
    IF type # "video" THEN <<Missing>>
    ELSE TikTokPrivacy \o (CASE files > 0 -> TikTokFile
                             [] files = 0 /\ urls > 0 -> TikTokPull
                             [] OTHER -> <<Final(Missing)>>)

-----------------------------------------------------------------------------
(* Mastodon, Bluesky, Pinterest, Google Business *)

MastodonUpload == Create
MastodonStatus(n) == Repeated(n, <<MastodonUpload>>) \o <<Post>>
MastodonComment == <<Post>>
Mastodon(type, n) == IF type = "comment" THEN MastodonComment ELSE MastodonStatus(n)

BlueskyUpload == Create

\* A mention whose handle cannot be resolved is left out.
BlueskyFacets == <<Attempt>>
BlueskyEmbed(type, n) ==
    CASE type = "video" /\ n > 0 -> <<BlueskyUpload>>
      [] type = "image"          -> Repeated(IF n < 4 THEN n ELSE 4, <<BlueskyUpload>>)
      [] OTHER                   -> <<>>
Bluesky(type, n) ==
    IF type = "comment" THEN <<Missing>>
    ELSE <<Check, Read>> \o BlueskyFacets \o BlueskyEmbed(type, n) \o <<Post>>

PinterestVideo(n) == IF n > 0 THEN <<Open, Seal, Post>> ELSE <<Open, Post>>
PinterestPin(n) == Need(n > 0) \o <<Post>>
Pinterest(type, n, isVideo) ==
    CASE type = "comment" -> <<Missing>>
      [] isVideo          -> <<Check>> \o PinterestVideo(n)
      [] OTHER            -> <<Check>> \o PinterestPin(n)

GoogleAccount == Read
GoogleLocation == Read
GoogleBusiness(type, n) ==
    IF type = "comment" THEN <<Missing>> ELSE <<Check, GoogleAccount, GoogleLocation, Post>>

-----------------------------------------------------------------------------
(* The engine's side: the type of a post, what it prepares, and the registry *)

Platforms == {"linkedin_personal", "linkedin_company", "instagram_login", "instagram",
              "threads", "facebook", "youtube", "tiktok", "mastodon", "bluesky",
              "pinterest", "google_business"}

VideoOnly == {"youtube", "tiktok"}

IsVideo(file) == file = "video"

\* A video-only platform is not given the other attachments.
Attached(platform, files) ==
    LET videos == {i \in DOMAIN files : IsVideo(files[i])}
    IN  IF platform \in VideoOnly THEN [i \in 1..Cardinality(videos) |-> "video"] ELSE files

ResolvePostType(platform, hint, files) ==
    CASE hint # NoHint -> hint
      [] hint = NoHint /\ platform = "pinterest" -> "pin"
      [] /\ hint = NoHint /\ Len(files) > 1
         /\ platform \in {"instagram", "instagram_login", "threads"} -> "carousel"
      [] OTHER -> IF files = <<>> THEN "text" ELSE Head(files)

\* The client of the registry.
ScriptOf(platform, type, n, isVideo) ==
    CASE platform = "linkedin_personal" -> LinkedInPersonal(type, n)
      [] platform = "linkedin_company"  -> LinkedInCompany(type, n)
      [] platform = "instagram_login"   -> InstagramLogin(type, n)
      [] platform = "instagram"         -> Instagram(type, n)
      [] platform = "threads"           -> Threads(type, n)
      [] platform = "facebook"          -> Facebook(type, n)
      [] platform = "youtube"           -> YouTube(type, n)
      [] platform = "tiktok"            -> TikTok(type, n, n)
      [] platform = "mastodon"          -> Mastodon(type, n)
      [] platform = "bluesky"           -> Bluesky(type, n)
      [] platform = "pinterest"         -> Pinterest(type, n, isVideo)
      [] platform = "google_business"   -> GoogleBusiness(type, n)

\* The token is refreshed at best effort; then every attachment is copied to
\* a temporary file, which can fail.
Dispatched(platform, c) ==
    LET files == Attached(platform, c.files)
        type  == ResolvePostType(platform, c.hint, files)
    IN  <<Attempt>> \o Repeated(Len(files), <<Read>>) \o ScriptOf(platform, type, Len(files), c.isVideo)

-----------------------------------------------------------------------------
(* The run of a script *)

ProvidersInit ==
    /\ job \in [platform : Platforms, content : Contents, comment : BOOLEAN]
    /\ phase = "idle"
    /\ script = <<>>
    /\ media = <<>>
    /\ polls = 0
    /\ tries = 0
    /\ posted = 0
    /\ lost = [copies |-> 0, all |-> 0]

Calling(names) == phase = "calling" /\ script # <<>> /\ Head(script).op \in names

Advance == script' = Tail(script) /\ UNCHANGED phase

\* A first comment is a task whose exceptions are logged, a post is tried again
\* unless the error is final.
Raise(permanent) ==
    /\ phase' = IF permanent \/ job.comment THEN "failed" ELSE "retry"
    /\ script' = <<>>

StartAttempt ==
    /\ \/ phase = "idle"
       \/ phase = "retry" /\ tries < MAX_ATTEMPTS
    /\ ~job.comment
    /\ phase' = "calling"
    /\ script' = Dispatched(job.platform, job.content)
    /\ tries' = tries + 1
    /\ media' = <<>>
    /\ polls' = 0
    /\ UNCHANGED <<job, posted, lost>>

PostFirstComment ==
    /\ phase = "idle" /\ job.comment
    /\ phase' = "calling"
    /\ script' = ScriptOf(job.platform, "comment", 0, FALSE)
    /\ UNCHANGED <<job, media, polls, tries, posted, lost>>

\* What a call does on the platform.  Nothing is published from media that is
\* not ready.
Effect(name) ==
    /\ CASE name = "open"   -> media' = Append(media, "open")
         [] name = "create" -> media' = Append(media, "processing")
         [] name = "seal"   -> media' = [media EXCEPT ![Len(media)] = "processing"]
         [] OTHER           -> UNCHANGED media
    /\ name = "post" => \A i \in DOMAIN media : media[i] = "ready"
    /\ posted' = posted + (IF name \in {"post", "deliver"} THEN 1 ELSE 0)

Remote == {"read", "open", "send", "seal", "create", "post", "deliver"}

CheckPasses ==
    /\ Calling({"check", "attempt"})
    /\ Advance
    /\ UNCHANGED <<job, media, polls, tries, posted, lost>>

CheckRefuses ==
    /\ Calling({"check", "raise"})
    /\ Raise(Head(script).permanent)
    /\ UNCHANGED <<job, media, polls, tries, posted, lost>>

CallAnswers ==
    /\ Calling(Remote)
    /\ Effect(Head(script).op)
    /\ Advance
    /\ UNCHANGED <<job, polls, tries, lost>>

CallRefused ==
    /\ Calling(Remote)
    /\ \E permanent \in {FALSE, Head(script).permanent} : Raise(permanent)
    /\ UNCHANGED <<job, media, polls, tries, posted, lost>>

CallLosesReply ==
    /\ Calling(Remote \ {"read"})
    /\ lost.all < MaxLostReplies
    /\ Effect(Head(script).op)
    /\ Raise(FALSE)
    /\ lost' = [copies |-> lost.copies + (posted' - posted), all |-> lost.all + 1]
    /\ UNCHANGED <<job, polls, tries>>

PollReady ==
    /\ Calling({"wait"})
    /\ media[Len(media)] = "ready"
    /\ polls' = 0
    /\ Advance
    /\ UNCHANGED <<job, media, tries, posted, lost>>

\* A loop that ends without raising.
MutantPollPending ==
    /\ Calling({"wait"})
    /\ media[Len(media)] = "processing"
    /\ IF polls + 1 < MAX_POLLS
       THEN polls' = polls + 1 /\ UNCHANGED <<phase, script>>
       ELSE polls' = 0 /\ Advance
    /\ UNCHANGED <<job, media, tries, posted, lost>>

\* A loop without a limit.
MutantUnboundedPoll ==
    /\ Calling({"wait"})
    /\ media[Len(media)] = "processing"
    /\ UNCHANGED ProvidersVars

\* The last poll that finds the object unfinished raises.
PollPending ==
    /\ Calling({"wait"})
    /\ media[Len(media)] = "processing"
    /\ IF polls + 1 < MAX_POLLS
       THEN polls' = polls + 1 /\ UNCHANGED <<phase, script>>
       ELSE polls' = 0 /\ Raise(FALSE)
    /\ UNCHANGED <<job, media, tries, posted, lost>>

PollFailed ==
    /\ Calling({"wait"})
    /\ media[Len(media)] = "failed"
    /\ polls' = 0
    /\ Raise(FALSE)
    /\ UNCHANGED <<job, media, tries, posted, lost>>

\* The poll is a call too, and its failure is not caught.
PollRaises ==
    /\ Calling({"wait"})
    /\ polls' = 0
    /\ Raise(FALSE)
    /\ UNCHANGED <<job, media, tries, posted, lost>>

\* publish_post returns its result.
Return ==
    /\ phase = "calling" /\ script = <<>>
    /\ phase' = "published"
    /\ UNCHANGED <<job, script, media, polls, tries, posted, lost>>

\* The platform ends the processing of a media object.
Process(i) ==
    /\ media[i] = "processing"
    /\ \E s \in {"ready", "failed"} : media' = [media EXCEPT ![i] = s]
    /\ UNCHANGED <<job, phase, script, polls, tries, posted, lost>>

ClientStep ==
    \/ CheckPasses \/ CheckRefuses
    \/ CallAnswers \/ CallRefused \/ CallLosesReply
    \/ PollReady \/ PollPending \/ PollFailed
    \/ Return

ProvidersNext ==
    \/ StartAttempt \/ PostFirstComment
    \/ ClientStep \/ PollRaises
    \/ \E i \in DOMAIN media : Process(i)

\* Every HTTP call has a timeout, so the client always moves on; nothing
\* obliges a platform to process anything.
ProvidersSpec ==
    /\ ProvidersInit /\ [][ProvidersNext]_ProvidersVars
    /\ WF_ProvidersVars(ClientStep)

-----------------------------------------------------------------------------
(* Properties *)

Abstract == INSTANCE Dispatch WITH
    state    <- IF phase = "calling" /\ posted > lost.copies THEN "accepted" ELSE phase,
    copies   <- posted,
    doubtful <- lost.copies

(* Whatever the platform and the type of post, an attempt that raises has  *)
(* published nothing, or lost the reply to the very call that published:   *)
(* no call that may fail follows the one that makes the post visible.      *)
(* The retries of the engine rely on it (engine.py, _schedule_retry).      *)
ImplementsDispatch == Abstract!DispatchSpec

(* Every attempt ends, though the platform may keep a container in         *)
(* processing for ever: all polls are bounded.                             *)
EveryAttemptEnds == Abstract!AttemptsEnd

(* Instagram and LinkedIn videos: when the call that publishes is made,    *)
(* the media it names is ready, however often the poll found it unfinished *)
(* and whichever item of a carousel was late (_wait_for_container,         *)
(* _wait_for_video_available).                                             *)
PublishesOnlyReadyMedia ==
    /\ Calling({"post"})
    /\ \/ job.platform \in {"instagram", "instagram_login"}
       \/ /\ job.platform \in {"linkedin_personal", "linkedin_company"}
          /\ ResolvePostType(job.platform, job.content.hint, job.content.files) = "video"
    => \A i \in DOMAIN media : media[i] = "ready"
=============================================================================
