-------------------------------- MODULE Services -------------------------------
(***************************************************************************)
(* Four parts of the backend that share no state: push tokens (FcmTokens), *)
(* categories (Categories), the pages of the feed (FeedPages) and          *)
(* notifications (Notifications).  A behaviour is about one of them, its   *)
(* subject, and leaves the others where they began.                        *)
(***************************************************************************)
EXTENDS Naturals

CONSTANTS Request, None,
          Token,
          Slug, List, FeedSlug, MaxCategories, MaxCategoryWrites, Patches,
          MaxArticles, MaxArticleWrites, Limits, Dates,
          User, Notice, owner, Limit, Nobody, All,
          Operations

VARIABLES subject,
          fcmTokens, tokenPc, arg, copy, registered, ever, tokenSerial,
          slug, active, parent, version, shown, moved, categoryCache,
          categoryTtl, categoryPc, cat, new, up, val, categorySerial,
          status, publishedAt, writes, since, floated, pageCache, pageTtl,
          writer, doomed, pagePc, items, total, limit, page, seen, repeated,
          base, quiet, growing, pageSerial,
          read, noticePc, user, id, count, found, listed, before, told, lost

tokenVars == <<fcmTokens, tokenPc, arg, copy, registered, ever, tokenSerial>>
categoryVars == <<slug, active, parent, version, shown, moved, categoryCache,
                  categoryTtl, categoryPc, cat, new, up, val, categorySerial>>
pageVars == <<status, publishedAt, writes, since, floated, pageCache, pageTtl,
              writer, doomed, pagePc, items, total, limit, page, seen, repeated,
              base, quiet, growing, pageSerial>>
noticeVars == <<read, noticePc, user, id, count, found, listed, before, told, lost>>
vars == <<subject, tokenVars, categoryVars, pageVars, noticeVars>>

Tokens == INSTANCE FcmTokens WITH pc <- tokenPc, serial <- tokenSerial
Categories == INSTANCE Categories WITH
    MaxWrites <- MaxCategoryWrites, cache <- categoryCache,
    expiring <- categoryTtl, pc <- categoryPc, serial <- categorySerial
Pages == INSTANCE FeedPages WITH
    MaxWrites <- MaxArticleWrites, cache <- pageCache, expiring <- pageTtl,
    pc <- pagePc, serial <- pageSerial
Notices == INSTANCE Notifications WITH pc <- noticePc

ASSUME TokenAssumptions == Tokens!Assumptions
ASSUME CategoryAssumptions == Categories!Assumptions
ASSUME PageAssumptions == Pages!Assumptions
ASSUME NoticeAssumptions == Notices!Assumptions

Subject == {"tokens", "categories", "pages", "notices"}

TypeOK ==
    /\ subject \in Subject
    /\ subject = "tokens" => Tokens!TypeOK
    /\ subject = "categories" => Categories!TypeOK
    /\ subject = "pages" => Pages!TypeOK
    /\ subject = "notices" => Notices!TypeOK

\* The client's page size only matters to the feed.
Init ==
    /\ subject \in Subject
    /\ Tokens!Init
    /\ Categories!Init
    /\ Pages!Init
    /\ Notices!Init
    /\ subject # "pages" => limit = CHOOSE n \in Limits : TRUE

About(s) == subject = s /\ UNCHANGED subject

Next ==
    \/ About("tokens") /\ Tokens!Next /\ UNCHANGED <<categoryVars, pageVars, noticeVars>>
    \/ About("categories") /\ Categories!Next /\ UNCHANGED <<tokenVars, pageVars, noticeVars>>
    \/ About("pages") /\ Pages!Next /\ UNCHANGED <<tokenVars, categoryVars, noticeVars>>
    \/ About("notices") /\ Notices!Next /\ UNCHANGED <<tokenVars, categoryVars, pageVars>>

Spec == Init /\ [][Next]_vars

-----------------------------------------------------------------------------
(* The modules' own properties; each is explained where it is defined.     *)

\* However handlers overwrite each other's arrays, no device gets a push
\* message twice, and only tokens that some client asked to add get any.
OnlyDistinctRequested == subject = "tokens" => Tokens!OnlyDistinctRequested

\* As long as the requests of a user do not overlap, the array of push tokens
\* is exact, also after crashes.
SerialIsExact == subject = "tokens" => Tokens!SerialIsExact

\* Only an update that moves a category can close a loop of parents.
LoopsNeedMoves == subject = "categories" => Categories!LoopsNeedMoves

\* Redis lists a category only in a version in which it was active, and shows
\* it in a feed only if it had been active under the slug of the feed.
OnlyActiveIsCached == subject = "categories" => Categories!OnlyActiveIsCached

\* Handlers that do not overlap leave the list of categories up to date.
ListFreshBetweenRequests == subject = "categories" => Categories!ListFreshBetweenRequests

\* The feed is in the order of publication, but for articles that an update
\* left without a date.
InOrderOfPublication == subject = "pages" => Pages!InOrderOfPublication

\* Paging through a feed nobody writes shows every article once.
QuietWalkIsExact == subject = "pages" => Pages!QuietWalkIsExact

\* Paging through a feed that only grows misses no article.
GrowthHidesNothing == subject = "pages" => Pages!GrowthHidesNothing

\* Every mark of a notification is counted in exactly one answer.
MarksAreToldOnce == subject = "notices" => Notices!MarksAreToldOnce

\* A notification somebody was answered about is read.
AnsweredIsRead == subject = "notices" => Notices!AnsweredIsRead

\* A listing and its unread count are of the time it was asked for.
ListingIsOfItsTime == subject = "notices" => Notices!ListingIsOfItsTime
=============================================================================
