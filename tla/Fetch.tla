------------------------------- MODULE Fetch -------------------------------
(***************************************************************************)
(* One collection of a source over HTTP: _fetch_source_entries of          *)
(* services.py with its fallback, the feed, API, sitemap and website       *)
(* adapters (adapters/rss.py, adapters/http_sources.py) with their loop of *)
(* redirects, and the enrichment of the entries that follows in a pull.    *)
(*                                                                         *)
(* The web is the environment: every request may be answered by a page, a  *)
(* redirect to any URL, 404 or 410, or an error (another status, a         *)
(* timeout, a body that is too large, of the wrong type or unreadable),    *)
(* and the same URL differently the next time.  Some answers raise what    *)
(* no handler takes: a date out of range (OverflowError, adapters/rss.py), *)
(* a URL that httpx cannot parse, a JSON text nested too deeply.           *)
(*                                                                         *)
(* Abstracted: the links of a page and the files of a sitemap are a number *)
(* of URLs, each of which is known when its turn comes; a URL list that    *)
(* repeats itself is covered by that.  A host that does not resolve is one *)
(* that is not public.                                                     *)
(***************************************************************************)
EXTENDS Integers, FiniteSets

CONSTANTS
    Urls,       \* URLs the source, its site and redirects may name
    Origins,    \* scheme and host
    Origin,     \* Origin[u]
    Robots,     \* Robots[o]: the URL of robots.txt of the origin
    Public,     \* URLs validate_public_http_url accepts
    EntryUrl,   \* entry_url of the source
    FallbackUrl, \* its fallback_url, or NoUrl
    NoUrl,      \* nothing is asked for
    NoPolicy,   \* no robots.txt was read
    MaxRedirects,    \* MAX_REDIRECTS: requests of one fetch
    MaxSitemapFiles, \* MAX_SITEMAP_FILES
    LinksPerEntry,   \* 4: candidates looked at for every entry wanted
    Limit,      \* max_items_per_source
    Slots       \* the semaphore of _enrich_source_entries

ASSUME FetchNames ==
    /\ IsFiniteSet(Urls)
    /\ Origin \in [Urls -> Origins]
    /\ Robots \in [Origins -> Urls]
    /\ \A o \in Origins : Origin[Robots[o]] = o
    /\ Public \subseteq Urls
    /\ EntryUrl \in Urls
    /\ FallbackUrl \in Urls \cup {NoUrl}
    /\ NoUrl \notin Urls
    /\ NoPolicy \notin [origin : Origins, allowed : SUBSET Urls]

ASSUME FetchBounds ==
    /\ MaxRedirects \in Nat \ {0}
    /\ MaxSitemapFiles \in Nat
    /\ LinksPerEntry \in Nat \ {0}
    /\ Limit \in Nat \ {0}
    /\ Slots \in Nat \ {0}

Methods == {"rss", "api", "sitemap", "website"}

Source ==
    [method : Methods,
     listed : BOOLEAN, \* in newsplease_discovery_source_ids
     enrich : BOOLEAN] \* a pull, and not of a metadata_only source

VARIABLES
    source,    \* what is collected, and for what
    entrance,  \* "primary" or "fallback"
    stage,     \* what is under way; a fetch, for the stages in Fetching
    asked,     \* the URL the fetch began with
    url,       \* current_url
    hops,      \* requests of this fetch so far
    policy,    \* the robots policy in force
    base,      \* final_url of the page that has the links
    files,     \* files of the sitemap index to read
    due,       \* pages to look at
    found,     \* entries
    from,      \* entrances they are of
    plain,     \* entries to enrich
    enriching, \* entries whose pages are being fetched
    result,    \* "none", or what the collection ended with
    (* history *)
    requests,  \* requests sent, counted up to one more than MostRequests
    raised     \* the exceptions raised: of which entrance, of a page or not, of what kind

walk == <<policy, base, files, due, found, from>>
vars == <<source, entrance, stage, asked, url, hops, policy, base, files, due, found, from,
          plain, enriching, result, requests, raised>>

Fetching == {"robots", "root", "moved", "child", "page"}
Stages == Fetching \cup {"start", "gather", "enrich", "done"}
Entrances == {"primary", "fallback"}

\* UnsafeUrlError; any other HTTPError or ValueError; and what is neither.
Exceptions == {"unsafe", "error", "crash"}
Reports == [of : Entrances, at : {"page", "elsewhere"}, kind : Exceptions]
Policies == [origin : Origins, allowed : SUBSET Urls]

\* Requests of the longest collection: every fetch takes all its requests, the
\* primary entrance fails at its end, and every entry is enriched.
MostRequests ==
    LET website == 3 + LinksPerEntry * Limit
        sitemap == 1 + MaxSitemapFiles + Limit
    IN MaxRedirects * (2 * (CASE source.method = "website" -> website
                              [] source.method = "sitemap" -> sitemap
                              [] OTHER -> 1)
                       + Limit)

Sent(n) == requests' = IF requests + n > MostRequests THEN MostRequests + 1 ELSE requests + n

Init ==
    /\ source \in Source
    /\ entrance = "primary"
    /\ stage = "start"
    /\ asked = NoUrl /\ url = NoUrl /\ hops = 0
    /\ policy = NoPolicy /\ base = NoUrl
    /\ files = 0 /\ due = 0 /\ found = 0 /\ from = {}
    /\ plain = 0 /\ enriching = 0
    /\ result = "none"
    /\ requests = 0
    /\ raised = {}

\* The URL a collection starts from.
Entry == IF entrance = "primary" THEN EntryUrl ELSE FallbackUrl
-----------------------------------------------------------------------------
(***************************************************************************)
(* How an adapter ends                                                     *)
(***************************************************************************)

\* fetch_public_bytes(u) is called at the stage s.
Ask(u, s) ==
    /\ stage' = s
    /\ asked' = u
    /\ url' = u
    /\ hops' = 0
    /\ UNCHANGED <<source, entrance, plain, enriching, result, raised>>

NotFetching == asked' = NoUrl /\ url' = NoUrl /\ hops' = 0

Where == IF stage = "page" THEN "page" ELSE "elsewhere"
Raised(kind) == raised' = raised \cup {[of |-> entrance, at |-> Where, kind |-> kind]}

\* What the adapter had gathered is gone.
Dropped ==
    /\ NotFetching
    /\ policy' = NoPolicy /\ base' = NoUrl
    /\ files' = 0 /\ due' = 0 /\ found' = 0 /\ from' = {}
    /\ UNCHANGED <<source, plain, enriching>>

\* Mutant: UnsafeUrlError is caught as the ValueError it also is.
AbortAnyError(kind) ==
    /\ \/ /\ entrance = "primary" /\ FallbackUrl # NoUrl
          /\ entrance' = "fallback" /\ stage' = "start" /\ result' = result
       \/ /\ entrance = "fallback" \/ FallbackUrl = NoUrl
          /\ entrance' = entrance /\ stage' = "done" /\ result' = "error"
    /\ Raised(kind)
    /\ Dropped

\* An exception leaves the adapter.  An error gives the fallback its turn; a refused
\* URL is final, and so is what no handler takes.
Abort(kind) ==
    /\ \/ /\ kind = "error"
          /\ entrance = "primary" /\ FallbackUrl # NoUrl
          /\ entrance' = "fallback" /\ stage' = "start" /\ UNCHANGED result
       \/ /\ kind = "error"
          /\ entrance = "fallback" \/ FallbackUrl = NoUrl
          /\ stage' = "done" /\ result' = "error" /\ UNCHANGED entrance
       \/ /\ kind = "unsafe"
          /\ stage' = "done" /\ result' = "forbidden" /\ UNCHANGED entrance
       \/ /\ kind = "crash"
          /\ stage' = "done" /\ result' = "crashed" /\ UNCHANGED entrance
    /\ Raised(kind)
    /\ Dropped

\* The walk goes on with its next file or page.
GoOn ==
    /\ stage' = "gather"
    /\ NotFetching
    /\ UNCHANGED <<source, entrance, plain, enriching, result>>

\* A page that cannot be fetched is skipped, unless what it raised no handler takes.
Skipped(kind) == stage = "page" /\ kind # "crash"

\* A fetch raised: pages are skipped, anything else aborts the collection.
Raise(kind) ==
    \/ /\ Skipped(kind)
       /\ due' = due - 1
       /\ Raised(kind)
       /\ UNCHANGED <<policy, base, files, found, from>>
       /\ GoOn
    \/ /\ ~Skipped(kind)
       /\ Abort(kind)
-----------------------------------------------------------------------------
(***************************************************************************)
(* fetch_public_bytes, and the same loop in fetch_feed                     *)
(***************************************************************************)

\* Mutant: only the first URL of a fetch is checked.
AcceptedAtFirst == asked \in Public

\* current_url passed validate_public_http_url.
Accepted == url \in Public

Refuse ==
    /\ stage \in Fetching
    /\ ~Accepted
    /\ Raise("unsafe")
    /\ UNCHANGED requests

GiveUp ==
    /\ stage \in Fetching
    /\ Accepted
    /\ hops = MaxRedirects
    /\ Raise("error")
    /\ UNCHANGED requests

\* A request goes out and is answered.
Request ==
    /\ stage \in Fetching
    /\ Accepted
    /\ hops < MaxRedirects
    /\ Sent(1)

\* Mutant: redirects are followed for as long as they come.
RedirectOnAndOn ==
    /\ Request
    /\ url' \in Urls
    /\ UNCHANGED <<source, entrance, stage, asked, hops, walk, plain, enriching, result, raised>>

\* The target of a redirect is checked at once, but asked for in the next round.
Redirect ==
    /\ Request
    /\ url' \in Urls
    /\ hops' = hops + 1
    /\ UNCHANGED <<source, entrance, stage, asked, walk, plain, enriching, result, raised>>

\* An error; the server that answered has an address that is not public; or what it
\* answered raises what no handler takes.
Break ==
    /\ Request
    /\ \E kind \in Exceptions : Raise(kind)

\* httpx cannot parse the URL (InvalidURL): nothing is sent.
Unparsable ==
    /\ stage \in Fetching
    /\ Accepted
    /\ hops < MaxRedirects
    /\ Raise("crash")
    /\ UNCHANGED requests

\* 404 or 410; of robots.txt they say that there are no rules (_fetch_robots_policy).
Rules(allowed) == policy' = [origin |-> Origin[asked], allowed |-> allowed]

RobotsGone == Request /\ stage \in {"robots", "moved"} /\ Rules(Urls)
RobotsRead == Request /\ stage \in {"robots", "moved"} /\ \E s \in SUBSET Urls : Rules(s)
-----------------------------------------------------------------------------
(***************************************************************************)
(* The adapters                                                            *)
(***************************************************************************)
Start ==
    /\ stage = "start"
    /\ \/ /\ source.method = "website" /\ ~source.listed
          /\ Abort("error")
       \/ /\ source.method = "website" /\ source.listed
          /\ Ask(Robots[Origin[Entry]], "robots")
          /\ UNCHANGED walk
       \/ /\ source.method # "website"
          /\ Ask(Entry, "root")
          /\ UNCHANGED walk
    /\ UNCHANGED requests

\* parse_same_site_links: so many links are looked at.
Links == 0 .. LinksPerEntry * Limit

\* discover_site_entries has the rules for the entry.
EntryRules ==
    /\ stage = "robots"
    /\ \/ RobotsGone \/ RobotsRead
    /\ Entry \in policy'.allowed
    /\ Ask(Entry, "root")
    /\ UNCHANGED <<base, files, due, found, from>>

\* It has the rules for the page the entry redirected to, which it already fetched.
MovedRules ==
    /\ stage = "moved"
    /\ \/ RobotsGone \/ RobotsRead
    /\ base \in policy'.allowed
    /\ due' \in Links
    /\ GoOn
    /\ UNCHANGED <<base, files, found, from, raised>>

\* The rules that were read do not allow the entry, or the page it redirected to.
Disallowed ==
    /\ Request
    /\ stage \in {"robots", "moved"}
    /\ Abort("error")

\* The entry of a website is read; if it is on another site that one's rules come first.
SiteRead ==
    /\ Request
    /\ stage = "root" /\ source.method = "website"
    /\ \/ /\ Origin[url] # Origin[Entry]
          /\ base' = url
          /\ Ask(Robots[Origin[url]], "moved")
          /\ UNCHANGED <<policy, files, due, found, from>>
       \/ /\ Origin[url] = Origin[Entry]
          /\ url \in policy.allowed
          /\ base' = url
          /\ due' \in Links
          /\ GoOn
          /\ UNCHANGED <<policy, files, found, from, raised>>
       \/ /\ Origin[url] = Origin[Entry]
          /\ url \notin policy.allowed
          /\ Abort("error")

\* fetch_sitemap_entries: a list of pages, or of more files.
SitemapRead ==
    /\ Request
    /\ stage = "root" /\ source.method = "sitemap"
    /\ \/ /\ due' \in 0 .. Limit /\ files' = 0
       \/ /\ due' = 0 /\ files' \in 0 .. MaxSitemapFiles
    /\ GoOn
    /\ UNCHANGED <<policy, base, found, from, raised>>

\* A file of pages, or another index, which is skipped.  Enough pages end the loop.
FileRead ==
    /\ Request
    /\ stage = "child"
    /\ due' \in due .. Limit
    /\ files' = IF due' = Limit THEN 0 ELSE files - 1
    /\ GoOn
    /\ UNCHANGED <<policy, base, found, from, raised>>

\* The entries found so far are of the entrance under way, and those there were.
Found == from' = IF found' > 0 THEN from \cup {entrance} ELSE from

\* A feed may be empty, an API answer may not.  An API entry with an origin URL that
\* is not acceptable aborts the collection.
EntriesRead ==
    /\ Request
    /\ stage = "root"
    /\ \/ /\ source.method = "rss" /\ found' \in 0 .. Limit
          /\ Found /\ GoOn /\ UNCHANGED <<policy, base, files, due, raised>>
       \/ /\ source.method = "api" /\ found' \in 1 .. Limit
          /\ Found /\ GoOn /\ UNCHANGED <<policy, base, files, due, raised>>
       \/ /\ source.method = "api"
          /\ Abort("unsafe")

PageRead ==
    /\ Request
    /\ stage = "page"
    /\ found' = found + 1
    /\ due' = due - 1
    /\ Found
    /\ GoOn
    /\ UNCHANGED <<policy, base, files, raised>>

NextFile ==
    /\ stage = "gather" /\ files > 0
    /\ \E u \in Urls : Ask(u, "child")
    /\ UNCHANGED <<walk, requests>>

\* Mutant: a website is walked to the end of its links.
EnoughNever == FALSE

\* discover_site_entries stops at its limit; a sitemap gave no more pages than that.
Enough == found = Limit

NextPage ==
    /\ stage = "gather" /\ files = 0 /\ due > 0 /\ ~Enough
    /\ \E u \in Urls :
        \/ /\ source.method = "sitemap"
           /\ Ask(u, "page")
           /\ UNCHANGED walk
        \/ /\ source.method = "website"
           /\ Origin[u] = Origin[base] /\ u # base
           /\ u \in policy.allowed
           /\ Ask(u, "page")
           /\ UNCHANGED walk
        \/ /\ source.method = "website"
           /\ Origin[u] = Origin[base] /\ u # base
           /\ u \notin policy.allowed
           /\ due' = due - 1
           /\ GoOn
           /\ UNCHANGED <<policy, base, files, found, from, raised>>
    /\ UNCHANGED requests

\* The adapter returns, unless it has nothing to return.
Gathered ==
    /\ stage = "gather" /\ files = 0 /\ (due = 0 \/ Enough)
    /\ \/ /\ found = 0 /\ source.method # "rss"
          /\ Abort("error")
       \/ /\ found > 0 \/ source.method = "rss"
          /\ stage' = "enrich"
          /\ plain' \in IF source.enrich THEN 0 .. found ELSE {0}
          /\ UNCHANGED <<source, entrance, asked, url, hops, walk, enriching, result, raised>>
    /\ UNCHANGED requests
-----------------------------------------------------------------------------
(***************************************************************************)
(* _enrich_source_entries: the pages of entries without a text             *)
(***************************************************************************)
EnrichBegins ==
    /\ plain > 0 /\ enriching < Slots
    /\ plain' = plain - 1
    /\ enriching' = enriching + 1
    /\ UNCHANGED <<source, entrance, stage, asked, url, hops, walk, result, requests, raised>>

\* The page was fetched, with any redirects, or not: the entry is kept.
EnrichEnds ==
    /\ enriching > 0
    /\ enriching' = enriching - 1
    /\ \E n \in 0 .. MaxRedirects : Sent(n)
    /\ UNCHANGED <<source, entrance, stage, asked, url, hops, walk, plain, result, raised>>

\* A page raised what no handler takes, which ends the collection.  asyncio.gather lets
\* the pages of the other entries go on: nobody waits for them any more.
EnrichCrashes ==
    /\ stage = "enrich" /\ enriching > 0
    /\ enriching' = enriching - 1
    /\ stage' = "done"
    /\ result' = "crashed"
    /\ Raised("crash")
    /\ \E n \in 0 .. MaxRedirects : Sent(n)
    /\ UNCHANGED <<source, entrance, asked, url, hops, walk, plain>>

Return ==
    /\ stage = "enrich" /\ plain = 0 /\ enriching = 0
    /\ stage' = "done"
    /\ result' = "ok"
    /\ UNCHANGED <<source, entrance, asked, url, hops, walk, plain, enriching, requests, raised>>
-----------------------------------------------------------------------------
Answered ==
    \/ Redirect
    \/ Break
    \/ EntryRules
    \/ MovedRules
    \/ Disallowed
    \/ SiteRead
    \/ SitemapRead
    \/ FileRead
    \/ EntriesRead
    \/ PageRead

Next ==
    \/ Start
    \/ Refuse
    \/ GiveUp
    \/ Unparsable
    \/ Answered
    \/ NextFile
    \/ NextPage
    \/ Gathered
    \/ EnrichBegins
    \/ EnrichEnds
    \/ EnrichCrashes
    \/ Return

Spec == Init /\ [][Next]_vars

\* The coroutine runs on, and every request is answered or times out.
FairSpec == Spec /\ WF_vars(Next)
-----------------------------------------------------------------------------
(***************************************************************************)
(* Properties                                                              *)
(***************************************************************************)

\* The collection keeps its types; no more pages are looked at and no more entries
\* made than its limits allow.
TypeOK ==
    /\ source \in Source
    /\ entrance \in Entrances
    /\ stage \in Stages
    /\ asked \in Urls \cup {NoUrl}
    /\ url \in Urls \cup {NoUrl}
    /\ hops \in 0 .. MaxRedirects
    /\ policy \in Policies \cup {NoPolicy}
    /\ base \in Urls \cup {NoUrl}
    /\ files \in 0 .. MaxSitemapFiles
    /\ due \in 0 .. LinksPerEntry * Limit
    /\ found \in 0 .. Limit
    /\ from \subseteq Entrances
    /\ plain \in 0 .. Limit
    /\ enriching \in 0 .. Slots
    /\ result \in {"none", "ok", "error", "forbidden", "crashed"}
    /\ requests \in Nat
    /\ raised \subseteq Reports

\* Every request of an adapter is for a URL that was accepted, after any redirects;
\* and a website is asked only if it is listed, and for a page only when the rules of
\* that page's own site allow it, also on the site its entry has moved to
\* (docs/OPEN_SOURCE_BOUNDARIES.md:15).  Where a page redirects to is not checked
\* against the rules, nor what the enrichment fetches.
PoliteRequests ==
    [][ requests' # requests /\ stage \in Fetching =>
            /\ url \in Public
            /\ source.method = "website" => source.listed
            /\ source.method = "website" /\ stage \in {"root", "page"} /\ hops = 0 =>
                   /\ policy # NoPolicy
                   /\ policy.origin = Origin[asked]
                   /\ asked \in policy.allowed ]_vars

\* However a site redirects, links and fails, a collection takes a number of requests
\* that its limits determine (MAX_REDIRECTS, MAX_SITEMAP_FILES, max_items_per_source).
RequestsAreFew == requests <= MostRequests

\* The exceptions that were raised, but for those of a page that may be skipped.
Grave == {x \in raised : x.at = "page" => x.kind = "crash"}

\* What a collection ends with is what its entrances raised (_fetch_source_entries).  It
\* is forbidden exactly if it met a refused URL that may not be skipped, which the
\* fallback neither hides nor is tried for; it crashes exactly if something was raised
\* that no handler takes; it fails only when the primary entrance failed, and the
\* fallback, if there is one, as well; and what it returns is of an entrance that raised
\* nothing, all of it, and not empty unless the source is a feed.
VerdictIsRight ==
    /\ result = "forbidden" <=> \E x \in Grave : x.kind = "unsafe"
    /\ result = "crashed" <=> \E x \in Grave : x.kind = "crash"
    /\ result = "error" =>
           /\ \E x \in Grave : x.of = "primary"
           /\ FallbackUrl # NoUrl => \E x \in Grave : x.of = "fallback"
    /\ result = "ok" =>
           /\ \A x \in Grave : x.of # entrance
           /\ from \subseteq {entrance}
           /\ found > 0 \/ source.method = "rss"

\* Every collection ends, whatever the web answers.
FetchEnds == <>(result # "none")
=============================================================================
