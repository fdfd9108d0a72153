----------------------------- MODULE FetchProofs -----------------------------
(***************************************************************************)
(* Proofs about Fetch, for any web, any redirects and any limits.          *)
(***************************************************************************)
EXTENDS Fetch, TLAPS

(***************************************************************************)
(* The invariant                                                           *)
(***************************************************************************)
Website == source.method = "website"

\* What each stage of a walk has and has not yet found.
WalkInv ==
    /\ entrance = "fallback" => FallbackUrl # NoUrl
    /\ stage \in Fetching => asked # NoUrl /\ url # NoUrl
    /\ Website /\ stage \notin {"start", "done"} => source.listed
    /\ stage \in {"robots", "moved"} => Website
    /\ stage \in {"start", "robots", "root", "moved"} => files = 0 /\ due = 0 /\ found = 0
    /\ stage = "child" => files > 0
    /\ stage = "page" => files = 0 /\ due > 0 /\ found < Limit
    /\ files > 0 => source.method = "sitemap" /\ due <= Limit
    /\ stage \notin {"enrich", "done"} => plain = 0 /\ enriching = 0

\* The rules in force are those of the site that is walked.
RulesInv ==
    /\ stage = "robots" => asked = Robots[Origin[Entry]]
    /\ stage = "root" => asked = Entry
    /\ Website /\ stage = "root" => /\ policy # NoPolicy
                                    /\ policy.origin = Origin[Entry]
                                    /\ Entry \in policy.allowed
    /\ stage = "moved" => base # NoUrl /\ asked = Robots[Origin[base]]
    /\ base # NoUrl => Website /\ stage \in {"moved", "gather", "page", "enrich", "done"}
    /\ Website /\ stage \in {"gather", "page"} => base # NoUrl
    /\ base # NoUrl /\ stage # "moved" => policy # NoPolicy /\ policy.origin = Origin[base]
    /\ Website /\ stage = "page" => Origin[asked] = Origin[base] /\ asked \in policy.allowed

\* What was raised that is not skipped, by its kind and by its entrance.
GraveKind(k) == \E x \in Grave : x.kind = k
GraveOf(e) == \E x \in Grave : x.of = e

\* What a collection ended with is settled when it ends, and is what was raised.
VerdictInv ==
    /\ result = "none" <=> stage # "done"
    /\ result = "forbidden" <=> GraveKind("unsafe")
    /\ result = "crashed" <=> GraveKind("crash")
    /\ result = "error" => /\ entrance = "fallback" \/ FallbackUrl = NoUrl
                           /\ GraveOf(entrance)
    /\ result \in {"none", "ok"} => ~GraveOf(entrance)
    /\ entrance = "fallback" => GraveOf("primary")
    /\ entrance = "primary" => ~GraveOf("fallback")
    /\ from \subseteq {entrance}
    /\ stage = "enrich" \/ result = "ok" => found > 0 \/ source.method = "rss"

\* Fetches of an entrance that has not begun.
Walk == CASE Website -> 3 + LinksPerEntry * Limit
          [] source.method = "sitemap" -> 1 + MaxSitemapFiles + Limit
          [] OTHER -> 1

\* Fetches that may still begin, of this entrance ...
Ahead ==
    CASE stage = "start" -> Walk
      [] stage = "robots" -> 2 + LinksPerEntry * Limit
      [] stage = "root" -> Walk - (IF Website THEN 2 ELSE 1)
      [] stage = "moved" -> LinksPerEntry * Limit
      [] stage = "gather" -> IF files > 0 THEN files + Limit ELSE due
      [] stage = "child" -> files - 1 + Limit
      [] stage = "page" -> due - 1
      [] OTHER -> 0

\* ... and after it, with the enrichment.
Left ==
    CASE stage \in {"enrich", "done"} -> plain + enriching
      [] OTHER -> Ahead + Limit + (IF entrance = "primary" THEN Walk ELSE 0)

\* Requests the fetch under way may still send.
Rest == IF stage \in Fetching THEN MaxRedirects - hops ELSE 0

\* The requests sent and those that may follow are no more than the limits allow.
BudgetInv == requests + Rest + MaxRedirects * Left <= MostRequests

FInv == TypeOK /\ WalkInv /\ RulesInv /\ VerdictInv /\ BudgetInv
-----------------------------------------------------------------------------
(***************************************************************************)
(* Limits                                                                  *)
(***************************************************************************)
\* The product of two limits is a natural number.
LEMMA Product == ASSUME NEW a \in Nat, NEW b \in Nat PROVE a * b \in Nat
OBVIOUS

\* The links that are looked at are no fewer than the entries wanted.
LEMMA LinksAreEnough == LinksPerEntry * Limit \in Nat /\ Limit <= LinksPerEntry * Limit
<1>1. LinksPerEntry \in Nat /\ Limit \in Nat /\ 1 <= LinksPerEntry
  BY FetchBounds
<1>2. PICK k \in Nat : LinksPerEntry = 1 + k
  <2>1. LinksPerEntry - 1 \in Nat /\ LinksPerEntry = 1 + (LinksPerEntry - 1)
    BY <1>1
  <2> QED BY <2>1
<1>3. (1 + k) * Limit = Limit + k * Limit
  BY <1>1, <1>2
<1>4. k * Limit \in Nat
  BY <1>1, <1>2, Product
<1> QED BY <1>1, <1>2, <1>3, <1>4

\* An entrance takes a natural number of fetches.
LEMMA WalkIsNat == ASSUME TypeOK PROVE Walk \in Nat
BY LinksAreEnough, FetchBounds DEF Walk

\* The limit of the requests: two entrances, and every entry enriched.
LEMMA MostIs ==
    ASSUME TypeOK
    PROVE  /\ MostRequests = MaxRedirects * (2 * Walk + Limit)
           /\ MostRequests \in Nat
<1>1. Walk = CASE source.method = "website" -> 3 + LinksPerEntry * Limit
               [] source.method = "sitemap" -> 1 + MaxSitemapFiles + Limit
               [] OTHER -> 1
  BY DEF Walk, Website
<1>2. MostRequests = MaxRedirects * (2 * Walk + Limit)
  BY <1>1 DEF MostRequests
<1>3. 2 * Walk + Limit \in Nat /\ MaxRedirects \in Nat
  BY WalkIsNat, FetchBounds
<1> QED BY <1>2, <1>3, Product

\* A request is counted.
LEMMA Counted ==
    ASSUME TypeOK, NEW n \in Nat, Sent(n)
    PROVE  /\ requests' \in Nat
           /\ requests + n <= MostRequests => requests' = requests + n
BY MostIs DEF Sent, TypeOK
-----------------------------------------------------------------------------
(***************************************************************************)
(* Steps                                                                   *)
(***************************************************************************)
\* The requests are counted.
LEMMA CountStep ==
    ASSUME TypeOK, [Next]_vars
    PROVE  requests' \in Nat
<1> USE DEF TypeOK
<1>1. CASE Start
  BY <1>1 DEF Start
<1>2. CASE Refuse
  BY <1>2 DEF Refuse
<1>3. CASE GiveUp
  BY <1>3 DEF GiveUp
<1>4. CASE Redirect
  BY <1>4, Counted DEF Redirect, Request, RobotsGone, RobotsRead
<1>5. CASE Break
  BY <1>5, Counted DEF Break, Request, RobotsGone, RobotsRead
<1>6. CASE EntryRules
  BY <1>6, Counted DEF EntryRules, Request, RobotsGone, RobotsRead
<1>7. CASE MovedRules
  BY <1>7, Counted DEF MovedRules, Request, RobotsGone, RobotsRead
<1>8. CASE Disallowed
  BY <1>8, Counted DEF Disallowed, Request, RobotsGone, RobotsRead
<1>9. CASE SiteRead
  BY <1>9, Counted DEF SiteRead, Request, RobotsGone, RobotsRead
<1>10. CASE SitemapRead
  BY <1>10, Counted DEF SitemapRead, Request, RobotsGone, RobotsRead
<1>11. CASE FileRead
  BY <1>11, Counted DEF FileRead, Request, RobotsGone, RobotsRead
<1>12. CASE EntriesRead
  BY <1>12, Counted DEF EntriesRead, Request, RobotsGone, RobotsRead
<1>13. CASE PageRead
  BY <1>13, Counted DEF PageRead, Request, RobotsGone, RobotsRead
<1>14. CASE NextFile
  BY <1>14 DEF NextFile
<1>15. CASE NextPage
  BY <1>15 DEF NextPage
<1>16. CASE Gathered
  BY <1>16 DEF Gathered
<1>17. CASE EnrichBegins
  BY <1>17 DEF EnrichBegins
<1>18. CASE EnrichEnds
  BY <1>18, Counted, FetchBounds DEF EnrichEnds
<1>19. CASE Return
  BY <1>19 DEF Return
<1>20. CASE UNCHANGED vars
  BY <1>20 DEF vars
<1>21. CASE Unparsable
  BY <1>21 DEF Unparsable
<1>22. CASE EnrichCrashes
  BY <1>22, Counted, FetchBounds DEF EnrichCrashes
<1> QED BY <1>1, <1>2, <1>3, <1>4, <1>5, <1>6, <1>7, <1>8, <1>9, <1>10, <1>11, <1>12, <1>13,
    <1>14, <1>15, <1>16, <1>17, <1>18, <1>19, <1>20, <1>21, <1>22 DEF Next, Answered

\* An exception is remembered.
LEMMA Remembered ==
    ASSUME TypeOK, NEW kind \in Exceptions, Raise(kind) \/ Abort(kind) \/ Raised(kind)
    PROVE  raised' \subseteq Reports
<1>1. Raised(kind)
  BY DEF Raise, Abort
<1>2. Where \in {"page", "elsewhere"}
  BY DEF Where
<1> QED BY <1>1, <1>2 DEF Raised, TypeOK, Reports, Entrances

\* All exceptions are remembered.
LEMMA RaisedStep ==
    ASSUME TypeOK, [Next]_vars
    PROVE  raised' \subseteq Reports
<1> USE DEF TypeOK, Ask, GoOn, Exceptions
<1>1. CASE Start
  BY <1>1, Remembered DEF Start
<1>2. CASE Refuse
  BY <1>2, Remembered DEF Refuse
<1>3. CASE GiveUp
  BY <1>3, Remembered DEF GiveUp
<1>4. CASE Redirect
  BY <1>4 DEF Redirect
<1>5. CASE Break
  BY <1>5, Remembered DEF Break
<1>6. CASE EntryRules
  BY <1>6 DEF EntryRules
<1>7. CASE MovedRules
  BY <1>7 DEF MovedRules
<1>8. CASE Disallowed
  BY <1>8, Remembered DEF Disallowed
<1>9. CASE SiteRead
  BY <1>9, Remembered DEF SiteRead
<1>10. CASE SitemapRead
  BY <1>10 DEF SitemapRead
<1>11. CASE FileRead
  BY <1>11 DEF FileRead
<1>12. CASE EntriesRead
  BY <1>12, Remembered DEF EntriesRead
<1>13. CASE PageRead
  BY <1>13 DEF PageRead
<1>14. CASE NextFile
  BY <1>14 DEF NextFile
<1>15. CASE NextPage
  BY <1>15 DEF NextPage
<1>16. CASE Gathered
  BY <1>16, Remembered DEF Gathered
<1>17. CASE EnrichBegins
  BY <1>17 DEF EnrichBegins
<1>18. CASE EnrichEnds
  BY <1>18 DEF EnrichEnds
<1>19. CASE Return
  BY <1>19 DEF Return
<1>20. CASE UNCHANGED vars
  BY <1>20 DEF vars
<1>21. CASE Unparsable
  BY <1>21, Remembered DEF Unparsable
<1>22. CASE EnrichCrashes
  BY <1>22, Remembered DEF EnrichCrashes
<1> QED BY <1>1, <1>2, <1>3, <1>4, <1>5, <1>6, <1>7, <1>8, <1>9, <1>10, <1>11, <1>12, <1>13,
    <1>14, <1>15, <1>16, <1>17, <1>18, <1>19, <1>20, <1>21, <1>22 DEF Next, Answered

\* What an adapter had gathered is dropped, and with that keeps its type.
LEMMA AbortType ==
    ASSUME TypeOK, NEW kind \in Exceptions, Abort(kind), requests' \in Nat,
           raised' \subseteq Reports
    PROVE  TypeOK'
<1>1. entrance' \in Entrances /\ stage' \in Stages
  BY DEF TypeOK, Abort, Entrances, Stages
<1>2. result' \in {"none", "ok", "error", "forbidden", "crashed"}
  BY DEF TypeOK, Abort
<1>3. /\ asked' = NoUrl /\ url' = NoUrl /\ hops' = 0
      /\ policy' = NoPolicy /\ base' = NoUrl
      /\ files' = 0 /\ due' = 0 /\ found' = 0 /\ from' = {}
      /\ UNCHANGED <<source, plain, enriching>>
  BY DEF Abort, Dropped, NotFetching
<1>4. /\ hops' \in 0 .. MaxRedirects /\ files' \in 0 .. MaxSitemapFiles
      /\ due' \in 0 .. LinksPerEntry * Limit /\ found' \in 0 .. Limit
  BY <1>3, FetchBounds, LinksAreEnough
<1> QED BY <1>1, <1>2, <1>3, <1>4 DEF TypeOK

\* So is the page that is skipped.
LEMMA RaiseType ==
    ASSUME TypeOK, WalkInv, NEW kind \in Exceptions, Raise(kind), requests' \in Nat,
           raised' \subseteq Reports
    PROVE  TypeOK'
<1>1. CASE Skipped(kind) /\ due' = due - 1 /\ UNCHANGED <<policy, base, files, found, from>> /\ GoOn
  <2>1. due' \in 0 .. LinksPerEntry * Limit
    BY <1>1, LinksAreEnough DEF TypeOK, WalkInv, Skipped
  <2>2. asked' = NoUrl /\ url' = NoUrl /\ hops' = 0 /\ hops' \in 0 .. MaxRedirects
    BY <1>1, FetchBounds DEF GoOn, NotFetching
  <2>3. stage' \in Stages /\ UNCHANGED <<source, entrance, plain, enriching, result>>
    BY <1>1 DEF GoOn, Stages
  <2> QED BY <1>1, <2>1, <2>2, <2>3 DEF TypeOK
<1>2. CASE Abort(kind)
  BY <1>2, AbortType
<1> QED BY <1>1, <1>2 DEF Raise

\* Every variable keeps its type.
LEMMA TypeStep ==
    ASSUME TypeOK, WalkInv, RulesInv, requests' \in Nat, [Next]_vars,
           raised' \subseteq Reports
    PROVE  TypeOK'
<1> USE FetchNames, FetchBounds, LinksAreEnough
<1> USE DEF TypeOK, WalkInv, Fetching, Stages, Entrances, Source, Policies, Entry, Website, Ask,
    NotFetching, GoOn, Request, Rules, RobotsGone, RobotsRead, walk, Links
<1>1. CASE Start
  <2>1. CASE Abort("error")
    BY <2>1, AbortType DEF Exceptions
  <2>2. CASE source.method = "website" /\ Ask(Robots[Origin[Entry]], "robots") /\ UNCHANGED walk
    BY <1>1, <2>2 DEF Start
  <2>3. CASE source.method # "website" /\ Ask(Entry, "root") /\ UNCHANGED walk
    BY <1>1, <2>3 DEF Start
  <2> QED BY <1>1, <2>1, <2>2, <2>3 DEF Start
<1>2. CASE Refuse
  BY <1>2, RaiseType DEF Refuse, Exceptions
<1>3. CASE GiveUp
  BY <1>3, RaiseType DEF GiveUp, Exceptions
<1>4. CASE Redirect
  BY <1>4 DEF Redirect
<1>5. CASE Break
  BY <1>5, RaiseType DEF Break
<1>6. CASE EntryRules
  BY <1>6 DEF EntryRules
<1>7. CASE MovedRules
  BY <1>7 DEF MovedRules
<1>8. CASE Disallowed
  BY <1>8, AbortType DEF Disallowed, Exceptions
<1>9. CASE SiteRead
  <2>1. CASE Abort("error")
    BY <2>1, AbortType DEF Exceptions
  <2>2. CASE base' = url /\ Ask(Robots[Origin[url]], "moved") /\ UNCHANGED <<policy, files, due, found, from>>
    BY <1>9, <2>2 DEF SiteRead
  <2>3. CASE /\ base' = url /\ due' \in Links /\ GoOn
             /\ UNCHANGED <<policy, files, found, from, raised>>
    BY <1>9, <2>3 DEF SiteRead
  <2> QED BY <1>9, <2>1, <2>2, <2>3 DEF SiteRead
<1>10. CASE SitemapRead
  BY <1>10 DEF SitemapRead
<1>11. CASE FileRead
  BY <1>11 DEF FileRead
<1>12. CASE EntriesRead
  <2>1. CASE Abort("unsafe")
    BY <2>1, AbortType DEF Exceptions
  <2>2. CASE found' \in 0 .. Limit /\ Found /\ GoOn /\ UNCHANGED <<policy, base, files, due, raised>>
    <3>1. from' \subseteq {"primary", "fallback"}
      BY <2>2 DEF Found
    <3> QED BY <2>2, <3>1
  <2>3. found' \in 1 .. Limit => found' \in 0 .. Limit
    OBVIOUS
  <2> QED BY <1>12, <2>1, <2>2, <2>3 DEF EntriesRead
<1>13. CASE PageRead
  BY <1>13 DEF PageRead, Found
<1>14. CASE NextFile
  BY <1>14 DEF NextFile
<1>15. CASE NextPage
  <2>1. PICK u \in Urls :
          \/ Ask(u, "page") /\ UNCHANGED walk
          \/ due' = due - 1 /\ GoOn /\ UNCHANGED <<policy, base, files, found, from, raised>>
    BY <1>15 DEF NextPage
  <2>2. stage = "gather" /\ due > 0
    BY <1>15 DEF NextPage
  <2>3. CASE Ask(u, "page") /\ UNCHANGED walk
    BY <2>3
  <2>4. CASE due' = due - 1 /\ GoOn /\ UNCHANGED <<policy, base, files, found, from, raised>>
    BY <2>2, <2>4
  <2> QED BY <2>1, <2>3, <2>4
<1>16. CASE Gathered
  <2>1. CASE Abort("error")
    BY <2>1, AbortType DEF Exceptions
  <2>2. CASE /\ stage' = "enrich" /\ plain' \in IF source.enrich THEN 0 .. found ELSE {0}
             /\ UNCHANGED <<source, entrance, asked, url, hops, walk, enriching, result, raised>>
    <3>1. plain' \in 0 .. Limit
      BY <2>2
    <3> QED BY <2>2, <3>1
  <2> QED BY <1>16, <2>1, <2>2 DEF Gathered
<1>17. CASE EnrichBegins
  BY <1>17 DEF EnrichBegins
<1>18. CASE EnrichEnds
  <2>1. /\ enriching' = enriching - 1 /\ enriching > 0
        /\ UNCHANGED <<source, entrance, stage, asked, url, hops, walk, plain, result, raised>>
    BY <1>18 DEF EnrichEnds
  <2> QED BY <2>1
<1>19. CASE Return
  BY <1>19 DEF Return
<1>20. CASE UNCHANGED vars
  BY <1>20 DEF vars
<1>21. CASE Unparsable
  BY <1>21, RaiseType DEF Unparsable, Exceptions
<1>22. CASE EnrichCrashes
  <2>1. /\ enriching' = enriching - 1 /\ enriching > 0
        /\ stage' = "done" /\ result' = "crashed"
        /\ UNCHANGED <<source, entrance, asked, url, hops, walk, plain>>
    BY <1>22 DEF EnrichCrashes
  <2> QED BY <2>1
<1> QED BY <1>1, <1>2, <1>3, <1>4, <1>5, <1>6, <1>7, <1>8, <1>9, <1>10, <1>11, <1>12, <1>13,
    <1>14, <1>15, <1>16, <1>17, <1>18, <1>19, <1>20, <1>21, <1>22 DEF Next, Answered

\* A walk finds what its stages say.
LEMMA WalkStep ==
    ASSUME TypeOK, WalkInv, [Next]_vars
    PROVE  WalkInv'
<1> USE FetchNames, FetchBounds
<1> USE DEF TypeOK, Entrances, WalkInv, Fetching, Stages, Website, Source, Entry, Ask, NotFetching, Abort, Dropped,
    GoOn, Raise, Skipped, Request, Rules, RobotsGone, RobotsRead, walk, Links
<1>1. CASE Start
  <2>1. CASE Abort("error")
    BY <1>1, <2>1 DEF Start
  <2>2. CASE /\ source.method = "website" /\ source.listed
             /\ Ask(Robots[Origin[Entry]], "robots") /\ UNCHANGED walk
    BY <1>1, <2>2 DEF Start
  <2>3. CASE source.method # "website" /\ Ask(Entry, "root") /\ UNCHANGED walk
    BY <1>1, <2>3 DEF Start
  <2> QED BY <1>1, <2>1, <2>2, <2>3 DEF Start
<1>2. CASE Refuse
  BY <1>2 DEF Refuse
<1>3. CASE GiveUp
  BY <1>3 DEF GiveUp
<1>4. CASE Redirect
  BY <1>4 DEF Redirect
<1>5. CASE Break
  BY <1>5 DEF Break
<1>6. CASE EntryRules
  BY <1>6 DEF EntryRules
<1>7. CASE MovedRules
  BY <1>7 DEF MovedRules
<1>8. CASE Disallowed
  BY <1>8 DEF Disallowed
<1>9. CASE SiteRead
  BY <1>9 DEF SiteRead
<1>10. CASE SitemapRead
  BY <1>10 DEF SitemapRead
<1>11. CASE FileRead
  BY <1>11 DEF FileRead
<1>12. CASE EntriesRead
  BY <1>12 DEF EntriesRead
<1>13. CASE PageRead
  BY <1>13 DEF PageRead
<1>14. CASE NextFile
  BY <1>14 DEF NextFile
<1>15. CASE NextPage
  <2>1. PICK u \in Urls :
          \/ source.method = "sitemap" /\ Ask(u, "page") /\ UNCHANGED walk
          \/ /\ source.method = "website" /\ Origin[u] = Origin[base] /\ u \in policy.allowed
             /\ Ask(u, "page") /\ UNCHANGED walk
          \/ due' = due - 1 /\ GoOn /\ UNCHANGED <<policy, base, files, found>>
    BY <1>15 DEF NextPage
  <2>2. stage = "gather" /\ files = 0 /\ due > 0 /\ found < Limit
    BY <1>15, FetchBounds DEF NextPage, Enough
  <2>3. CASE source.method = "sitemap" /\ Ask(u, "page") /\ UNCHANGED walk
    BY <2>2, <2>3
  <2>4. CASE /\ source.method = "website" /\ Origin[u] = Origin[base] /\ u \in policy.allowed
             /\ Ask(u, "page") /\ UNCHANGED walk
    BY <2>2, <2>4
  <2>5. CASE due' = due - 1 /\ GoOn /\ UNCHANGED <<policy, base, files, found>>
    BY <2>2, <2>5
  <2> QED BY <2>1, <2>3, <2>4, <2>5
<1>16. CASE Gathered
  BY <1>16 DEF Gathered
<1>17. CASE EnrichBegins
  BY <1>17 DEF EnrichBegins
<1>18. CASE EnrichEnds
  BY <1>18 DEF EnrichEnds
<1>19. CASE Return
  BY <1>19 DEF Return
<1>20. CASE UNCHANGED vars
  BY <1>20 DEF vars
<1>21. CASE Unparsable
  BY <1>21 DEF Unparsable
<1>22. CASE EnrichCrashes
  BY <1>22 DEF EnrichCrashes
<1> QED BY <1>1, <1>2, <1>3, <1>4, <1>5, <1>6, <1>7, <1>8, <1>9, <1>10, <1>11, <1>12, <1>13,
    <1>14, <1>15, <1>16, <1>17, <1>18, <1>19, <1>20, <1>21, <1>22 DEF Next, Answered

\* The rules stay those of the site.
LEMMA RulesStep ==
    ASSUME TypeOK, WalkInv, RulesInv, [Next]_vars
    PROVE  RulesInv'
<1> USE FetchNames
<1> USE DEF TypeOK, Entrances, WalkInv, RulesInv, Fetching, Website, Source, Policies, Entry, Ask,
    NotFetching, Abort, Dropped, GoOn, Raise, Skipped, Request, Rules, RobotsGone, RobotsRead, walk, Links
<1>1. CASE Start
  BY <1>1 DEF Start
<1>2. CASE Refuse
  BY <1>2 DEF Refuse
<1>3. CASE GiveUp
  BY <1>3 DEF GiveUp
<1>4. CASE Redirect
  BY <1>4 DEF Redirect
<1>5. CASE Break
  BY <1>5 DEF Break
<1>6. CASE EntryRules
  BY <1>6 DEF EntryRules
<1>7. CASE MovedRules
  BY <1>7 DEF MovedRules
<1>8. CASE Disallowed
  BY <1>8 DEF Disallowed
<1>9. CASE SiteRead
  BY <1>9 DEF SiteRead
<1>10. CASE SitemapRead
  BY <1>10 DEF SitemapRead
<1>11. CASE FileRead
  BY <1>11 DEF FileRead
<1>12. CASE EntriesRead
  BY <1>12 DEF EntriesRead
<1>13. CASE PageRead
  BY <1>13 DEF PageRead
<1>14. CASE NextFile
  BY <1>14 DEF NextFile
<1>15. CASE NextPage
  <2>1. PICK u \in Urls :
          \/ source.method = "sitemap" /\ Ask(u, "page") /\ UNCHANGED walk
          \/ /\ source.method = "website" /\ Origin[u] = Origin[base] /\ u \in policy.allowed
             /\ Ask(u, "page") /\ UNCHANGED walk
          \/ due' = due - 1 /\ GoOn /\ UNCHANGED <<policy, base, files, found>>
    BY <1>15 DEF NextPage
  <2>2. stage = "gather" /\ files = 0 /\ due > 0 /\ found < Limit
    BY <1>15, FetchBounds DEF NextPage, Enough
  <2>3. CASE source.method = "sitemap" /\ Ask(u, "page") /\ UNCHANGED walk
    BY <2>2, <2>3
  <2>4. CASE /\ source.method = "website" /\ Origin[u] = Origin[base] /\ u \in policy.allowed
             /\ Ask(u, "page") /\ UNCHANGED walk
    BY <2>2, <2>4
  <2>5. CASE due' = due - 1 /\ GoOn /\ UNCHANGED <<policy, base, files, found>>
    BY <2>2, <2>5
  <2> QED BY <2>1, <2>3, <2>4, <2>5
<1>16. CASE Gathered
  BY <1>16 DEF Gathered
<1>17. CASE EnrichBegins
  BY <1>17 DEF EnrichBegins
<1>18. CASE EnrichEnds
  BY <1>18 DEF EnrichEnds
<1>19. CASE Return
  BY <1>19 DEF Return
<1>20. CASE UNCHANGED vars
  BY <1>20 DEF vars
<1>21. CASE Unparsable
  BY <1>21 DEF Unparsable
<1>22. CASE EnrichCrashes
  BY <1>22 DEF EnrichCrashes
<1> QED BY <1>1, <1>2, <1>3, <1>4, <1>5, <1>6, <1>7, <1>8, <1>9, <1>10, <1>11, <1>12, <1>13,
    <1>14, <1>15, <1>16, <1>17, <1>18, <1>19, <1>20, <1>21, <1>22 DEF Next, Answered

\* What was raised stays what it was.
LEMMA GraveSame ==
    ASSUME raised' = raised
    PROVE  /\ \A k : GraveKind(k)' <=> GraveKind(k)
           /\ \A e : GraveOf(e)' <=> GraveOf(e)
BY DEF Grave, GraveKind, GraveOf

\* What of the entrance under way is raised and not skipped is added to it.
GraveMore(kind) ==
    /\ \A k : GraveKind(k)' <=> GraveKind(k) \/ k = kind
    /\ \A e : GraveOf(e)' <=> GraveOf(e) \/ e = entrance

\* An exception that is not skipped is grave.
LEMMA GraveGrows ==
    ASSUME TypeOK, NEW kind \in Exceptions, Raised(kind), ~Skipped(kind)
    PROVE  GraveMore(kind)
<1> DEFINE x == [of |-> entrance, at |-> Where, kind |-> kind]
<1>1. x.of = entrance /\ x.kind = kind /\ (x.at = "page" => kind = "crash")
  BY DEF Where, Skipped
<1>2. raised' = raised \cup {x}
  BY DEF Raised
<1> HIDE DEF x
<1>3. Grave' = Grave \cup {x}
  BY <1>1, <1>2 DEF Grave
<1> QED BY <1>1, <1>3 DEF GraveMore, GraveKind, GraveOf

\* One that is skipped is not.
LEMMA GraveStays ==
    ASSUME TypeOK, NEW kind \in Exceptions, Raised(kind), Skipped(kind)
    PROVE  /\ \A k : GraveKind(k)' <=> GraveKind(k)
           /\ \A e : GraveOf(e)' <=> GraveOf(e)
<1> DEFINE x == [of |-> entrance, at |-> Where, kind |-> kind]
<1>1. x.at = "page" /\ x.kind # "crash"
  BY DEF Where, Skipped
<1>2. raised' = raised \cup {x}
  BY DEF Raised
<1> HIDE DEF x
<1>3. Grave' = Grave
  BY <1>1, <1>2 DEF Grave
<1> QED BY <1>3 DEF GraveKind, GraveOf

\* A step on which the verdict does not depend.
Calm ==
    /\ UNCHANGED <<source, entrance, result, raised>>
    /\ stage # "done" /\ stage' \notin {"enrich", "done"}
    /\ from' \subseteq from \cup {entrance}

\* Such a step leaves it open.
LEMMA CalmVerdict ==
    ASSUME TypeOK, VerdictInv, Calm
    PROVE  VerdictInv'
BY GraveSame DEF Calm, VerdictInv, TypeOK

\* An exception that leaves the adapter settles the verdict, or starts the fallback.
LEMMA AbortVerdict ==
    ASSUME TypeOK, VerdictInv, NEW kind \in Exceptions, Abort(kind), ~Skipped(kind),
           stage # "done"
    PROVE  VerdictInv'
<1>1. GraveMore(kind)
  BY GraveGrows DEF Abort
<1>2. from' = {} /\ source' = source /\ result = "none"
  BY DEF Abort, Dropped, VerdictInv
<1>3. entrance \in {"primary", "fallback"} /\ kind \in {"unsafe", "error", "crash"}
  BY DEF TypeOK, Entrances, Exceptions
<1>4. CASE kind = "error" /\ entrance' = "fallback" /\ stage' = "start" /\ result' = "none"
  BY <1>1, <1>2, <1>3, <1>4 DEF GraveMore, VerdictInv, Abort
<1>5. CASE /\ kind = "error" /\ (entrance = "fallback" \/ FallbackUrl = NoUrl)
           /\ stage' = "done" /\ result' = "error" /\ entrance' = entrance
  BY <1>1, <1>2, <1>3, <1>5 DEF GraveMore, VerdictInv
<1>6. CASE kind = "unsafe" /\ stage' = "done" /\ result' = "forbidden" /\ entrance' = entrance
  BY <1>1, <1>2, <1>3, <1>6 DEF GraveMore, VerdictInv
<1>7. CASE kind = "crash" /\ stage' = "done" /\ result' = "crashed" /\ entrance' = entrance
  BY <1>1, <1>2, <1>3, <1>7 DEF GraveMore, VerdictInv
<1> QED BY <1>2, <1>4, <1>5, <1>6, <1>7 DEF Abort

\* So does what is raised by a fetch, unless its page is skipped.
LEMMA RaiseVerdict ==
    ASSUME TypeOK, VerdictInv, NEW kind \in Exceptions, Raise(kind), stage \in Fetching
    PROVE  VerdictInv'
<1>1. stage # "done"
  BY DEF Fetching
<1>2. CASE Skipped(kind) /\ Raised(kind) /\ from' = from /\ GoOn
  <2>1. /\ \A k : GraveKind(k)' <=> GraveKind(k)
        /\ \A e : GraveOf(e)' <=> GraveOf(e)
    BY <1>2, GraveStays
  <2>2. stage' = "gather" /\ UNCHANGED <<source, entrance, result>>
    BY <1>2 DEF GoOn
  <2> QED BY <1>1, <1>2, <2>1, <2>2 DEF VerdictInv
<1>3. CASE ~Skipped(kind) /\ Abort(kind)
  BY <1>1, <1>3, AbortVerdict
<1> QED BY <1>2, <1>3 DEF Raise

\* A verdict is settled at the end.
LEMMA VerdictStep ==
    ASSUME TypeOK, WalkInv, VerdictInv, [Next]_vars
    PROVE  VerdictInv'
<1> USE DEF VerdictInv, Fetching, Ask, GoOn, Request, Rules, RobotsGone, RobotsRead, walk
<1>1. CASE Start
  <2>1. CASE Abort("error")
    <3>1. ~Skipped("error") /\ stage # "done"
      BY <1>1 DEF Start, Skipped
    <3> QED BY <2>1, <3>1, AbortVerdict DEF Exceptions
  <2>2. CASE ~Abort("error")
    <3>1. Calm
      BY <1>1, <2>2 DEF Start, Calm
    <3> QED BY <3>1, CalmVerdict
  <2> QED BY <2>1, <2>2
<1>2. CASE Refuse
  BY <1>2, RaiseVerdict DEF Refuse, Exceptions
<1>3. CASE GiveUp
  BY <1>3, RaiseVerdict DEF GiveUp, Exceptions
<1>4. CASE Redirect
  <2>1. Calm
    BY <1>4 DEF Redirect, Calm
  <2> QED BY <2>1, CalmVerdict
<1>5. CASE Break
  BY <1>5, RaiseVerdict DEF Break
<1>6. CASE EntryRules
  <2>1. Calm
    BY <1>6 DEF EntryRules, Calm
  <2> QED BY <2>1, CalmVerdict
<1>7. CASE MovedRules
  <2>1. Calm
    BY <1>7 DEF MovedRules, Calm
  <2> QED BY <2>1, CalmVerdict
<1>8. CASE Disallowed
  <2>1. Abort("error") /\ ~Skipped("error") /\ stage # "done"
    BY <1>8 DEF Disallowed, Skipped
  <2> QED BY <2>1, AbortVerdict DEF Exceptions
<1>9. CASE SiteRead
  <2>1. CASE Abort("error")
    <3>1. ~Skipped("error") /\ stage # "done"
      BY <1>9 DEF SiteRead, Skipped
    <3> QED BY <2>1, <3>1, AbortVerdict DEF Exceptions
  <2>2. CASE ~Abort("error")
    <3>1. Calm
      BY <1>9, <2>2 DEF SiteRead, Calm
    <3> QED BY <3>1, CalmVerdict
  <2> QED BY <2>1, <2>2
<1>10. CASE SitemapRead
  <2>1. Calm
    BY <1>10 DEF SitemapRead, Calm
  <2> QED BY <2>1, CalmVerdict
<1>11. CASE FileRead
  <2>1. Calm
    BY <1>11 DEF FileRead, Calm
  <2> QED BY <2>1, CalmVerdict
<1>12. CASE EntriesRead
  <2>1. CASE Abort("unsafe")
    <3>1. ~Skipped("unsafe") /\ stage # "done"
      BY <1>12 DEF EntriesRead, Skipped
    <3> QED BY <2>1, <3>1, AbortVerdict DEF Exceptions
  <2>2. CASE ~Abort("unsafe")
    <3>1. Calm
      BY <1>12, <2>2 DEF EntriesRead, Calm, Found
    <3> QED BY <3>1, CalmVerdict
  <2> QED BY <2>1, <2>2
<1>13. CASE PageRead
  <2>1. Calm
    BY <1>13 DEF PageRead, Calm, Found
  <2> QED BY <2>1, CalmVerdict
<1>14. CASE NextFile
  <2>1. Calm
    BY <1>14 DEF NextFile, Calm
  <2> QED BY <2>1, CalmVerdict
<1>15. CASE NextPage
  <2>1. Calm
    BY <1>15 DEF NextPage, Calm
  <2> QED BY <2>1, CalmVerdict
<1>16. CASE Gathered
  <2>1. CASE Abort("error")
    <3>1. ~Skipped("error") /\ stage # "done"
      BY <1>16 DEF Gathered, Skipped
    <3> QED BY <2>1, <3>1, AbortVerdict DEF Exceptions
  <2>2. CASE ~Abort("error")
    <3>1. /\ stage = "gather" /\ stage' = "enrich" /\ found' = found /\ source' = source
          /\ found > 0 \/ source.method = "rss"
          /\ entrance' = entrance /\ from' = from /\ result' = result /\ raised' = raised
      BY <1>16, <2>2 DEF Gathered
    <3> QED BY <3>1, GraveSame
  <2> QED BY <2>1, <2>2
<1>17. CASE EnrichBegins
  BY <1>17, GraveSame DEF EnrichBegins
<1>18. CASE EnrichEnds
  BY <1>18, GraveSame DEF EnrichEnds
<1>19. CASE Return
  BY <1>19, GraveSame DEF Return
<1>20. CASE UNCHANGED vars
  BY <1>20, GraveSame DEF vars
<1>21. CASE Unparsable
  BY <1>21, RaiseVerdict DEF Unparsable, Exceptions
<1>22. CASE EnrichCrashes
  <2>1. /\ stage = "enrich" /\ stage' = "done" /\ result' = "crashed" /\ Raised("crash")
        /\ entrance' = entrance /\ from' = from
    BY <1>22 DEF EnrichCrashes
  <2>2. ~Skipped("crash")
    BY DEF Skipped
  <2>3. GraveMore("crash")
    BY <2>1, <2>2, GraveGrows DEF Exceptions
  <2> QED BY <2>1, <2>3 DEF GraveMore
<1> QED BY <1>1, <1>2, <1>3, <1>4, <1>5, <1>6, <1>7, <1>8, <1>9, <1>10, <1>11, <1>12, <1>13,
    <1>14, <1>15, <1>16, <1>17, <1>18, <1>19, <1>20, <1>21, <1>22 DEF Next, Answered

-----------------------------------------------------------------------------
(***************************************************************************)
(* The budget                                                              *)
(***************************************************************************)
\* Fetches by method.
LEMMA WalkSizes ==
    ASSUME TypeOK
    PROVE  /\ Walk \in Nat
           /\ Website => Walk = 3 + LinksPerEntry * Limit
           /\ source.method = "sitemap" => Walk = 1 + MaxSitemapFiles + Limit /\ ~Website
           /\ ~Website /\ source.method # "sitemap" => Walk = 1
           /\ source' = source => Walk' = Walk /\ (Website' <=> Website)
BY WalkIsNat DEF Walk, Website

\* The requests a product of limits pays for.
LEMMA Spend ==
    ASSUME NEW m \in Nat, NEW a \in Nat, NEW b \in Nat
    PROVE  /\ a <= b => m * a <= m * b
           /\ a + 1 <= b => m * a + m <= m * b
<1>1. ASSUME a <= b
      PROVE  m * a <= m * b
  <2>1. b - a \in Nat
    BY <1>1
  <2>2. m * (b - a) \in Nat
    BY <2>1, Product
  <2>3. m * (b - a) = m * b - m * a /\ m * a \in Nat /\ m * b \in Nat
    BY <2>1, Product
  <2> QED BY <2>2, <2>3
<1>2. ASSUME a + 1 <= b
      PROVE  m * a + m <= m * b
  <2>1. b - a - 1 \in Nat
    BY <1>2
  <2>2. m * (b - a - 1) \in Nat
    BY <2>1, Product
  <2>3. m * (b - a - 1) = m * b - m * a - m /\ m * a \in Nat /\ m * b \in Nat
    BY <2>1, Product
  <2> QED BY <2>2, <2>3
<1> QED BY <1>1, <1>2

\* A sum is at least each of its parts.
LEMMA Within ==
    ASSUME NEW a \in Nat, NEW b \in Nat, NEW c \in Nat, NEW d \in Nat, a + b + c <= d
    PROVE  a <= d
OBVIOUS

\* Requests sent, those of the fetch under way and those before it add up.
LEMMA Ledger ==
    ASSUME NEW n \in Nat, NEW m \in Nat, NEW sent \in Nat, NEW most \in Nat,
           NEW r \in Nat, NEW s \in Nat, NEW b \in Nat, NEW a \in Nat,
           \/ n + s <= r /\ a <= b
           \/ n + s <= r + m /\ a + m <= b,
           sent + r + b <= most
    PROVE  sent + n <= most /\ (sent + n) + s + a <= most
OBVIOUS

\* n requests are sent.
Paid(n) == Sent(n) \/ (n = 0 /\ requests' = requests)

\* What was sent is paid for, and so is nothing.
LEMMA Payment ==
    /\ \A n \in Nat : Sent(n) => Paid(n)
    /\ requests' = requests => Paid(0)
BY DEF Paid

\* A step that sends n requests of the fetch under way, or of one that is left.
Affordable(n) ==
    /\ source' = source
    /\ Paid(n)
    /\ Rest \in Nat /\ Left \in Nat /\ Rest' \in Nat /\ Left' \in Nat
    /\ \/ n + Rest' <= Rest /\ Left' <= Left
       \/ n + Rest' <= Rest + MaxRedirects /\ Left' + 1 <= Left

\* What can be afforded keeps within the limits.
LEMMA Afforded ==
    ASSUME TypeOK, BudgetInv, NEW n \in Nat, Affordable(n)
    PROVE  BudgetInv'
<1> DEFINE before == MaxRedirects * Left
           after == MaxRedirects * Left'
<1>1. MaxRedirects \in Nat /\ requests \in Nat /\ MostRequests \in Nat
  BY MostIs, FetchBounds DEF TypeOK
<1>2. MostRequests' = MostRequests
  BY DEF Affordable, MostRequests
<1>3. Rest \in Nat /\ Left \in Nat /\ Rest' \in Nat /\ Left' \in Nat
  BY DEF Affordable
<1>4. before \in Nat /\ after \in Nat
  BY <1>1, <1>3, Product
<1>5. \/ n + Rest' <= Rest /\ after <= before
      \/ n + Rest' <= Rest + MaxRedirects /\ after + MaxRedirects <= before
  BY <1>1, <1>3, Spend DEF Affordable
<1>6. requests + Rest + before <= MostRequests
  BY DEF BudgetInv
<1>7. BudgetInv' <=> requests' + Rest' + after <= MostRequests
  BY <1>2 DEF BudgetInv
<1>8. Sent(n) \/ (n = 0 /\ requests' = requests)
  BY DEF Affordable, Paid
<1> HIDE DEF before, after
<1>9. requests + n <= MostRequests /\ (requests + n) + Rest' + after <= MostRequests
  BY ZenonT(40), <1>1, <1>3, <1>4, <1>5, <1>6, Ledger
<1>10. requests' = requests + n
  BY <1>1, <1>8, <1>9, Counted
<1> QED BY <1>7, <1>9, <1>10

\* What is left is a number of fetches and requests.
LEMMA AheadIsNat ==
    ASSUME TypeOK, WalkInv
    PROVE  Rest \in Nat /\ Ahead \in Nat /\ Left \in Nat
<1>0. Walk \in Nat /\ (Website => Walk >= 3) /\ 1 <= Walk
  BY WalkSizes, LinksAreEnough, FetchBounds
<1>1. Rest \in Nat
  BY FetchBounds DEF TypeOK, Rest
<1>2. Ahead \in Nat
  BY <1>0, LinksAreEnough, FetchBounds DEF TypeOK, WalkInv, Ahead
<1>3. Left \in Nat
  BY <1>0, <1>2, FetchBounds DEF TypeOK, Left
<1> QED BY <1>1, <1>2, <1>3

\* Fetches of this entrance, the next and the enrichment add up.
LEMMA Sums ==
    ASSUME NEW a \in Nat, NEW b \in Nat, NEW c \in Nat, NEW d \in Nat, NEW e, NEW f,
           e = a + c + d, f = b + c + d
    PROVE  f \in Nat /\ (b <= a => f <= e) /\ (b + 1 <= a => f + 1 <= e)
OBVIOUS

\* A step within an entrance.
Onward(n) ==
    /\ UNCHANGED <<source, entrance>>
    /\ Paid(n)
    /\ stage \notin {"enrich", "done"} /\ stage' \notin {"enrich", "done"}
    /\ Rest' \in Nat /\ Ahead' \in Nat
    /\ \/ n + Rest' <= Rest /\ Ahead' <= Ahead
       \/ n + Rest' <= Rest + MaxRedirects /\ Ahead' + 1 <= Ahead

\* A step within an entrance can be afforded ...
LEMMA OnwardIsAffordable ==
    ASSUME TypeOK, WalkInv, NEW n \in Nat, Onward(n)
    PROVE  Affordable(n)
<1> DEFINE later == IF entrance = "primary" THEN Walk ELSE 0
<1>1. later \in Nat
  BY WalkSizes
<1>2. Left = Ahead + Limit + later
  BY DEF Onward, Left
<1>3. Left' = Ahead' + Limit + later
  <2>1. Walk' = Walk
    BY WalkSizes DEF Onward
  <2> QED BY <2>1 DEF Onward, Left
<1> HIDE DEF later
<1>4. /\ Ahead \in Nat /\ Ahead' \in Nat /\ Limit \in Nat
      /\ Rest \in Nat /\ Left \in Nat /\ Rest' \in Nat
  BY AheadIsNat, FetchBounds DEF Onward
<1>5. /\ Left' \in Nat
      /\ Ahead' <= Ahead => Left' <= Left
      /\ Ahead' + 1 <= Ahead => Left' + 1 <= Left
  BY <1>1, <1>2, <1>3, <1>4, Sums
<1> QED BY <1>4, <1>5 DEF Onward, Affordable

\* ... and so can the next entrance.
LEMMA AbortIsAffordable ==
    ASSUME TypeOK, WalkInv, NEW n \in Nat, n <= Rest, NEW kind, Abort(kind),
           Paid(n),
           stage \notin {"enrich", "done"}
    PROVE  Affordable(n)
<1>1. Left = Ahead + Limit + (IF entrance = "primary" THEN Walk ELSE 0)
  BY DEF Left
<1>2. source' = source /\ Rest' = 0 /\ plain' = plain /\ enriching' = enriching
  BY DEF Abort, Dropped, NotFetching, Rest, Fetching
<1>3. Walk' = Walk /\ Walk \in Nat /\ Limit \in Nat /\ Ahead \in Nat /\ Left \in Nat /\ Rest \in Nat
  BY <1>2, WalkSizes, AheadIsNat, FetchBounds
<1>4. CASE stage' = "done"
  <2>1. Left' = 0
    BY <1>2, <1>4 DEF Left, WalkInv
  <2> QED BY <1>2, <1>3, <2>1 DEF Affordable
<1>5. CASE stage' = "start" /\ entrance' = "fallback" /\ entrance = "primary"
  <2>1. Left' = Walk + Limit
    BY <1>3, <1>5 DEF Left, Ahead
  <2> QED BY <1>1, <1>2, <1>3, <1>5, <2>1 DEF Affordable
<1> QED BY <1>4, <1>5 DEF Abort

\* Every step can be afforded.
LEMMA BudgetStep ==
    ASSUME TypeOK, WalkInv, BudgetInv, [Next]_vars
    PROVE  BudgetInv'
<1>a. /\ Walk \in Nat
      /\ source.method = "website" => Walk = 3 + LinksPerEntry * Limit
      /\ source.method = "sitemap" => Walk = 1 + MaxSitemapFiles + Limit
      /\ source.method \notin {"website", "sitemap"} => Walk = 1
      /\ source' = source => Walk' = Walk /\ (Website' <=> Website)
      /\ Website <=> source.method = "website"
  BY WalkSizes DEF Website
<1>b. Rest \in Nat /\ Ahead \in Nat /\ Left \in Nat
  BY AheadIsNat
<1>c. Request => 1 <= Rest
  BY FetchBounds DEF Request, Rest, TypeOK
<1> USE <1>a, FetchBounds, LinksAreEnough, Payment
<1> USE DEF TypeOK, WalkInv, Fetching, Stages, Onward, Ahead, Rest, Ask, NotFetching, GoOn,
    Request, Rules, RobotsGone, RobotsRead, walk, Links
<1>1. CASE Start
  <2>1. CASE Abort("error")
    BY <1>1, <2>1, <1>b, AbortIsAffordable, Afforded DEF Start
  <2>2. CASE ~Abort("error")
    <3>1. Onward(0)
      BY <1>1, <2>2 DEF Start
    <3> QED BY <3>1, OnwardIsAffordable, Afforded
  <2> QED BY <2>1, <2>2
<1>2. CASE Refuse
  <2>1. Raise("unsafe") /\ stage \in Fetching /\ requests' = requests
    BY <1>2 DEF Refuse
  <2>2. CASE Abort("unsafe")
    BY <2>1, <2>2, <1>b, AbortIsAffordable, Afforded
  <2>3. CASE /\ stage = "page" /\ due' = due - 1 /\ GoOn
           /\ UNCHANGED <<policy, base, files, found>>
    <3>1. Onward(0)
      BY <1>2, <2>3 DEF Refuse
    <3> QED BY <3>1, OnwardIsAffordable, Afforded
  <2> QED BY <2>1, <2>2, <2>3 DEF Raise, Skipped
<1>3. CASE GiveUp
  <2>1. Raise("error") /\ stage \in Fetching /\ requests' = requests
    BY <1>3 DEF GiveUp
  <2>2. CASE Abort("error")
    BY <2>1, <2>2, <1>b, AbortIsAffordable, Afforded
  <2>3. CASE /\ stage = "page" /\ due' = due - 1 /\ GoOn
           /\ UNCHANGED <<policy, base, files, found>>
    <3>1. Onward(0)
      BY <1>3, <2>3 DEF GiveUp
    <3> QED BY <3>1, OnwardIsAffordable, Afforded
  <2> QED BY <2>1, <2>2, <2>3 DEF Raise, Skipped
<1>4. CASE Redirect
  <2>1. Onward(1)
    BY <1>4 DEF Redirect
  <2> QED BY <2>1, OnwardIsAffordable, Afforded
<1>5. CASE Break
  <2>0. PICK kind \in Exceptions : Raise(kind)
    BY <1>5 DEF Break
  <2>1. Raise(kind) /\ stage \in Fetching /\ Sent(1)
    BY <1>5, <2>0 DEF Break
  <2>2. CASE Abort(kind)
    BY <2>1, <2>2, <1>b, <1>c, <1>5, AbortIsAffordable, Afforded DEF Break
  <2>3. CASE /\ stage = "page" /\ due' = due - 1 /\ GoOn
           /\ UNCHANGED <<policy, base, files, found>>
    <3>1. Onward(1)
      BY <1>5, <2>3 DEF Break
    <3> QED BY <3>1, OnwardIsAffordable, Afforded
  <2> QED BY <2>1, <2>2, <2>3 DEF Raise, Skipped
<1>6. CASE EntryRules
  <2>1. Onward(1)
    BY <1>6 DEF EntryRules
  <2> QED BY <2>1, OnwardIsAffordable, Afforded
<1>7. CASE MovedRules
  <2>1. Onward(1)
    BY <1>7 DEF MovedRules
  <2> QED BY <2>1, OnwardIsAffordable, Afforded
<1>8. CASE Disallowed
  <2>1. Request /\ Sent(1) /\ stage \in Fetching
    BY <1>8 DEF Disallowed
  <2>2. CASE Abort("error")
    <3>1. 1 <= Rest
      BY <1>c, <2>1
    <3> QED BY <2>1, <2>2, <3>1, AbortIsAffordable, Afforded
  <2>3. CASE ~Abort("error")
    <3>1. Onward(1)
      BY <1>8, <2>3 DEF Disallowed
    <3> QED BY <3>1, OnwardIsAffordable, Afforded
  <2> QED BY <2>2, <2>3
<1>9. CASE SiteRead
  <2>1. Request /\ Sent(1) /\ stage \in Fetching
    BY <1>9 DEF SiteRead
  <2>2. CASE Abort("error")
    <3>1. 1 <= Rest
      BY <1>c, <2>1
    <3> QED BY <2>1, <2>2, <3>1, AbortIsAffordable, Afforded
  <2>3. CASE ~Abort("error")
    <3>1. Onward(1)
      BY <1>9, <2>3 DEF SiteRead
    <3> QED BY <3>1, OnwardIsAffordable, Afforded
  <2> QED BY <2>2, <2>3
<1>10. CASE SitemapRead
  <2>1. Onward(1)
    BY <1>10 DEF SitemapRead
  <2> QED BY <2>1, OnwardIsAffordable, Afforded
<1>11. CASE FileRead
  <2>1. Onward(1)
    BY <1>11 DEF FileRead
  <2> QED BY <2>1, OnwardIsAffordable, Afforded
<1>12. CASE EntriesRead
  <2>1. Request /\ Sent(1) /\ stage \in Fetching
    BY <1>12 DEF EntriesRead
  <2>2. CASE Abort("unsafe")
    <3>1. 1 <= Rest
      BY <1>c, <2>1
    <3> QED BY <2>1, <2>2, <3>1, AbortIsAffordable, Afforded
  <2>3. CASE ~Abort("unsafe")
    <3>1. Onward(1)
      BY <1>12, <2>3 DEF EntriesRead
    <3> QED BY <3>1, OnwardIsAffordable, Afforded
  <2> QED BY <2>2, <2>3
<1>13. CASE PageRead
  <2>1. Onward(1)
    BY <1>13 DEF PageRead
  <2> QED BY <2>1, OnwardIsAffordable, Afforded
<1>14. CASE NextFile
  <2>1. Onward(0)
    BY <1>14 DEF NextFile
  <2> QED BY <2>1, OnwardIsAffordable, Afforded
<1>15. CASE NextPage
  <2>1. Onward(0)
    BY <1>15 DEF NextPage
  <2> QED BY <2>1, OnwardIsAffordable, Afforded
<1>16. CASE Gathered
  <2>1. CASE Abort("error")
    BY <1>16, <2>1, <1>b, AbortIsAffordable, Afforded DEF Gathered
  <2>2. CASE ~Abort("error")
    <3>1. /\ source' = source /\ requests' = requests
          /\ stage = "gather" /\ stage' = "enrich"
          /\ plain' \in 0 .. Limit /\ enriching' = 0
      BY <1>16, <2>2 DEF Gathered
    <3>2. Left' = plain' /\ Rest' = 0 /\ Left' \in Nat /\ Left' <= Limit
      BY <3>1 DEF Left
    <3>3. Limit <= Left
      BY <1>b, <3>1 DEF Left
    <3> QED BY <1>b, <3>1, <3>2, <3>3, Afforded DEF Affordable
  <2> QED BY <2>1, <2>2
<1>17. CASE EnrichBegins
  <2>1. Affordable(0)
    BY <1>17, <1>b DEF EnrichBegins, Affordable, Left
  <2> QED BY <2>1, Afforded
<1>18. CASE EnrichEnds
  <2>1. PICK n \in 0 .. MaxRedirects : Sent(n)
    BY <1>18 DEF EnrichEnds
  <2>0. stage \in {"enrich", "done"}
    BY <1>18 DEF EnrichEnds
  <2>2. /\ source' = source /\ stage \in {"enrich", "done"} /\ stage' = stage
        /\ plain' = plain /\ enriching' = enriching - 1 /\ enriching > 0
    BY <1>18, <2>0 DEF EnrichEnds
  <2>3. Rest = 0 /\ Rest' = 0 /\ Left = plain + enriching /\ Left' = plain + enriching - 1
    BY <2>2 DEF Left
  <2>4. Affordable(n)
    BY <2>1, <2>2, <2>3 DEF Affordable
  <2> QED BY <2>1, <2>4, Afforded
<1>19. CASE Return
  <2>1. Affordable(0)
    BY <1>19, <1>b DEF Return, Affordable, Left
  <2> QED BY <2>1, Afforded
<1>20. CASE UNCHANGED vars
  BY <1>20 DEF vars, BudgetInv, Rest, Left, Ahead, Walk, Website, MostRequests
<1>21. CASE Unparsable
  <2>1. Raise("crash") /\ stage \in Fetching /\ requests' = requests
    BY <1>21 DEF Unparsable
  <2>2. Abort("crash")
    BY <2>1 DEF Raise, Skipped
  <2> QED BY <2>1, <2>2, <1>b, AbortIsAffordable, Afforded
<1>22. CASE EnrichCrashes
  <2>1. PICK n \in 0 .. MaxRedirects : Sent(n)
    BY <1>22 DEF EnrichCrashes
  <2>2. /\ source' = source /\ stage = "enrich" /\ stage' = "done"
        /\ plain' = plain /\ enriching' = enriching - 1 /\ enriching > 0
    BY <1>22 DEF EnrichCrashes
  <2>3. Rest = 0 /\ Rest' = 0 /\ Left = plain + enriching /\ Left' = plain + enriching - 1
    BY <2>2 DEF Left
  <2>4. Affordable(n)
    BY <2>1, <2>2, <2>3 DEF Affordable
  <2> QED BY <2>1, <2>4, Afforded
<1> QED BY <1>1, <1>2, <1>3, <1>4, <1>5, <1>6, <1>7, <1>8, <1>9, <1>10, <1>11, <1>12, <1>13,
    <1>14, <1>15, <1>16, <1>17, <1>18, <1>19, <1>20, <1>21, <1>22 DEF Next, Answered

-----------------------------------------------------------------------------
(***************************************************************************)
(* Theorems                                                                *)
(***************************************************************************)
\* The invariant holds at first.
LEMMA BaseInit == Init => FInv
<1> SUFFICES ASSUME Init
             PROVE  FInv
  OBVIOUS
<1>1. TypeOK
  <2>1. raised = {} /\ from = {}
    BY DEF Init
  <2>2. /\ source \in Source
        /\ stage \in Stages
        /\ asked \in Urls \cup {NoUrl} /\ url \in Urls \cup {NoUrl} /\ base \in Urls \cup {NoUrl}
        /\ policy \in Policies \cup {NoPolicy}
    BY DEF Init, Stages
  <2>3. /\ hops \in 0 .. MaxRedirects /\ files \in 0 .. MaxSitemapFiles
        /\ due \in 0 .. LinksPerEntry * Limit /\ found \in 0 .. Limit
        /\ plain \in 0 .. Limit /\ enriching \in 0 .. Slots /\ requests \in Nat
    BY FetchBounds, LinksAreEnough DEF Init
  <2> QED BY <2>1, <2>2, <2>3 DEF Init, TypeOK, Entrances
<1>2. WalkInv /\ RulesInv /\ VerdictInv
  BY DEF Init, WalkInv, RulesInv, VerdictInv, GraveKind, GraveOf, Grave, Fetching
<1>3. BudgetInv
  <2>1. Rest = 0 /\ requests = 0
    BY DEF Init, Rest, Fetching
  <2>2. Walk \in Nat /\ Limit \in Nat
    BY <1>1, WalkSizes, FetchBounds
  <2>3. Left = 2 * Walk + Limit
    BY <2>2 DEF Init, Left, Ahead
  <2>4. MostRequests = MaxRedirects * Left /\ MostRequests \in Nat
    BY <1>1, <2>3, MostIs
  <2> QED BY <2>1, <2>4 DEF BudgetInv
<1> QED BY <1>1, <1>2, <1>3 DEF FInv

\* Every step keeps the invariant.
LEMMA Preserved == FInv /\ [Next]_vars => FInv'
<1> SUFFICES ASSUME FInv, [Next]_vars
             PROVE  FInv'
  OBVIOUS
<1> USE DEF FInv
<1>1. requests' \in Nat /\ raised' \subseteq Reports
  BY CountStep, RaisedStep
<1>2. TypeOK'
  BY <1>1, TypeStep
<1> QED BY <1>2, WalkStep, RulesStep, VerdictStep, BudgetStep

\* All parts of the invariant hold in every reachable state.
THEOREM Invariant == Spec => []FInv
BY BaseInit, Preserved, PTL DEF Spec

\* Every variable keeps its type: no walk exceeds its files, its pages or its entries.
THEOREM TypeCorrect == Spec => []TypeOK
<1>1. FInv => TypeOK
  BY DEF FInv
<1> QED BY <1>1, Invariant, PTL

\* However a site redirects, links and fails, a collection takes no more requests than
\* its limits allow, for any limits.
THEOREM RequestsAreBounded == Spec => []RequestsAreFew
<1>1. ASSUME FInv
      PROVE  RequestsAreFew
  <2>1. Rest \in Nat /\ Left \in Nat /\ requests \in Nat /\ MostRequests \in Nat
    BY <1>1, AheadIsNat, MostIs DEF FInv, TypeOK
  <2>2. MaxRedirects * Left \in Nat
    BY <2>1, FetchBounds, Product
  <2>3. requests + Rest + MaxRedirects * Left <= MostRequests
    BY <1>1 DEF FInv, BudgetInv
  <2> QED BY <2>1, <2>2, <2>3, Within DEF RequestsAreFew
<1> QED BY <1>1, Invariant, PTL

\* What a collection ends with is what its entrances raised: it is forbidden for a refused
\* URL, crashes for what no handler takes, fails when all its entrances failed, and
\* otherwise returns entries of the entrance that raised nothing.
THEOREM VerdictIsSound == Spec => []VerdictIsRight
<1>1. ASSUME FInv PROVE VerdictIsRight
  <2>1. entrance \in {"primary", "fallback"}
    BY <1>1 DEF FInv, TypeOK, Entrances
  <2>2. /\ result = "forbidden" <=> GraveKind("unsafe")
        /\ result = "crashed" <=> GraveKind("crash")
        /\ result = "error" => GraveOf("primary") /\ (FallbackUrl # NoUrl => GraveOf("fallback"))
        /\ result = "ok" => /\ ~GraveOf(entrance) /\ from \subseteq {entrance}
                            /\ found > 0 \/ source.method = "rss"
    BY <1>1, <2>1 DEF FInv, VerdictInv
  <2> QED BY <2>2 DEF VerdictIsRight, GraveKind, GraveOf
<1> QED BY <1>1, Invariant, PTL

\* No adapter asks for a URL that was not accepted, for a website that is not listed or
\* for a page the rules of its site do not allow.
THEOREM RequestsArePolite == Spec => PoliteRequests
<1> DEFINE Polite ==
      requests' # requests /\ stage \in Fetching =>
            /\ url \in Public
            /\ source.method = "website" => source.listed
            /\ source.method = "website" /\ stage \in {"root", "page"} /\ hops = 0 =>
                   /\ policy # NoPolicy
                   /\ policy.origin = Origin[asked]
                   /\ asked \in policy.allowed
<1>1. ASSUME FInv, [Next]_vars, requests' # requests, stage \in Fetching
      PROVE  url \in Public
  <2>1. Request \/ EnrichEnds \/ EnrichCrashes
    BY <1>1 DEF Next, Answered, Start, Refuse, GiveUp, Redirect, Break, EntryRules, MovedRules,
       Disallowed, SiteRead, SitemapRead, FileRead, EntriesRead, PageRead, NextFile, NextPage,
       Gathered, EnrichBegins, Return, Unparsable, RobotsGone, RobotsRead, vars
  <2>2. ~EnrichEnds
    BY <1>1 DEF EnrichEnds, FInv, WalkInv, TypeOK, Fetching
  <2>3. ~EnrichCrashes
    BY <1>1 DEF EnrichCrashes, Fetching
  <2> QED BY <2>1, <2>2, <2>3 DEF Request, Accepted
<1>2. ASSUME FInv, stage \in Fetching, source.method = "website"
      PROVE  /\ source.listed
             /\ stage \in {"root", "page"} =>
                   /\ policy # NoPolicy
                   /\ policy.origin = Origin[asked]
                   /\ asked \in policy.allowed
  BY <1>2 DEF FInv, WalkInv, RulesInv, Website, Fetching
<1>3. FInv /\ [Next]_vars => [Polite]_vars
  BY <1>1, <1>2
<1>4. Spec => [][Polite]_vars
  BY <1>3, Invariant, PTL DEF Spec
<1> QED BY <1>4 DEF PoliteRequests
===============================================================================
