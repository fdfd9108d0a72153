------------------------------ MODULE MCFetch ------------------------------
(* Model checking instance of Fetch: a site with an entry and an article, a second site
   with a page that is also the fallback, and a host inside. *)
EXTENDS Fetch

CONSTANTS siteRobots, news, article, otherRobots, page, inside

MCOrigin ==
    [u \in Urls |-> IF u \in {siteRobots, news, article} THEN "site"
                    ELSE IF u \in {otherRobots, page} THEN "other" ELSE "inside"]
MCRobots == [o \in Origins |-> CASE o = "site" -> siteRobots
                                 [] o = "other" -> otherRobots
                                 [] OTHER -> inside]
=============================================================================
