------------------------------- MODULE MCChains -------------------------------
(***************************************************************************)
(* Instances of Chains for TLC: a ministry (official, S1), an agency       *)
(* (official, S2) and newspapers; few texts of two stories.                *)
(***************************************************************************)
EXTENDS Chains

CONSTANTS release, notice, report, column,  \* articles
          ministry, agency, paper, journal  \* sources

MCPublisher ==
    [a \in Articles |-> CASE a = release -> ministry
                          [] a = notice -> agency
                          [] a = report -> paper
                          [] a = column -> journal]
\* The agency's notice is older than the ministry's release.
MCPublished == [a \in Articles |-> IF a = notice THEN 1 ELSE 2]
MCTier ==
    [s \in Sources |-> IF s = ministry THEN "S1" ELSE IF s = agency THEN "S2" ELSE "S3"]

\* The release is corrected or withdrawn; what the newspapers print stays.
OneIsRevised == [a \in Articles |-> IF a = release THEN 2 ELSE 1]
AllAreRevised == [a \in Articles |-> 2]

Text(story, title, rest) == [story |-> story, title |-> title, rest |-> rest]

\* A story, and its denial.
MCDenied == {Text(1, "supports", "supports"), Text(2, "conflicts", "supports")}

\* A story and its correction.
MCStories == {Text(1, "supports", "supports"), Text(2, "supports", "supports")}
=============================================================================
