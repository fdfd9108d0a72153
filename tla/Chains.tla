-------------------------------- MODULE Chains --------------------------------
(***************************************************************************)
(* Information chains: how ingest_article of services.py assigns articles  *)
(* to independence groups, keeps their versions and links their reposts,   *)
(* and what _prepare_event_analysis makes of them as the evidence of an    *)
(* event.  One event is followed; articles join and leave it by ingestion, *)
(* merges and splits (module Analysis has their details).                  *)
(*                                                                         *)
(* Abstracted: a text is what decides here: its story (the hash of title   *)
(* and body, content_hash) and the stances the words of its title and of   *)
(* its summary and body express; two texts have different version hashes.  *)
(***************************************************************************)
EXTENDS Verification, Sequences

CONSTANTS
    Articles,   \* articles, by (source_id, canonical_url)
    Sources,    \* their publishers
    Publisher,  \* Publisher[a]: the source of the article
    Published,  \* Published[a]: published_at; no date sorts first
    Official,   \* the official sources
    Tier,       \* Tier[s]: the tier of the source
    Texts,      \* versions an article can have
    Origins,    \* URLs of originals that reposts declare
    NoOrigin,   \* an entry that declares none
    NoText,     \* an article that was never seen
    NoGroup,
    NoDecision, \* the event has not been analysed
    MaxVersions, \* bound: versions of each article
    MaxReports  \* bound: analyses of the event

Words == {"supports", "conflicts", "withdrawn"}

ASSUME ArticlesAssumption ==
    /\ IsFiniteSet(Articles)
    /\ Publisher \in [Articles -> Sources]
    /\ Published \in [Articles -> Nat]
    /\ Official \subseteq Sources
    /\ Tier \in [Sources -> {"S1", "S2", "S3", "S4"}]

\* Model values of one kind each: what is absent is none of what is present.
ASSUME TextsAssumption ==
    /\ \A t \in Texts : t.title \in Words /\ t.rest \in Words
    /\ NoText \notin Texts
    /\ NoOrigin \notin Origins

\* independence_group: the chain of a declared origin, or the publisher's own.
Groups == ({"publisher"} \X Sources) \cup ({"chain"} \X Origins)

ASSUME BoundsAssumption == MaxVersions \in [Articles -> Nat] /\ MaxReports \in Nat

ASSUME GroupsAssumption == NoGroup \notin Groups

VARIABLES
    seen,      \* articles in the order of first_seen_at
    group,     \* group[a]: independence_group, set when the article is first seen
    shown,     \* shown[a]: the text of the last ingestion (title and content_hash)
    versions,  \* versions[a]: ArticleVersion rows, oldest first
    links,     \* SyndicationLink rows: <<repost, prior article>>
    members,   \* articles of the event
    analysed,  \* inputs the event has a report for
    evidence,  \* Evidence rows of the current claim
    decision   \* its Verification row

articles == <<seen, group, shown, versions, links>>
vars == <<seen, group, shown, versions, links, members, analysed, evidence, decision>>

Init ==
    /\ seen = <<>>
    /\ group = [a \in Articles |-> NoGroup]
    /\ shown = [a \in Articles |-> NoText]
    /\ versions = [a \in Articles |-> <<>>]
    /\ links = {}
    /\ members = {}
    /\ analysed = {}
    /\ evidence = {}
    /\ decision = NoDecision
-----------------------------------------------------------------------------
(***************************************************************************)
(* ingest_article                                                          *)
(***************************************************************************)
Known == {a \in Articles : shown[a] # NoText}

\* Articles that show the same story now, whatever they showed before.
Copies(text) == {a \in Known : shown[a].story = text.story}

\* The copy seen first.
FirstCopy(b, text) ==
    \E i \in DOMAIN seen :
        /\ seen[i] = b
        /\ b \in Copies(text)
        /\ \A j \in 1 .. i - 1 : seen[j] \notin Copies(text)

\* _assign_independence_group: the group g of a new article and the article it
\* reposts, if any (prior).  A declared origin comes before an equal text.
Assigned(a, text, origin, g, prior) ==
    \/ /\ origin # NoOrigin
       /\ g = <<"chain", origin>>
       /\ \/ \E b \in Known : group[b] = g /\ prior = {b}
          \/ prior = {} /\ \A b \in Known : group[b] # g
    \/ /\ origin = NoOrigin
       /\ \E b \in Known : FirstCopy(b, text) /\ g = group[b] /\ prior = {b}
    \/ /\ origin = NoOrigin
       /\ Copies(text) = {}
       /\ g = <<"publisher", Publisher[a]>>
       /\ prior = {}

\* An article that was never seen; _find_cluster puts it in the event or elsewhere.
Arrive(a) ==
    /\ a \notin Known
    /\ \E text \in Texts, origin \in Origins \cup {NoOrigin} :
       \E g \in Groups, prior \in SUBSET Known :
        /\ Assigned(a, text, origin, g, prior)
        /\ group' = [group EXCEPT ![a] = g]
        /\ links' = links \cup ({a} \X prior)
        /\ shown' = [shown EXCEPT ![a] = text]
        /\ versions' = [versions EXCEPT ![a] = <<text>>]
    /\ seen' = Append(seen, a)
    /\ members' \in {members, members \cup {a}}
    /\ UNCHANGED <<analysed, evidence, decision>>

VersionsOf(a) == {versions[a][i] : i \in DOMAIN versions[a]}

\* Mutant: a changed text takes the article out of the chain it was put in.
ReviseToPublisher(a) ==
    /\ a \in Known
    /\ \E text \in Texts \ VersionsOf(a) :
        /\ Len(versions[a]) < MaxVersions[a]
        /\ shown' = [shown EXCEPT ![a] = text]
        /\ versions' = [versions EXCEPT ![a] = Append(@, text)]
    /\ group' = [group EXCEPT ![a] = <<"publisher", Publisher[a]>>]
    /\ UNCHANGED <<seen, links, members, analysed, evidence, decision>>

\* Mutant: the changed text replaces the version kept before.
ReviseInPlace(a) ==
    /\ a \in Known
    /\ \E text \in Texts :
        /\ shown' = [shown EXCEPT ![a] = text]
        /\ versions' = [versions EXCEPT ![a] = <<text>>]
    /\ UNCHANGED <<seen, group, links, members, analysed, evidence, decision>>

\* An article that is fetched again: a version is added unless it ever had that
\* text; its group, links and event stay.
Revise(a) ==
    /\ a \in Known
    /\ \E text \in Texts :
        /\ text \in VersionsOf(a) \/ Len(versions[a]) < MaxVersions[a]
        /\ shown' = [shown EXCEPT ![a] = text]
        /\ versions' = [versions EXCEPT ![a] =
                           IF text \in VersionsOf(a) THEN @ ELSE Append(@, text)]
    /\ UNCHANGED <<seen, group, links, members, analysed, evidence, decision>>

\* What merge_events and split_event make of this event's memberships.
Regroup ==
    /\ members' \in SUBSET Known \ {{}}
    /\ UNCHANGED <<articles, analysed, evidence, decision>>
-----------------------------------------------------------------------------
(***************************************************************************)
(* _prepare_event_analysis, up to the Verification row                     *)
(***************************************************************************)
Latest(a) == versions[a][Len(versions[a])]

\* _event_input_hash
Input == {<<a, Latest(a)>> : a \in members}

\* The first row: official sources come first, then the earliest published.
Leads(a) ==
    \A b \in members :
        \/ Publisher[a] \in Official /\ Publisher[b] \notin Official
        \/ /\ Publisher[a] \in Official <=> Publisher[b] \in Official
           /\ Published[a] <= Published[b]

\* The article's title and its latest version's summary and body, read together.
StanceOf(a) ==
    IF "withdrawn" \in {shown[a].title, Latest(a).rest} THEN "withdrawn"
    ELSE IF "conflicts" \in {shown[a].title, Latest(a).rest} THEN "conflicts"
    ELSE "supports"

FactOf(a, representative) ==
    [article |-> a,
     stance |-> StanceOf(a),
     group |-> group[a],
     known |-> TRUE,
     quality |-> IF Tier[Publisher[a]] \in {"S1", "S2"} THEN "high" ELSE "medium",
     primary |-> Tier[Publisher[a]] = "S1" /\ Publisher[a] \in Official,
     direct |-> Publisher[a] \in Official /\ a = representative]

\* An input that has a report is not looked at again.
Analyse ==
    /\ members # {}
    /\ Input \notin analysed
    /\ Cardinality(analysed) < MaxReports
    /\ \E representative \in members :
        /\ Leads(representative)
        /\ evidence' = {FactOf(a, representative) : a \in members}
    /\ decision' = Decision(evidence')
    /\ analysed' = analysed \cup {Input}
    /\ UNCHANGED <<articles, members>>
-----------------------------------------------------------------------------
Next ==
    \/ \E a \in Articles : Arrive(a) \/ Revise(a)
    \/ Regroup
    \/ Analyse

Spec == Init /\ [][Next]_vars
-----------------------------------------------------------------------------
(***************************************************************************)
(* Properties                                                              *)
(***************************************************************************)
\* Every variable keeps its type.
TypeOK ==
    /\ seen \in Seq(Articles)
    /\ group \in [Articles -> Groups \cup {NoGroup}]
    /\ shown \in [Articles -> Texts \cup {NoText}]
    /\ versions \in [Articles -> Seq(Texts)]
    /\ links \subseteq Articles \X Articles
    /\ members \subseteq Known
    /\ analysed \subseteq SUBSET (Articles \X Texts)
    /\ evidence \subseteq FactsOf(Articles, Groups)
    /\ decision \in Decisions \cup {NoDecision}

\* Two articles are connected if a path of syndication links joins them: every set
\* of articles that the links do not leave has both or neither.
Connected(a, b) ==
    \A C \in SUBSET Articles :
        a \in C /\ (\A l \in links : l[1] \in C <=> l[2] \in C) => b \in C

\* A claim is "multi-source corroborated" only while two of the articles that support
\* it are not reposts of each other, not even by a chain of repost links, and not
\* even by links that were added after the analysis.
CorroborationIsIndependent ==
    decision # NoDecision /\ decision.status = "multi_source_corroborated" =>
        \E f, g \in evidence :
            /\ f.stance = "supports"
            /\ g.stance = "supports"
            /\ ~Connected(f.article, g.article)

\* An event that was supported and gets nothing but more support never comes out
\* weaker, and what was disputed or withdrawn stays so, as long as its earlier
\* evidence stands as it was (the same article represents the event).
SupportOnlyStrengthens ==
    [][/\ Supporting(evidence) # {}
       /\ evidence \subseteq evidence'
       /\ evidence' \ evidence \subseteq Supporting(evidence')
       => /\ Strength(decision.status) <= Strength(decision'.status)
          /\ Strength(decision.status) = 0 => decision'.status = decision.status]_vars

\* A contested stance can be traced: whatever the article has shown since, one of
\* the versions kept of it has the words that made its evidence conflict with the
\* claim or withdraw it, in its title or in its body.
StancesAreTraceable ==
    \A f \in evidence :
        f.stance # "supports" =>
            \E i \in DOMAIN versions[f.article] :
                f.stance \in {versions[f.article][i].title, versions[f.article][i].rest}

(***************************************************************************)
(* What the documents say and the code does not do                         *)
(***************************************************************************)
\* README.md:127: "Multiple reposts of one release share an independence group and
\* do not become multi-source corroboration".  A corroborated claim is not supported
\* by copies of one story alone.
CopiesDoNotCorroborate ==
    [][/\ evidence' # evidence
       /\ \E story \in {t.story : t \in Texts} :
             \A f \in Supporting(evidence') : shown[f.article].story = story
       => decision'.status # "multi_source_corroborated"]_vars

-----------------------------------------------------------------------------
(***************************************************************************)
(* The inductive invariant behind the safety properties                    *)
(***************************************************************************)
\* What is known of an article it has for good.
KnownInv ==
    \A a \in Articles :
        /\ a \in Known <=> group[a] \in Groups
        /\ a \in Known => versions[a] # <<>>

\* The articles seen are the known ones, so a copy of a story has a first copy.
SeenInv == Known = {seen[i] : i \in DOMAIN seen}

\* A repost is in the group of the article it is linked to.
LinksJoinOneChain ==
    \A l \in links : /\ l[1] \in Known
                     /\ l[2] \in Known
                     /\ group[l[1]] = group[l[2]]

\* The evidence rows keep the group their article has.
EvidenceInv ==
    /\ IsFiniteSet(evidence)
    /\ \A f \in evidence : f.article \in Known /\ f.group = group[f.article]
    /\ decision = IF evidence = {} THEN NoDecision ELSE Decision(evidence)

IInv ==
    /\ TypeOK
    /\ KnownInv
    /\ SeenInv
    /\ LinksJoinOneChain
    /\ EvidenceInv
=============================================================================
