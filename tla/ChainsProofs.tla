----------------------------- MODULE ChainsProofs -----------------------------
(***************************************************************************)
(* Proofs about Verification and Chains: what more support does to a       *)
(* decision, and that a corroborated claim rests on two articles no path   *)
(* of repost links joins.                                                  *)
(***************************************************************************)
EXTENDS Chains, FiniteSetTheorems, SequenceTheorems, TLAPS

(***************************************************************************)
(* Chains and decisions                                                    *)
(***************************************************************************)
\* Finite evidence has finitely many chains (ChainsOf).
LEMMA ChainsFinite ==
    ASSUME NEW E, IsFiniteSet(E)
    PROVE  IsFiniteSet(ChainsOf(E)) /\ Cardinality(ChainsOf(E)) \in Nat
<1> DEFINE counted == {g \in Supporting(E) : g.known /\ g.quality \in {"medium", "high"}}
           chain == [f \in counted |-> f.group]
<1>1. IsFiniteSet(counted)
  BY FS_Subset DEF Supporting
<1>2. chain \in Surjection(counted, ChainsOf(E))
  BY DEF ChainsOf, Surjection
<1>3. IsFiniteSet(ChainsOf(E))
  <2> HIDE DEF counted, chain
  <2> QED BY <1>1, <1>2, FS_Surjection
<1> QED BY <1>3, FS_CardinalityType

\* More evidence has no fewer chains.
LEMMA ChainsGrow ==
    ASSUME NEW F, IsFiniteSet(F), NEW E \in SUBSET F
    PROVE  Cardinality(ChainsOf(E)) <= Cardinality(ChainsOf(F))
<1>1. ChainsOf(E) \in SUBSET ChainsOf(F)
  BY DEF ChainsOf, Supporting
<1> QED BY <1>1, ChainsFinite, FS_Subset

\* Corroboration needs two supporting facts of different groups (Corroborated).
LEMMA TwoGroups ==
    ASSUME NEW E, IsFiniteSet(E), Corroborated(E)
    PROVE  \E f, g \in Supporting(E) : f.group # g.group
<1> SUFFICES ASSUME \A f, g \in Supporting(E) : f.group = g.group
             PROVE  FALSE
  OBVIOUS
<1>1. \A x, y \in ChainsOf(E) : x = y
  BY DEF ChainsOf
<1>2. ChainsOf(E) = {} \/ \E x : ChainsOf(E) = {x}
  BY <1>1
<1>3. Cardinality(ChainsOf(E)) \in {0, 1}
  BY <1>2, FS_EmptySet, FS_Singleton
<1> QED BY <1>3 DEF Corroborated

\* For all evidence: support added to a supported claim never weakens its status and
\* never lifts a dispute or a withdrawal (decide_verification).
THEOREM MoreSupport ==
    ASSUME NEW F, IsFiniteSet(F), NEW E \in SUBSET F,
           F \ E \subseteq Supporting(F), Supporting(E) # {}
    PROVE  /\ Strength(Status(E)) <= Strength(Status(F))
           /\ Strength(Status(E)) = 0 => Status(F) = Status(E)
<1>1. Withdrawn(F) = Withdrawn(E)
  BY DEF Withdrawn, Supporting
<1>2. Conflicting(F) = Conflicting(E)
  BY DEF Conflicting, Supporting
<1>3. Supporting(F) # {} /\ DirectPrimary(E) \subseteq DirectPrimary(F)
  BY DEF Supporting, DirectPrimary
<1>4. Corroborated(E) => Corroborated(F)
  <2>1. IsFiniteSet(E)
    BY FS_Subset
  <2> QED BY <2>1, ChainsFinite, ChainsGrow DEF Corroborated
<1> QED BY <1>1, <1>2, <1>3, <1>4 DEF Status, Strength

\* A decision is well-formed (VerificationDecision).
LEMMA DecisionTyped ==
    ASSUME NEW E
    PROVE  Decision(E) \in Decisions
<1>1. Status(E) \in Statuses
  BY DEF Status, Statuses
<1>2. Confidence(E) \in Confidences
  BY DEF Confidence, Confidences
<1> QED BY <1>1, <1>2 DEF Decision, Decisions
-----------------------------------------------------------------------------
(***************************************************************************)
(* The invariant                                                           *)
(***************************************************************************)
\* Nothing is known at the start (Init).
LEMMA InitInv == Init => IInv
<1> SUFFICES ASSUME Init PROVE IInv
  OBVIOUS
<1>1. Known = {}
  BY DEF Init, Known
<1>2. TypeOK
  BY <1>1 DEF Init, TypeOK
<1>3. KnownInv
  BY <1>1, GroupsAssumption DEF Init, KnownInv
<1>4. SeenInv /\ LinksJoinOneChain
  BY <1>1 DEF Init, SeenInv, LinksJoinOneChain
<1>5. EvidenceInv
  BY FS_EmptySet DEF Init, EvidenceInv
<1> QED BY <1>2, <1>3, <1>4, <1>5 DEF IInv

\* The article a new one reposts is in the group it gets (_assign_independence_group).
LEMMA PriorInGroup ==
    ASSUME IInv, NEW a, NEW text, NEW origin, NEW g \in Groups, NEW prior \in SUBSET Known,
           Assigned(a, text, origin, g, prior)
    PROVE  \A b \in prior : group[b] = g
BY DEF Assigned

\* Ingesting a new article keeps the invariant (Arrive).
LEMMA ArriveStep ==
    ASSUME IInv, NEW a \in Articles, Arrive(a)
    PROVE  IInv'
<1> USE DEF IInv
<1>1. PICK text \in Texts, origin \in Origins \cup {NoOrigin}, g \in Groups,
           prior \in SUBSET Known :
          /\ Assigned(a, text, origin, g, prior)
          /\ group' = [group EXCEPT ![a] = g]
          /\ links' = links \cup ({a} \X prior)
          /\ shown' = [shown EXCEPT ![a] = text]
          /\ versions' = [versions EXCEPT ![a] = <<text>>]
  BY DEF Arrive
<1>2. Known' = Known \cup {a} /\ a \notin Known
  BY <1>1, TextsAssumption DEF Arrive, Known, TypeOK
<1>3. \A b \in Known : group'[b] = group[b]
  BY <1>1, <1>2 DEF TypeOK, Known
<1>4. TypeOK'
  <2>1. seen' \in Seq(Articles) /\ versions' \in [Articles -> Seq(Texts)]
    BY <1>1 DEF Arrive, TypeOK
  <2>2. group' \in [Articles -> Groups \cup {NoGroup}] /\ shown' \in [Articles -> Texts \cup {NoText}]
    BY <1>1 DEF TypeOK
  <2>3. links' \subseteq Articles \X Articles
    BY <1>1 DEF TypeOK, Known
  <2>4. members' \subseteq Known'
    BY <1>2 DEF Arrive, TypeOK
  <2> QED BY <2>1, <2>2, <2>3, <2>4 DEF Arrive, TypeOK
<1>5. KnownInv'
  BY <1>1, <1>2 DEF KnownInv, TypeOK
<1>6. SeenInv'
  <2>1. seen' = Append(seen, a) /\ seen \in Seq(Articles)
    BY DEF Arrive, TypeOK
  <2>2. {seen'[i] : i \in DOMAIN seen'} = {seen[i] : i \in DOMAIN seen} \cup {a}
    BY <2>1
  <2> QED BY <1>2, <2>2 DEF SeenInv
<1>7. LinksJoinOneChain'
  <2>1. \A b \in prior : group[b] = g
    BY <1>1, PriorInGroup
  <2>2. group'[a] = g
    BY <1>1 DEF TypeOK
  <2>3. ASSUME NEW l \in links'
        PROVE  l[1] \in Known' /\ l[2] \in Known' /\ group'[l[1]] = group'[l[2]]
    <3>1. CASE l \in links
      BY <3>1, <1>2, <1>3 DEF LinksJoinOneChain
    <3>2. CASE l \in {a} \X prior
      BY <3>2, <2>1, <2>2, <1>2, <1>3
    <3> QED BY <3>1, <3>2, <1>1
  <2> QED BY <2>3 DEF LinksJoinOneChain
<1>8. EvidenceInv'
  BY <1>2, <1>3 DEF Arrive, EvidenceInv
<1> QED BY <1>4, <1>5, <1>6, <1>7, <1>8

\* Ingesting a changed article keeps the invariant (Revise).
LEMMA ReviseStep ==
    ASSUME IInv, NEW a \in Articles, Revise(a)
    PROVE  IInv'
<1> USE DEF IInv
<1>1. PICK text \in Texts :
          /\ shown' = [shown EXCEPT ![a] = text]
          /\ versions' = [versions EXCEPT ![a] =
                             IF text \in VersionsOf(a) THEN @ ELSE Append(@, text)]
  BY DEF Revise
<1>2. Known' = Known
  BY <1>1, TextsAssumption DEF Revise, Known, TypeOK
<1>3. versions' \in [Articles -> Seq(Texts)] /\ shown' \in [Articles -> Texts \cup {NoText}]
  BY <1>1 DEF TypeOK
<1>4. \A b \in Known : versions'[b] # <<>>
  <2>1. \A q \in Seq(Texts) : Append(q, text) # <<>>
    BY AppendProperties
  <2>2. \A b \in Known : versions[b] \in Seq(Texts) /\ versions[b] # <<>>
    BY DEF KnownInv, TypeOK, Known
  <2> QED BY <1>1, <2>1, <2>2 DEF TypeOK, Known
<1>5. TypeOK'
  BY <1>2, <1>3 DEF Revise, TypeOK
<1>6. KnownInv'
  BY <1>2, <1>4 DEF Revise, KnownInv
<1>7. SeenInv' /\ LinksJoinOneChain' /\ EvidenceInv'
  BY <1>2 DEF Revise, SeenInv, LinksJoinOneChain, EvidenceInv
<1> QED BY <1>5, <1>6, <1>7

\* Merges and splits keep the invariant (Regroup).
LEMMA RegroupStep ==
    ASSUME IInv, Regroup
    PROVE  IInv'
<1> USE DEF IInv, Regroup, articles
<1>1. Known' = Known
  BY DEF Known
<1>2. TypeOK'
  BY <1>1 DEF TypeOK
<1> QED BY <1>1, <1>2 DEF KnownInv, SeenInv, LinksJoinOneChain, EvidenceInv

\* The fact an analysis makes of an article is well-formed (FactOf).
LEMMA FactTyped ==
    ASSUME IInv, NEW a \in members, NEW r
    PROVE  FactOf(a, r) \in FactsOf(Articles, Groups)
<1>1. a \in Articles /\ group[a] \in Groups
  BY DEF IInv, TypeOK, KnownInv, Known
<1>2. StanceOf(a) \in Stances
  BY DEF StanceOf, Stances
<1> QED BY <1>1, <1>2 DEF FactOf, FactsOf

\* An analysis keeps the invariant (Analyse).
LEMMA AnalyseStep ==
    ASSUME IInv, Analyse
    PROVE  IInv'
<1> USE DEF IInv
<1>1. PICK r \in members : evidence' = {FactOf(a, r) : a \in members}
  BY DEF Analyse
<1>2. Known' = Known
  BY DEF Analyse, articles, Known
<1>3. evidence' \subseteq FactsOf(Articles, Groups) /\ evidence' # {}
  BY <1>1, FactTyped DEF Analyse
<1>4. IsFiniteSet(evidence')
  <2> DEFINE fact == [a \in members |-> FactOf(a, r)]
  <2>1. IsFiniteSet(members)
    BY ArticlesAssumption, FS_Subset DEF TypeOK, Known
  <2>2. fact \in Surjection(members, evidence')
    BY <1>1 DEF Surjection
  <2> HIDE DEF fact
  <2> QED BY <2>1, <2>2, FS_Surjection
<1>5. Input \in SUBSET (Articles \X Texts)
  <2> SUFFICES ASSUME NEW a \in members
               PROVE  <<a, Latest(a)>> \in Articles \X Texts
    BY DEF Input
  <2>1. a \in Articles /\ versions[a] \in Seq(Texts) /\ versions[a] # <<>>
    BY DEF TypeOK, KnownInv, Known
  <2> QED BY <2>1 DEF Latest
<1>6. TypeOK'
  <2>1. decision' \in Decisions
    BY DecisionTyped DEF Analyse
  <2> QED BY <1>2, <1>3, <1>5, <2>1 DEF Analyse, articles, TypeOK
<1>7. KnownInv' /\ SeenInv' /\ LinksJoinOneChain'
  BY <1>2 DEF Analyse, articles, KnownInv, SeenInv, LinksJoinOneChain
<1>8. EvidenceInv'
  <2>1. ASSUME NEW f \in evidence'
        PROVE  f.article \in Known' /\ f.group = group'[f.article]
    <3>1. PICK a \in members : f = FactOf(a, r)
      BY <1>1
    <3> QED BY <3>1, <1>2 DEF FactOf, TypeOK, Analyse, articles
  <2> QED BY <2>1, <1>3, <1>4 DEF Analyse, EvidenceInv
<1> QED BY <1>6, <1>7, <1>8

\* Every step keeps the invariant (Next).
LEMMA StepInv == IInv /\ [Next]_vars => IInv'
<1> SUFFICES ASSUME IInv, [Next]_vars PROVE IInv'
  OBVIOUS
<1>1. ASSUME NEW a \in Articles, Arrive(a) PROVE IInv'
  BY <1>1, ArriveStep
<1>2. ASSUME NEW a \in Articles, Revise(a) PROVE IInv'
  BY <1>2, ReviseStep
<1>3. CASE Regroup
  BY <1>3, RegroupStep
<1>4. CASE Analyse
  BY <1>4, AnalyseStep
<1>5. CASE UNCHANGED vars
  <2>1. Known' = Known
    BY <1>5 DEF vars, Known
  <2> QED BY <1>5, <2>1 DEF vars, IInv, TypeOK, KnownInv, SeenInv, LinksJoinOneChain,
                            EvidenceInv
<1> QED BY <1>1, <1>2, <1>3, <1>4, <1>5 DEF Next

\* The inductive invariant of the information chains holds for ever.
THEOREM Invariant == Spec => []IInv
BY InitInv, StepInv, PTL DEF Spec

\* All variables keep their types.
THEOREM TypeCorrect == Spec => []TypeOK
<1>1. IInv => TypeOK
  BY DEF IInv
<1> QED BY <1>1, Invariant, PTL

\* Articles that a path of repost links joins are in one group (Connected).
LEMMA ConnectedShareGroup ==
    ASSUME IInv, NEW a \in Known, NEW b \in Known, Connected(a, b)
    PROVE  group[a] = group[b]
<1> DEFINE C == {x \in Articles : group[x] = group[a]}
<1>1. C \in SUBSET Articles /\ a \in C
  BY DEF Known
<1>2. \A l \in links : l[1] \in C <=> l[2] \in C
  BY DEF IInv, LinksJoinOneChain, Known
<1>3. b \in C
  <2> HIDE DEF C
  <2> QED BY <1>1, <1>2 DEF Connected
<1> QED BY <1>3

\* A corroborated claim rests on two articles that no path of repost links joins.
THEOREM Independence == Spec => []CorroborationIsIndependent
<1>1. IInv => CorroborationIsIndependent
  <2> SUFFICES ASSUME IInv, decision # NoDecision,
                      decision.status = "multi_source_corroborated"
               PROVE  \E f, g \in evidence :
                         /\ f.stance = "supports"
                         /\ g.stance = "supports"
                         /\ ~Connected(f.article, g.article)
    BY DEF CorroborationIsIndependent
  <2>1. evidence # {} /\ decision = Decision(evidence) /\ IsFiniteSet(evidence)
    BY DEF IInv, EvidenceInv
  <2>2. Corroborated(evidence)
    BY <2>1 DEF Decision, Status
  <2>3. PICK f \in Supporting(evidence), g \in Supporting(evidence) : f.group # g.group
    BY <2>1, <2>2, TwoGroups
  <2>4. /\ f.article \in Known /\ f.group = group[f.article]
        /\ g.article \in Known /\ g.group = group[g.article]
    BY <2>3 DEF IInv, EvidenceInv, Supporting
  <2>5. ~Connected(f.article, g.article)
    BY <2>3, <2>4, ConnectedShareGroup
  <2> QED BY <2>3, <2>5 DEF Supporting
<1> QED BY <1>1, Invariant, PTL

\* More support never weakens what an event shows, in any reachable step.
THEOREM Strengthening == Spec => SupportOnlyStrengthens
<1> DEFINE Step == /\ Supporting(evidence) # {}
                   /\ evidence \subseteq evidence'
                   /\ evidence' \ evidence \subseteq Supporting(evidence')
                   => /\ Strength(decision.status) <= Strength(decision'.status)
                      /\ Strength(decision.status) = 0 => decision'.status = decision.status
<1>1. IInv /\ IInv' => Step
  <2> SUFFICES ASSUME EvidenceInv, EvidenceInv', Supporting(evidence) # {},
                      evidence \subseteq evidence',
                      evidence' \ evidence \subseteq Supporting(evidence')
               PROVE  /\ Strength(decision.status) <= Strength(decision'.status)
                      /\ Strength(decision.status) = 0 => decision'.status = decision.status
    BY DEF IInv
  <2>1. evidence # {} /\ evidence' # {}
    BY DEF Supporting
  <2>2. decision.status = Status(evidence) /\ decision'.status = Status(evidence')
    BY <2>1 DEF EvidenceInv, Decision
  <2>3. IsFiniteSet(evidence') /\ evidence \in SUBSET evidence'
    BY DEF EvidenceInv
  <2> QED BY <2>2, <2>3, MoreSupport
<1>2. IInv /\ IInv' => [Step]_vars
  BY <1>1
<1> HIDE DEF Step
<1>3. Spec => [][Step]_vars
  BY <1>2, Invariant, PTL DEF Spec
<1> QED BY <1>3 DEF SupportOnlyStrengthens, Step
-----------------------------------------------------------------------------
(***************************************************************************)
(* What was shown                                                          *)
(***************************************************************************)
\* The text an article shows is one of its versions, not always the latest, so that
\* evidence made of its title and of its latest body can be traced to two versions.
TraceInv ==
    /\ \A a \in Known : shown[a] \in VersionsOf(a)
    /\ StancesAreTraceable

\* A known article keeps its versions (Revise adds one or none), and is known for good.
LEMMA VersionsStay ==
    ASSUME IInv, [Next]_vars, NEW b \in Known
    PROVE  b \in Known' /\ VersionsOf(b) \subseteq VersionsOf(b)'
<1>0. b \in Articles /\ shown[b] # NoText /\ versions[b] \in Seq(Texts)
  BY DEF Known, IInv, TypeOK
<1>1. ASSUME NEW a \in Articles, Arrive(a)
      PROVE  shown'[b] # NoText /\ versions'[b] = versions[b]
  <2>1. b # a
    BY <1>1 DEF Arrive
  <2> QED BY <1>0, <1>1, <2>1 DEF Arrive, IInv, TypeOK
<1>2. ASSUME NEW a \in Articles, NEW text \in Texts,
             shown' = [shown EXCEPT ![a] = text],
             versions' = [versions EXCEPT ![a] =
                             IF text \in VersionsOf(a) THEN @ ELSE Append(@, text)]
      PROVE  shown'[b] # NoText /\ VersionsOf(b) \subseteq VersionsOf(b)'
  <2>1. shown'[b] # NoText
    BY <1>0, <1>2, TextsAssumption DEF IInv, TypeOK
  <2>2. versions'[b] \in {versions[b], Append(versions[b], text)}
    BY <1>0, <1>2 DEF IInv, TypeOK
  <2>3. ASSUME NEW i \in DOMAIN versions[b]
        PROVE  i \in DOMAIN versions'[b] /\ versions'[b][i] = versions[b][i]
    BY SMTT(20), <1>0, <2>2
  <2> QED BY <2>1, <2>3 DEF VersionsOf
<1>3. CASE Regroup \/ Analyse \/ UNCHANGED vars
  BY <1>0, <1>3 DEF Regroup, Analyse, articles, vars, Known, VersionsOf
<1>4. ASSUME shown'[b] # NoText
      PROVE  b \in Known'
  BY <1>0, <1>4 DEF Known
<1>5. ASSUME NEW a \in Articles, Revise(a)
      PROVE  shown'[b] # NoText /\ VersionsOf(b) \subseteq VersionsOf(b)'
  BY <1>2, <1>5 DEF Revise
<1>6. ASSUME versions'[b] = versions[b]
      PROVE  VersionsOf(b)' = VersionsOf(b)
  BY <1>6 DEF VersionsOf
<1> QED BY <1>1, <1>3, <1>4, <1>5, <1>6 DEF Next

\* What was traced stays traced, and an analysis reads what an article shows and the
\* latest of its versions.
LEMMA TraceStep ==
    ASSUME IInv, TraceInv, [Next]_vars
    PROVE  TraceInv'
<1>1. ASSUME NEW b \in Known'
      PROVE  shown'[b] \in VersionsOf(b)'
  <2>0. b \in Articles /\ shown'[b] # NoText
    BY <1>1 DEF Known
  <2>1. CASE b \in Known /\ shown'[b] = shown[b]
    BY <2>1, VersionsStay DEF TraceInv
  <2>2. ASSUME NEW a \in Articles, Arrive(a), b = a
        PROVE  shown'[b] \in VersionsOf(b)'
    <3>1. PICK text \in Texts : shown'[a] = text /\ versions'[a] = <<text>>
      BY <2>2 DEF Arrive, IInv, TypeOK
    <3> QED BY <2>2, <3>1 DEF VersionsOf
  <2>3. ASSUME NEW a \in Articles, Revise(a), b = a
        PROVE  shown'[b] \in VersionsOf(b)'
    <3>1. PICK text \in Texts :
            /\ shown' = [shown EXCEPT ![a] = text]
            /\ versions' = [versions EXCEPT ![a] =
                               IF text \in VersionsOf(a) THEN @ ELSE Append(@, text)]
      BY <2>3 DEF Revise
    <3>2. shown'[b] = text /\ versions[b] \in Seq(Texts)
      BY <2>3, <3>1 DEF IInv, TypeOK
    <3>3. CASE text \in VersionsOf(b)
      <4>1. versions'[b] = versions[b]
        BY <2>3, <3>1, <3>3 DEF IInv, TypeOK
      <4> QED BY <3>2, <3>3, <4>1 DEF VersionsOf
    <3>4. CASE text \notin VersionsOf(b)
      <4>1. versions'[b] = Append(versions[b], text)
        BY <2>3, <3>1, <3>4 DEF IInv, TypeOK
      <4>2. /\ Len(versions[b]) + 1 \in DOMAIN versions'[b]
            /\ versions'[b][Len(versions[b]) + 1] = text
        BY <3>2, <4>1
      <4> QED BY <3>2, <4>2 DEF VersionsOf
    <3> QED BY <3>3, <3>4
  <2>4. ASSUME NEW a \in Articles, Arrive(a) \/ Revise(a), b # a
        PROVE  shown'[b] = shown[b]
    BY <2>0, <2>4 DEF Arrive, Revise, IInv, TypeOK
  <2>5. CASE Regroup \/ Analyse \/ UNCHANGED vars
    BY <2>0, <2>1, <2>5 DEF Regroup, Analyse, articles, vars, Known
  <2>6. shown'[b] = shown[b] => b \in Known
    BY <2>0 DEF Known
  <2> QED BY <2>1, <2>2, <2>3, <2>4, <2>5, <2>6 DEF Next
<1>2. ASSUME NEW f \in evidence', f.stance # "supports"
      PROVE  \E t \in VersionsOf(f.article)' : f.stance \in {t.title, t.rest}
  <2>1. CASE f \in evidence
    <3>1. PICK t \in VersionsOf(f.article) : f.stance \in {t.title, t.rest}
      BY <1>2, <2>1 DEF TraceInv, StancesAreTraceable, VersionsOf
    <3>2. f.article \in Known
      BY <2>1 DEF IInv, EvidenceInv
    <3>3. VersionsOf(f.article) \subseteq VersionsOf(f.article)'
      BY <3>2, VersionsStay
    <3> QED BY <3>1, <3>3
  <2>2. CASE f \notin evidence
    <3>1. Analyse
      BY <1>2, <2>2 DEF Next, Arrive, Revise, Regroup, vars
    <3>2. PICK r \in members, a \in members : f = FactOf(a, r)
      BY <1>2, <3>1 DEF Analyse
    <3>3. f.article = a /\ f.stance = StanceOf(a)
      BY <3>2 DEF FactOf
    <3>4. f.stance \in {shown[a].title, Latest(a).rest}
      BY <1>2, <3>3 DEF StanceOf
    <3>5. a \in Known /\ versions[a] \in Seq(Texts) /\ versions[a] # <<>>
      BY DEF IInv, TypeOK, KnownInv, Known
    <3>6. shown[a] \in VersionsOf(a)
      BY <3>5 DEF TraceInv
    <3>7. Latest(a) \in VersionsOf(a)
      BY <3>5 DEF Latest, VersionsOf
    <3>8. VersionsOf(a) \subseteq VersionsOf(a)'
      BY <3>5, VersionsStay
    <3> QED BY <3>3, <3>4, <3>6, <3>7, <3>8
  <2> QED BY <2>1, <2>2
<1>3. StancesAreTraceable'
  BY <1>2 DEF StancesAreTraceable, VersionsOf
<1> QED BY <1>1, <1>3 DEF TraceInv

\* Evidence that conflicts with a claim or withdraws it has a stored version with the
\* words that made it so, however often its article changes and changes back.
THEOREM ContestsAreTraceable == Spec => []StancesAreTraceable
<1>1. Init => TraceInv
  BY DEF Init, TraceInv, Known, StancesAreTraceable
<1>2. IInv /\ TraceInv /\ [Next]_vars => TraceInv'
  BY TraceStep
<1>3. TraceInv => StancesAreTraceable
  BY DEF TraceInv
<1> QED BY <1>1, <1>2, <1>3, Invariant, PTL DEF Spec
=============================================================================
