---------------------------- MODULE ReportLedger ----------------------------
(***************************************************************************)
(* What the analysis pipeline promises its readers, without jobs, budgets, *)
(* locks or model calls.  Every event has a ledger of report versions; a   *)
(* version is the hash of the evidence it was computed from.  Evidence may *)
(* change at any time.  A new version is always computed from the evidence *)
(* the event has at that moment, no evidence state is ever reported twice, *)
(* and a published version is never edited, reordered or withdrawn.        *)
(***************************************************************************)
EXTENDS Sequences

CONSTANTS Events,   \* the event clusters
          Hashes    \* the input hashes an event can have

VARIABLES evidence, \* evidence[e]: hash of the evidence event e has now
          ledger    \* ledger[e]: hashes of its report versions, oldest first

vars == <<evidence, ledger>>

Init ==
    /\ evidence \in [Events -> Hashes]
    /\ ledger = [e \in Events |-> <<>>]

ReportedIn(seq) == {seq[i] : i \in DOMAIN seq}

\* Articles arrive, are revised, merged or split; a restart may change the model.
ChangeEvidence ==
    /\ evidence' \in [Events -> Hashes]
    /\ UNCHANGED ledger

Publish(e) ==
    /\ evidence[e] \notin ReportedIn(ledger[e])
    /\ ledger' = [ledger EXCEPT ![e] = Append(@, evidence[e])]
    /\ UNCHANGED evidence

Next ==
    \/ ChangeEvidence
    \/ \E e \in Events : Publish(e)

Spec == Init /\ [][Next]_vars
=============================================================================
