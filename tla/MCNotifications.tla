--------------------------- MODULE MCNotifications ---------------------------
(* Model checking instance of Notifications. *)
EXTENDS Notifications, TLC

CONSTANTS r1, r2, a1, a2, s1, s2, d1, d2

OneReport == {r1}
TwoReports == {r1, r2}
OneAddress == {a1}
TwoAddresses == {a1, a2}
OneSubscriber == {s1}
TwoSubscribers == {s1, s2}
OneDispatcher == {d1}
TwoDispatchers == {d1, d2}

Symmetry == Permutations({r1, r2}) \cup Permutations({a1, a2})
            \cup Permutations({s1, s2}) \cup Permutations({d1, d2})
=============================================================================
