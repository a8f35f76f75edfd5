------------------------------- MODULE Sessions -------------------------------
(***************************************************************************)
(* What the token endpoints promise about login sessions: a login opens    *)
(* one, and once it has ended, by whatever means, it never opens again.    *)
(* Refreshing a session is invisible at this level.                        *)
(***************************************************************************)
CONSTANTS Logins    \* names of the sessions a login can open

VARIABLES session   \* the state of each session

TypeOK == session \in [Logins -> {"none", "open", "ended"}]

Init == session = [l \in Logins |-> "none"]

\* A user logs in.
Open(l) ==
    /\ session[l] = "none"
    /\ session' = [session EXCEPT ![l] = "open"]

\* Sign-out, expiry, reuse detection, or an action on the account of the user,
\* which ends several sessions at once.
End(ended) ==
    /\ \A l \in ended : session[l] = "open"
    /\ session' = [l \in Logins |-> IF l \in ended THEN "ended" ELSE session[l]]

Next ==
    \/ \E l \in Logins : Open(l)
    \/ \E ended \in SUBSET Logins : End(ended)

Spec == Init /\ [][Next]_session

=============================================================================
