----------------------------- MODULE LoginLedger -----------------------------
(***************************************************************************)
(* What the session code promises about the web sessions it opens on BMCs, *)
(* which a BMC has few of.  A login is opened at most once, by the         *)
(* goroutine that starts the KVM session.  From then on exactly one party  *)
(* answers for it: the starter hands it to the credential map, the map     *)
(* hands it to whoever closes it, and nobody hands it back.  Only that     *)
(* closer ends it, once.  A login is given up on only when the BMC does    *)
(* not obey its closer, or when the process dies with all its records.     *)
(***************************************************************************)
CONSTANT
    Logins      \* the logins there may be, one for each KVM session

VARIABLE
    owner       \* who answers for each login

Open == {"starter", "map", "closer"}

TypeOK == owner \in [Logins -> {"unopened", "over", "lost"} \cup Open]

Init == owner = [l \in Logins |-> "unopened"]

\* The login l goes from one owner to the next.
Pass(l, from, to) ==
    /\ owner[l] = from
    /\ owner' = [owner EXCEPT ![l] = to]

\* The closer of a DeleteSession takes one login out of the map, the cleanup
\* all the stale ones at once.
Take(S) ==
    /\ \A l \in S : owner[l] = "map"
    /\ owner' = [l \in Logins |-> IF l \in S THEN "closer" ELSE owner[l]]

\* The process dies: what is open has nobody left to close it, and a session
\* that was about to log in never will.
Crash ==
    owner' \in {f \in [Logins -> {"unopened", "over", "lost"}] :
                  \A l \in Logins :
                      CASE owner[l] \in Open -> f[l] = "lost"
                        [] owner[l] = "unopened" -> f[l] \in {"unopened", "over"}
                        [] OTHER -> f[l] = owner[l]}

Next ==
    \/ \E l \in Logins :
          \/ Pass(l, "unopened", "starter")   \* Authenticate succeeded
          \/ Pass(l, "unopened", "over")      \* the session needs no login, or got none
          \/ Pass(l, "starter", "map")        \* stored for later logout
          \/ Pass(l, "closer", "over")        \* the BMC obeyed the Logout
          \/ Pass(l, "closer", "lost")        \* it did not
    \/ \E S \in SUBSET Logins : Take(S)
    \/ Crash

Spec == Init /\ [][Next]_owner
=============================================================================
