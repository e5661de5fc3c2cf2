----------------------------- MODULE MCSessions -----------------------------
EXTENDS DashboardSessions, TLC

(* Operators, sessions, emails and processes are used alike everywhere.    *)
Symmetric ==
  Permutations(User) \cup Permutations(Session) \cup Permutations(Email)
    \cup Permutations(Process)

=============================================================================
