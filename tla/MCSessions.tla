----------------------------- MODULE MCSessions -----------------------------
(* Instances of Sessions for TLC.                                          *)
EXTENDS Sessions

\* Devices do not differ before one has logged in, nor calls while all are
\* idle: the first login, and the first call of several, may be the same one's
\* in every run.
FirstOf(S) == CHOOSE x \in S : TRUE

MCNext ==
  /\ Next
  /\ (\A t \in Token : row[t] = "none") =>
       \A d \in Device \ {FirstOf(Device)} : held'[d] = NoToken
  /\ (\A c \in Call : pc[c] = "idle") =>
       \A c \in Call \ {FirstOf(Call)} : pc'[c] = "idle"

MCSpec == Init /\ [][MCNext]_vars /\ WF_vars(CleanupExpiredTokens)
=============================================================================
