--------------------------- MODULE MC_ModuleSign ---------------------------
(* The signing component on two chains, of which the servers of one serve  *)
(* the other too.                                                          *)
EXTENDS ModuleSign, TLC

CONSTANTS c1, c2, s1, s2, s3, s4, f1, f2

Rosters == c1 :> {s1, s2, s3, s4} @@ c2 :> {s1, s2, s3}

\* Three servers are online once they answered; s4, which serves c1 only, may be
\* offline.
SomeAnswers == s1 :> {"online"} @@ s2 :> {"online"} @@ s3 :> {"online"}
               @@ s4 :> {"online", "offline"}

\* Users who stay on a chain, with sockets that fail, or close silently, or with
\* haste; and a user who picks other chains.
SignEnv(hurried, lossy, picks) == [hurried |-> hurried, lossy |-> lossy, picks |-> picks]
StayingSignEnvs == {SignEnv(FALSE, FALSE, FALSE), SignEnv(FALSE, TRUE, FALSE),
                    SignEnv(TRUE, FALSE, FALSE)}
PickingSignEnvs == {SignEnv(FALSE, FALSE, TRUE)}
=============================================================================
