--------------------------- MODULE MCHandlerLocks ---------------------------
(* HandlerLocks for TLC: a learner with an answer and a listening turn on  *)
(* one session and a review, a reset and Live meanwhile, another learner's *)
(* answer, the worker's sweep of both sessions, and a pool of five.        *)
EXTENDS HandlerLocks, TLC

CONSTANTS turn, other, review, listen, reset, live, sweep, u1, u2, nobody, s1, s2, item

MCLearnerOf == [h \in Handlers |-> IF h = other THEN u2 ELSE IF h = sweep THEN nobody ELSE u1]
MCRowOf == turn :> s1 @@ listen :> s1 @@ review :> item @@ other :> s2
MCWanted == reset :> <<item, s1>> @@ live :> <<s1>> @@ sweep :> <<s1, s2>>
=============================================================================
