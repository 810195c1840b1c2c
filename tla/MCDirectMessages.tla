-------------------------- MODULE MCDirectMessages --------------------------
(* Instances of DirectMessages: bob writes to the local user, who may answer. *)
EXTENDS DirectMessages

CONSTANTS bob, hello, reply, k1, k2, w1, w2

MCFrom == [m \in Mail |-> IF m = reply THEN Me ELSE bob]

MCTo == [m \in Mail |-> IF m = reply THEN bob ELSE Me]

MCKeyOf == [m \in Mail |-> k1]

\* bob's key before and after he made a new one.
BothKeys == {<<bob, k1>>, <<bob, k2>>}

FirstKey == {<<bob, k1>>}

\* A short friend code carries no key, a full one does.
BobCodes == {<<bob, {}>>, <<bob, {k1}>>}

ShortCode == {<<bob, {}>>}
=============================================================================
