---------------------- MODULE MCAclNNExecutorCache ----------------------
(* Three operations for TLC: all of one name, or two of one name and one   *)
(* of another, so that both a shared executor and the replacement index    *)
(* the names have in common come up.                                       *)
EXTENDS AclNNExecutorCache, TLC

CONSTANTS o1, o2, o3

OneName(op) == "MatmulOperation"
TwoNames(op) == IF op = o3 THEN "CastOperation" ELSE "MatmulOperation"

(* Executors are alike, and so are operations of one name.                 *)
OneNameAlike == {f @@ g : f \in Permutations(Executors), g \in Permutations(Ops)}
TwoNamesAlike == {f @@ g : f \in Permutations(Executors), g \in Permutations({o1, o2})}

(* The state up to the identity of the cache objects: each is stood for by *)
(* its contents and its holders.                                           *)
Seen(c) == IF c = Null THEN Null ELSE <<opCache[c], Holders(c)>>
UpToCacheIdentity ==
  <<[op \in Ops |-> Seen(aclnnOpCache[op])],
    [n \in Names |-> [i \in DOMAIN aclnnGlobalCache[n] |-> Seen(aclnnGlobalCache[n][i])]],
    executorCount, nextUpdateIndex, live, setupPack>>
==========================================================================
