-------------------------- MODULE MCContactServer --------------------------
(* Instances of ContactServer for TLC: the deployments of its runs.        *)
EXTENDS ContactServer, TLC

Symmetric == Permutations(Address) \cup Permutations(Email)

Deployment(typ, threads, addresses, emails, served, levels) ==
    [database_typ |-> typ, threads |-> threads, addresses |-> addresses, emails |-> emails,
     served |-> served, levels |-> levels]

Binding == {"AccountActive", "BindAccount", "UnbindAccount"}
Linking == {"ActiveByEmail", "ActiveVerify"}
Querying == {"QueryAccount", "queryUserLevel", "queryEmailReflect", "QueryReflectByEmailArray"}

Links == Deployment(1, 1, 2, 1, Binding \cup Linking \cup {"UninstallByUser", "deleteUser"}, {})
Quota == Deployment(1, 1, 1, 3, Binding \cup Linking \cup {"updateUserLevel"}, {257, 200})
QuotaOfNormal == Deployment(1, 1, 1, 5, Binding \cup {"updateUserLevel"}, {2})
Keys == Deployment(1, 1, 1, 2, {"AccountActive", "BindAccount", "DecryptByAdmin"}, {})
Arrays == Deployment(1, 2, 1, 2, Binding \cup {"QueryReflectByEmailArray"}, {})
OnLevelDB == Deployment(2, 1, 2, 1, Handler, {1})
OnRedis == Deployment(3, 1, 2, 1, Handler, {0, 1})
ArraysOnLevelDB == Deployment(2, 1, 1, 2, Binding \cup Querying, {})
OnNothing == Deployment(4, 1, 2, 1, Handler, {1})

Everything == {Links, Quota, QuotaOfNormal, Keys, Arrays,
               OnLevelDB, ArraysOnLevelDB, OnRedis, OnNothing}
Racing == {Deployment(1, 2, 1, 3, {"AccountActive", "BindAccount"}, {})}
Levels == {Deployment(1, 1, 1, 1, {"AccountActive", "BindAccount", "updateUserLevel"}, {0})}
Unbinding == {Deployment(1, 1, 1, 1, Linking, {})}

=============================================================================
