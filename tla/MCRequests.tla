------------------------------ MODULE MCRequests ------------------------------
(***************************************************************************)
(* A small instance of Requests: an administrator, a member of a custom    *)
(* role, an entity and a status that are there and an entity, a rule and a *)
(* role that are not.                                                      *)
(***************************************************************************)
EXTENDS Requests, TLC

CONSTANTS admin, member, role1, role2, entity1, reader, editor, p1, v1

MCGrantsOf == [p \in Profiles |->
    IF p = reader THEN Scopes \X {"read"}
                  ELSE {"config-opt", "user"} \X {"read", "create", "update"}]

MCFirstWorld == [x \in Things |->
    CASE x = admin -> [role |-> Administrator, password |-> p1]
      [] x = member -> [role |-> role1, password |-> p1]
      [] x = role1 -> reader
      [] x \in {entity1, Status} -> v1
      [] OTHER -> Missing]

Symmetric == Permutations(Calls)
===============================================================================
