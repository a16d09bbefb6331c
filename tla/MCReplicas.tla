------------------------------ MODULE MCReplicas ------------------------------
(***************************************************************************)
(* Small instances of AccessDB: replicas without built-in roles.           *)
(***************************************************************************)
EXTENDS AccessDB, TLC

CONSTANTS user, custom, noName, secret, noPassword, profile, never

MCNoPermissions == [r \in {} |-> {}]

\* The administrator exists and the configuration has no password: startup
\* updates the user, and is refused once the user is deleted.
MCInitialDocs ==
    {[users |-> [u \in {user} |->
                     [roles |-> {}, password |-> [hashOf |-> secret],
                      profile |-> profile, expires |-> never]],
      roles |-> [r \in {custom} |-> NoRole]]}

MCAdminRequest ==
    [kind |-> "CreateUser", user |-> user, roles |-> {}, password |-> noPassword,
     profile |-> profile, expires |-> never]

ReplicaSymmetry == Permutations(Replicas)
==============================================================================
