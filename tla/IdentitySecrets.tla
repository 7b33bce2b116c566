-------------------------- MODULE IdentitySecrets --------------------------
(***************************************************************************)
(* A Secret with vCenter credentials and everything that refers to it: the *)
(* VSphereClusterIdentities (controllers/vsphereclusteridentity_           *)
(* controller.go) and the VSphereClusters with a Secret as identityRef     *)
(* (reconcileIdentitySecret and reconcileDelete of                         *)
(* controllers/vspherecluster_reconciler.go).  Each of them wants to be    *)
(* the only owner of the Secret and deletes it when it is deleted itself.  *)
(*                                                                         *)
(*   idle --Read--> own --Own--> idle            normal pass               *)
(*   idle --Read--> release --Release--> delete --DeleteSecret--> idle     *)
(*                                                                         *)
(* The Secret is read from the informer cache.  An identity writes it with *)
(* Update, which the API server refuses when the resourceVersion is not    *)
(* the current one; a cluster sends a patch that replaces the list of      *)
(* owners.  "current" holds the copies whose resourceVersion is current.   *)
(* Secrets are not watched: a pass is started by the object itself, by the *)
(* error of the last pass or by the resync.                                *)
(***************************************************************************)
EXTENDS Naturals, FiniteSets

CONSTANTS
    Identities,     \* VSphereClusterIdentities
    Clusters,       \* VSphereClusters
    MaxSecrets,     \* how often the Secret may be created at most
    Starts          \* who is there at first, and how often it may be created

Users == Identities \cup Clusters
Cache == "cache"

ASSUME SecretsAssumption ==
    /\ Identities \cap Clusters = {}
    /\ IsFiniteSet(Users) /\ Cache \notin Users
    /\ MaxSecrets \in Nat
    /\ Starts \subseteq (SUBSET Users) \X (0 .. MaxSecrets)

VARIABLES
    secret,     \* the Secret in the API server
    csecret,    \* the Secret in the cache
    current,    \* the copies with the current resourceVersion
    user,       \* the identities and clusters
    queued,     \* those in their controller's work queue
    pc, copy,   \* the pass of each: place, its copy of the Secret
    left,       \* how often the Secret may still be created
    misled      \* deleted with an outdated copy, without Secret or finalizer

vars == <<secret, csecret, current, user, queued, pc, copy, left, misled>>

SecretType == [exists : BOOLEAN, owners : SUBSET Users, fin : BOOLEAN, del : BOOLEAN]
UserType   == [exists : BOOLEAN, del : BOOLEAN, ready : BOOLEAN]

NewSecret == [exists |-> TRUE, owners |-> {}, fin |-> FALSE, del |-> FALSE]
NoSecret  == [NewSecret EXCEPT !.exists = FALSE]
NoUser    == [exists |-> FALSE, del |-> FALSE, ready |-> FALSE]

TypeOK ==
    /\ secret \in SecretType /\ csecret \in SecretType
    /\ current \subseteq Users \cup {Cache}
    /\ user \in [Users -> UserType] /\ queued \subseteq Users
    /\ pc \in [Users -> {"idle", "own", "release", "delete"}]
    /\ copy \in [Users -> SecretType]
    /\ left \in 0 .. MaxSecrets /\ misled \subseteq Users

\* Identities and clusters have their finalizer: a pass of its own has set it
Init ==
    /\ secret = NoSecret /\ csecret = NoSecret /\ current = {Cache}
    /\ \E s \in Starts : /\ user = [u \in Users |-> [NoUser EXCEPT !.exists = u \in s[1]]]
                          /\ left = s[2]
    /\ queued = Users
    /\ pc = [u \in Users |-> "idle"] /\ copy = [u \in Users |-> NoSecret]
    /\ misled = {}

\* A write to the Secret makes every other copy of it outdated
Write(new) == secret' = new /\ current' = IF new = secret THEN current ELSE {}

\* A deleted Secret stays until its finalizer is removed
Marked(s) == IF s.fin THEN [s EXCEPT !.del = TRUE] ELSE NoSecret

-----------------------------------------------------------------------------
(* The operator, the informer and the garbage collector.                   *)

CreateSecret ==
    /\ ~secret.exists /\ left > 0
    /\ left' = left - 1
    /\ Write(NewSecret)
    /\ UNCHANGED <<csecret, user, queued, pc, copy, misled>>

DeleteUser(u) ==
    /\ user[u].exists /\ ~user[u].del
    /\ user' = [user EXCEPT ![u].del = TRUE]
    /\ queued' = queued \cup {u}
    /\ UNCHANGED <<secret, csecret, current, pc, copy, left, misled>>

Resync(u) ==
    /\ user[u].exists /\ u \notin queued
    /\ queued' = queued \cup {u}
    /\ UNCHANGED <<secret, csecret, current, user, pc, copy, left, misled>>

SecretEvent ==
    /\ Cache \notin current
    /\ csecret' = secret
    /\ current' = current \cup {Cache}
    /\ UNCHANGED <<secret, user, queued, pc, copy, left, misled>>

Collect ==
    /\ secret.exists /\ ~secret.del /\ secret.owners # {}
    /\ \A u \in secret.owners : ~user[u].exists
    /\ Write(Marked(secret))
    /\ UNCHANGED <<csecret, user, queued, pc, copy, left, misled>>

-----------------------------------------------------------------------------
(* The two controllers.                                                    *)

\* Mutant: the owners of the Secret are not looked at
InUseNever(u, s) == FALSE

\* IsOwnedByObject, IsOwnedByIdentityOrCluster: somebody else's Secret
InUse(u, s) == u \notin s.owners /\ s.owners # {}

EndPass(u, queue) ==
    /\ pc' = [pc EXCEPT ![u] = "idle"]
    /\ copy' = [copy EXCEPT ![u] = NoSecret]
    /\ queued' = queue

\* The deletion goes by a copy that is not the current one
Deceived(u, c) == misled' = IF c \in current THEN misled ELSE misled \cup {u}

\* The pass up to the read of the Secret and the decision on it.  Without a
\* Secret a deleted object drops its finalizer; any other gets an error.  A
\* Secret in use makes an identity not ready.
Read(u) ==
    /\ u \in queued /\ pc[u] = "idle" /\ user[u].exists
    /\ CASE csecret.exists /\ (user[u].del \/ ~InUse(u, csecret)) ->
              /\ pc' = [pc EXCEPT ![u] = IF user[u].del THEN "release" ELSE "own"]
              /\ copy' = [copy EXCEPT ![u] = csecret]
              /\ current' = IF Cache \in current THEN current \cup {u} ELSE current \ {u}
              /\ queued' = queued \ {u}
              /\ UNCHANGED <<user, misled>>
         [] csecret.exists /\ ~user[u].del /\ InUse(u, csecret) ->
              /\ user' = [user EXCEPT ![u].ready = FALSE]
              /\ EndPass(u, queued)
              /\ UNCHANGED <<current, misled>>
         [] ~csecret.exists /\ user[u].del ->
              /\ user' = [user EXCEPT ![u] = NoUser]
              /\ EndPass(u, queued \ {u})
              /\ Deceived(u, Cache)
              /\ UNCHANGED current
         [] ~csecret.exists /\ ~user[u].del ->
              EndPass(u, queued) /\ UNCHANGED <<user, current, misled>>
    /\ UNCHANGED <<secret, csecret, left>>

\* EnsureOwnerRef and AddFinalizer on the copy
Owned(u) == [copy[u] EXCEPT !.owners = @ \cup {u}, !.fin = TRUE]

\* Mutant: a patch without the resourceVersion instead of an Update
AcceptedAnyVersion(u, new) ==
    /\ secret.exists
    /\ secret.del /\ ~secret.fin => ~new.fin

\* The API server takes an Update only of the current version, and no new
\* finalizer for an object that is being deleted
Accepted(u, new) ==
    /\ secret.exists /\ u \in current
    /\ secret.del /\ ~secret.fin => ~new.fin

\* The identity becomes the owner with an Update of the whole Secret
OwnByIdentity(u) ==
    /\ u \in Identities /\ pc[u] = "own"
    /\ IF Accepted(u, Owned(u))
       THEN /\ Write(Owned(u))
            /\ user' = [user EXCEPT ![u].ready = TRUE]
            /\ EndPass(u, queued)
       ELSE EndPass(u, queued \cup {u}) /\ UNCHANGED <<secret, current, user>>
    /\ UNCHANGED <<csecret, left, misled>>

\* What the cluster's patch helper sends: the lists that differ from the copy
PatchedSecret(u) ==
    [ secret EXCEPT
        !.owners = IF Owned(u).owners # copy[u].owners THEN Owned(u).owners ELSE @,
        !.fin = @ \/ ~copy[u].fin ]

\* The cluster becomes the owner with a patch; ready stands for the pass
\* going on to the connection to vCenter
OwnByCluster(u) ==
    /\ u \in Clusters /\ pc[u] = "own"
    /\ IF secret.exists /\ (secret.del => PatchedSecret(u).fin = secret.fin)
       THEN /\ Write(PatchedSecret(u))
            /\ user' = [user EXCEPT ![u].ready = TRUE]
            /\ EndPass(u, queued)
       ELSE EndPass(u, queued \cup {u}) /\ UNCHANGED <<secret, current, user>>
    /\ UNCHANGED <<csecret, left, misled>>

\* Mutant: the Secret is deleted with its finalizer in place
ReleaseNothing(u) ==
    /\ pc[u] = "release"
    /\ pc' = [pc EXCEPT ![u] = "delete"]
    /\ UNCHANGED <<secret, csecret, current, user, queued, copy, left, misled>>

\* reconcileDelete removes the finalizer of the Secret, whoever owns it
Release(u) ==
    /\ pc[u] = "release"
    /\ CASE ~copy[u].fin ->
              /\ pc' = [pc EXCEPT ![u] = "delete"]
              /\ Deceived(u, u)
              /\ UNCHANGED <<secret, current, copy, queued>>
         [] copy[u].fin /\ Accepted(u, copy[u]) ->
              /\ Write(IF secret.del THEN NoSecret ELSE [copy[u] EXCEPT !.fin = FALSE])
              /\ pc' = [pc EXCEPT ![u] = "delete"]
              /\ copy' = [copy EXCEPT ![u].fin = FALSE]
              /\ UNCHANGED <<queued, misled>>
         [] OTHER -> EndPass(u, queued \cup {u}) /\ UNCHANGED <<secret, current, misled>>
    /\ UNCHANGED <<csecret, user, left>>

\* Mutant: a Secret that is gone by now ends the deletion without a retry
DeleteSecretGivesUp(u) ==
    /\ pc[u] = "delete"
    /\ IF ~copy[u].del /\ ~secret.exists
       THEN EndPass(u, queued) /\ UNCHANGED <<secret, current, user>>
       ELSE /\ IF copy[u].del THEN UNCHANGED <<secret, current>> ELSE Write(Marked(secret))
            /\ user' = [user EXCEPT ![u] = NoUser]
            /\ EndPass(u, queued)
    /\ UNCHANGED <<csecret, left, misled>>

\* It deletes the Secret unless the copy says that this was done, and then
\* removes the finalizer of the identity or cluster
DeleteSecret(u) ==
    /\ pc[u] = "delete"
    /\ IF ~copy[u].del /\ ~secret.exists
       THEN EndPass(u, queued \cup {u}) /\ UNCHANGED <<secret, current, user>>
       ELSE /\ IF copy[u].del THEN UNCHANGED <<secret, current>> ELSE Write(Marked(secret))
            /\ user' = [user EXCEPT ![u] = NoUser]
            /\ EndPass(u, queued)
    /\ UNCHANGED <<csecret, left, misled>>

-----------------------------------------------------------------------------

Pass(u) == Read(u) \/ OwnByIdentity(u) \/ OwnByCluster(u) \/ Release(u) \/ DeleteSecret(u)

Next ==
    \/ CreateSecret \/ SecretEvent \/ Collect
    \/ \E u \in Users : DeleteUser(u) \/ Resync(u) \/ Pass(u)

\* Workers take what is queued, the informer and the garbage collector work
Fairness == WF_vars(SecretEvent) /\ WF_vars(Collect) /\ \A u \in Users : WF_vars(Pass(u))

Spec == Init /\ [][Next]_vars /\ Fairness

-----------------------------------------------------------------------------
(* Properties.                                                             *)

\* The Secret has at most one owner, although the controllers decide on
\* cached copies and clusters write without a version.
SingleOwner == Cardinality(secret.owners) <= 1

\* An identity never takes a Secret that somebody else owns by now: its Update
\* carries the version of the copy it decided on.
IdentityTakesNothing ==
    [][\A u \in Identities : u \in secret'.owners \ secret.owners => secret.owners = {}]_vars

\* When all who refer to the Secret are gone, it has no finalizer left that
\* would keep it from being collected: the last deletion released it, unless
\* the cache had not seen the finalizer yet.
NoAbandonedSecret ==
    (\A u \in Users : ~user[u].exists) /\ misled = {} => ~secret.fin

\* The deletion of an identity or cluster comes to its end, whatever the others
\* do to the Secret in the meantime.
DeletionEnds == \A u \in Users : user[u].del ~> ~user[u].exists
=============================================================================
