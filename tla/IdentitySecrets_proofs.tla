----------------------- MODULE IdentitySecrets_proofs -----------------------
(***************************************************************************)
(* Theorems about IdentitySecrets for every number of identities and       *)
(* clusters, and however often the Secret is created again.                *)
(***************************************************************************)
EXTENDS IdentitySecrets, FiniteSetTheorems, TLAPS

AtMostOne(s) == \A a, b \in s.owners : a = b

\* Whoever decided to own the Secret saw a copy without another owner
InvOwners ==
    /\ AtMostOne(secret) /\ AtMostOne(csecret)
    /\ \A u \in Users : AtMostOne(copy[u])
    /\ \A u \in Users : pc[u] = "own" => copy[u].owners \subseteq {u}

\* What the resourceVersion promises of a copy
InvVersion ==
    /\ Cache \in current => csecret = secret
    /\ \A u \in Users : u \in current /\ pc[u] # "idle" => copy[u] = secret

IInv == TypeOK /\ InvOwners /\ InvVersion

\* At first there is no Secret, and every copy says so
LEMMA InitInv == Init => IInv
  <1> SUFFICES ASSUME Init PROVE IInv
    OBVIOUS
  <1> USE DEF Init, NoSecret, NewSecret, NoUser
  <1>1. TypeOK
    <2> PICK s \in Starts :
          user = [u \in Users |-> [NoUser EXCEPT !.exists = u \in s[1]]] /\ left = s[2]
      OBVIOUS
    <2>1. user \in [Users -> UserType]
      <3> SUFFICES ASSUME NEW u \in Users PROVE user[u] \in UserType
        OBVIOUS
      <3>1. (u \in s[1]) \in BOOLEAN
        OBVIOUS
      <3>2. user[u] = [exists |-> (u \in s[1]), del |-> FALSE, ready |-> FALSE]
        OBVIOUS
      <3> QED BY <3>1, <3>2, Zenon DEF UserType
    <2>3. left \in 0 .. MaxSecrets
      BY SecretsAssumption DEF SecretsAssumption
    <2>2. secret \in SecretType /\ csecret \in SecretType /\ copy \in [Users -> SecretType]
      BY DEF SecretType
    <2> QED BY <2>1, <2>2, <2>3, SecretsAssumption DEF TypeOK, SecretsAssumption
  <1>2. InvOwners
    BY DEF InvOwners, AtMostOne
  <1>3. InvVersion
    BY DEF InvVersion
  <1> QED BY <1>1, <1>2, <1>3 DEF IInv

\* The steps of the operator, the informer and the garbage collector
LEMMA EnvironmentStep ==
    ASSUME IInv, \/ CreateSecret \/ SecretEvent \/ Collect
                 \/ \E u \in Users : DeleteUser(u) \/ Resync(u)
    PROVE  IInv'
  <1> USE DEF IInv
  <1>1. CASE CreateSecret
    <2> USE <1>1 DEF CreateSecret, Write, NewSecret
    <2>1. TypeOK'
      BY SecretsAssumption DEF TypeOK, SecretType, SecretsAssumption
    <2>2. InvOwners'
      BY DEF InvOwners, AtMostOne
    <2>3. InvVersion'
      BY DEF InvVersion
    <2> QED BY <2>1, <2>2, <2>3
  <1>2. CASE SecretEvent
    <2> USE <1>2 DEF SecretEvent
    <2>1. TypeOK'
      BY DEF TypeOK
    <2>2. InvOwners'
      BY DEF InvOwners, AtMostOne
    <2>3. InvVersion'
      BY SecretsAssumption DEF InvVersion, SecretsAssumption
    <2> QED BY <2>1, <2>2, <2>3
  <1>3. CASE Collect
    <2> USE <1>3 DEF Collect, Write
    <2>1. /\ Marked(secret) \in SecretType
          /\ Marked(secret).owners \subseteq secret.owners
      BY DEF Marked, NoSecret, NewSecret, TypeOK, SecretType
    <2>2. TypeOK'
      BY <2>1 DEF TypeOK
    <2>3. InvOwners'
      BY <2>1 DEF InvOwners, AtMostOne
    <2>4. InvVersion'
      BY DEF InvVersion
    <2> QED BY <2>2, <2>3, <2>4
  <1>4. CASE \E u \in Users : DeleteUser(u) \/ Resync(u)
    <2> PICK u \in Users : DeleteUser(u) \/ Resync(u)
      BY <1>4
    <2>1. user' \in [Users -> UserType]
      <3>1. user' \in {user, [user EXCEPT ![u].del = TRUE]}
        BY DEF DeleteUser, Resync
      <3>2. [user[u] EXCEPT !.del = TRUE] \in UserType
        BY DEF TypeOK, UserType
      <3> QED BY <3>1, <3>2 DEF TypeOK
    <2>2. TypeOK'
      BY <2>1 DEF DeleteUser, Resync, TypeOK
    <2>3. InvOwners' /\ InvVersion'
      BY DEF DeleteUser, Resync, InvOwners, InvVersion, AtMostOne
    <2> QED BY <2>2, <2>3
  <1> QED BY <1>1, <1>2, <1>3, <1>4

\* The end of a pass that leaves the Secret alone
LEMMA EndedPass ==
    ASSUME IInv, NEW u \in Users, NEW q \in SUBSET Users, EndPass(u, q),
           UNCHANGED <<secret, csecret, current, left>>,
           user' \in [Users -> UserType], misled' \subseteq Users
    PROVE  IInv'
  <1> USE DEF IInv, EndPass
  <1>1. NoSecret \in SecretType /\ NoSecret.owners = {}
    BY DEF NoSecret, NewSecret, SecretType
  <1>2. TypeOK'
    BY <1>1 DEF TypeOK
  <1>3. InvOwners'
    BY <1>1 DEF InvOwners, AtMostOne, TypeOK
  <1>4. InvVersion'
    BY DEF InvVersion, TypeOK
  <1> QED BY <1>2, <1>3, <1>4

\* The end of a pass with a write to the Secret
LEMMA WrittenPass ==
    ASSUME IInv, NEW u \in Users, NEW q \in SUBSET Users, EndPass(u, q),
           NEW new \in SecretType, AtMostOne(new), Write(new),
           UNCHANGED <<csecret, left, misled>>, user' \in [Users -> UserType]
    PROVE  IInv'
  <1> USE DEF IInv, EndPass, Write
  <1>1. NoSecret \in SecretType /\ NoSecret.owners = {}
    BY DEF NoSecret, NewSecret, SecretType
  <1>2. TypeOK'
    BY <1>1 DEF TypeOK
  <1>3. InvOwners'
    BY <1>1 DEF InvOwners, AtMostOne, TypeOK
  <1>4. InvVersion'
    BY DEF InvVersion, TypeOK
  <1> QED BY <1>2, <1>3, <1>4

\* A pass goes on to own only with a copy that shows no other owner
LEMMA ReadStep ==
    ASSUME IInv, NEW u \in Users, Read(u)
    PROVE  IInv'
  <1> USE DEF IInv
  <1>u. NoUser \in UserType
    BY DEF NoUser, UserType
  <1>1. CASE csecret.exists /\ (user[u].del \/ ~InUse(u, csecret))
    <2>1. /\ pc' = [pc EXCEPT ![u] = IF user[u].del THEN "release" ELSE "own"]
          /\ copy' = [copy EXCEPT ![u] = csecret]
          /\ current' = (IF Cache \in current THEN current \cup {u} ELSE current \ {u})
          /\ queued' = queued \ {u}
          /\ UNCHANGED <<secret, csecret, left, user, misled>>
      BY <1>1 DEF Read
    <2>2. TypeOK'
      BY <2>1 DEF TypeOK
    <2>3. pc'[u] = "own" => csecret.owners \subseteq {u}
      BY <1>1, <2>1 DEF InvOwners, AtMostOne, InUse, TypeOK
    <2>4. InvOwners'
      BY <2>1, <2>3 DEF InvOwners, AtMostOne, TypeOK
    <2>5. InvVersion'
      BY <2>1, SecretsAssumption DEF InvVersion, TypeOK, SecretsAssumption
    <2> QED BY <2>2, <2>4, <2>5
  <1>2. CASE csecret.exists /\ ~user[u].del /\ InUse(u, csecret)
    <2>1. /\ EndPass(u, queued) /\ UNCHANGED <<secret, csecret, current, left, misled>>
          /\ user' = [user EXCEPT ![u].ready = FALSE]
      BY <1>2 DEF Read
    <2>2. user' \in [Users -> UserType]
      BY <2>1 DEF TypeOK, UserType
    <2> QED BY <2>1, <2>2, EndedPass DEF TypeOK
  <1>3. CASE ~csecret.exists /\ user[u].del
    <2>1. /\ EndPass(u, queued \ {u}) /\ UNCHANGED <<secret, csecret, current, left>>
          /\ user' = [user EXCEPT ![u] = NoUser] /\ Deceived(u, Cache)
      BY <1>3 DEF Read
    <2>2. user' \in [Users -> UserType] /\ misled' \subseteq Users
      BY <2>1, <1>u DEF TypeOK, Deceived
    <2> QED BY <2>1, <2>2, EndedPass DEF TypeOK
  <1>4. CASE ~csecret.exists /\ ~user[u].del
    <2>1. EndPass(u, queued) /\ UNCHANGED <<secret, csecret, current, left, user, misled>>
      BY <1>4 DEF Read
    <2> QED BY <2>1, EndedPass DEF TypeOK
  <1> QED BY <1>1, <1>2, <1>3, <1>4

\* What an identity writes, and what a cluster makes of the Secret
LEMMA OwnedSecret ==
    ASSUME IInv, NEW u \in Users, pc[u] = "own"
    PROVE  /\ Owned(u) \in SecretType /\ Owned(u).owners = {u}
           /\ PatchedSecret(u) \in SecretType
           /\ PatchedSecret(u).owners \in {secret.owners, {u}}
  <1>1. Owned(u) \in SecretType /\ Owned(u).owners = {u}
    BY DEF IInv, TypeOK, SecretType, InvOwners, Owned
  <1>2. secret.fin \in BOOLEAN /\ copy[u].fin \in BOOLEAN
    BY DEF IInv, TypeOK, SecretType
  <1>3. (secret.fin \/ ~copy[u].fin) \in BOOLEAN
    BY <1>2
  <1>4. /\ PatchedSecret(u).owners \in {secret.owners, {u}}
        /\ PatchedSecret(u) \in SecretType
    BY <1>1, <1>3 DEF IInv, TypeOK, SecretType, PatchedSecret
  <1> QED BY <1>1, <1>4

\* Both ways to own write a list of one owner, and outdate the other copies
LEMMA OwnStep ==
    ASSUME IInv, NEW u \in Users, OwnByIdentity(u) \/ OwnByCluster(u)
    PROVE  IInv'
  <1>1. CASE UNCHANGED <<secret, current, user>>
    BY <1>1, EndedPass DEF OwnByIdentity, OwnByCluster, IInv, TypeOK
  <1> DEFINE ready == [user EXCEPT ![u].ready = TRUE]
  <1>r. ready \in [Users -> UserType]
    BY DEF IInv, TypeOK, UserType
  <1>2. CASE pc[u] = "own" /\ Write(Owned(u)) /\ EndPass(u, queued) /\ user' = ready
    <2>1. AtMostOne(Owned(u)) /\ Owned(u) \in SecretType
      BY <1>2, OwnedSecret DEF AtMostOne
    <2>2. UNCHANGED <<csecret, left, misled>> /\ queued \in SUBSET Users
      BY DEF OwnByIdentity, OwnByCluster, IInv, TypeOK
    <2> QED BY <1>2, <1>r, <2>1, <2>2, WrittenPass
  <1>3. CASE pc[u] = "own" /\ Write(PatchedSecret(u)) /\ EndPass(u, queued) /\ user' = ready
    <2>1. AtMostOne(PatchedSecret(u)) /\ PatchedSecret(u) \in SecretType
      BY <1>3, OwnedSecret DEF AtMostOne, IInv, InvOwners
    <2>2. UNCHANGED <<csecret, left, misled>> /\ queued \in SUBSET Users
      BY DEF OwnByIdentity, OwnByCluster, IInv, TypeOK
    <2> QED BY <1>3, <1>r, <2>1, <2>2, WrittenPass
  <1> QED BY <1>1, <1>2, <1>3 DEF OwnByIdentity, OwnByCluster

\* The release leaves the owners of the Secret as they are
LEMMA ReleaseStep ==
    ASSUME IInv, NEW u \in Users, Release(u)
    PROVE  IInv'
  <1> USE DEF IInv
  <1>1. CASE ~copy[u].fin
    <2>1. /\ pc' = [pc EXCEPT ![u] = "delete"] /\ Deceived(u, u) /\ pc[u] = "release"
          /\ UNCHANGED <<secret, current, copy, queued, csecret, user, left>>
      BY <1>1 DEF Release
    <2>2. TypeOK'
      BY <2>1 DEF TypeOK, Deceived
    <2>3. InvOwners' /\ InvVersion'
      BY <2>1 DEF InvOwners, InvVersion, AtMostOne, TypeOK
    <2> QED BY <2>2, <2>3
  <1>2. CASE copy[u].fin /\ Accepted(u, copy[u])
    <2> DEFINE new == IF secret.del THEN NoSecret ELSE [copy[u] EXCEPT !.fin = FALSE]
    <2>1. /\ Write(new) /\ pc[u] = "release"
          /\ pc' = [pc EXCEPT ![u] = "delete"]
          /\ copy' = [copy EXCEPT ![u].fin = FALSE]
          /\ UNCHANGED <<queued, misled, csecret, user, left>>
      BY <1>2 DEF Release
    <2>2. new \in SecretType /\ new.owners \subseteq copy[u].owners /\ new # secret
      <3>1. copy[u] = secret
        BY <1>2, <2>1 DEF Accepted, InvVersion
      <3> QED BY <1>2, <3>1 DEF NoSecret, NewSecret, TypeOK, SecretType
    <2>3. copy' \in [Users -> SecretType] /\ \A v \in Users : copy'[v].owners = copy[v].owners
      BY <2>1 DEF TypeOK, SecretType
    <2> HIDE DEF new
    <2>4. secret' = new /\ current' = {}
      BY <2>1, <2>2 DEF Write
    <2>5. TypeOK'
      BY <2>1, <2>2, <2>3, <2>4 DEF TypeOK
    <2>6. InvOwners'
      BY <2>1, <2>2, <2>3, <2>4 DEF InvOwners, AtMostOne, TypeOK
    <2>7. InvVersion'
      BY <2>4 DEF InvVersion
    <2> QED BY <2>5, <2>6, <2>7
  <1>3. CASE /\ EndPass(u, queued \cup {u})
             /\ UNCHANGED <<secret, current, misled, csecret, user, left>>
    BY <1>3, EndedPass DEF TypeOK
  <1> QED BY <1>1, <1>2, <1>3 DEF Release

\* The deletion leaves them, or no Secret
LEMMA DeleteStep ==
    ASSUME IInv, NEW u \in Users, DeleteSecret(u)
    PROVE  IInv'
  <1>1. CASE UNCHANGED <<secret, current>>
    <2>1. user' \in [Users -> UserType]
      <3>1. user' \in {user, [user EXCEPT ![u] = NoUser]}
        BY DEF DeleteSecret
      <3>2. NoUser \in UserType
        BY DEF NoUser, UserType
      <3> QED BY <3>1, <3>2 DEF IInv, TypeOK
    <2>2. EndPass(u, queued) \/ EndPass(u, queued \cup {u})
      BY DEF DeleteSecret
    <2> QED BY <1>1, <2>1, <2>2, EndedPass DEF DeleteSecret, IInv, TypeOK
  <1>2. CASE Write(Marked(secret)) /\ EndPass(u, queued) /\ user' = [user EXCEPT ![u] = NoUser]
    <2>1. Marked(secret) \in SecretType /\ Marked(secret).owners \subseteq secret.owners
      BY DEF Marked, NoSecret, NewSecret, IInv, TypeOK, SecretType
    <2>2. user' \in [Users -> UserType]
      BY <1>2 DEF IInv, TypeOK, UserType, NoUser
    <2>3. AtMostOne(Marked(secret))
      BY <2>1 DEF AtMostOne, IInv, InvOwners
    <2> QED BY <1>2, <2>1, <2>2, <2>3, WrittenPass DEF DeleteSecret, IInv, TypeOK
  <1> QED BY <1>1, <1>2 DEF DeleteSecret

\* The invariant is inductive, one lemma for each kind of step
LEMMA StepInv == IInv /\ [Next]_vars => IInv'
  <1> SUFFICES ASSUME IInv, [Next]_vars PROVE IInv'
    OBVIOUS
  <1>1. CASE UNCHANGED vars
    BY <1>1 DEF vars, IInv, TypeOK, InvOwners, InvVersion, AtMostOne
  <1>2. CASE Next
    BY <1>2, EnvironmentStep, ReadStep, OwnStep, ReleaseStep, DeleteStep DEF Next, Pass
  <1> QED BY <1>1, <1>2

\* The Secret has at most one owner.  The induction is over the copies that
\* are on their way: a controller only decides to own a Secret on a copy
\* without another owner, and whatever it writes, it writes one owner.
THEOREM OneOwner == Spec => []SingleOwner
  <1>1. IInv => SingleOwner
    <2> SUFFICES ASSUME IInv PROVE Cardinality(secret.owners) <= 1
      BY DEF SingleOwner
    <2>1. CASE secret.owners = {}
      BY <2>1, FS_EmptySet
    <2>2. CASE secret.owners # {}
      <3>1. PICK a \in secret.owners : secret.owners = {a}
        BY <2>2 DEF IInv, InvOwners, AtMostOne
      <3> QED BY <3>1, FS_Singleton
    <2> QED BY <2>1, <2>2
  <1> QED BY <1>1, InitInv, StepInv, PTL DEF Spec

\* What a step adds to the owners is no identity, or comes to a free Secret
LEMMA StepTakesNothing ==
    ASSUME IInv, Next
    PROVE  \A u \in Identities : u \in secret'.owners \ secret.owners => secret.owners = {}
  <1> SUFFICES ASSUME NEW i \in Identities, i \in secret'.owners, i \notin secret.owners
               PROVE  secret.owners = {}
    OBVIOUS
  <1> USE DEF IInv, Write
  <1>1. CASE SecretEvent \/ \E u \in Users : DeleteUser(u) \/ Resync(u) \/ Read(u)
    <2>1. UNCHANGED secret
      BY <1>1 DEF SecretEvent, DeleteUser, Resync, Read
    <2> QED BY <2>1
  <1>6. CASE CreateSecret
    BY <1>6 DEF CreateSecret, NewSecret
  <1>2. CASE Collect \/ \E u \in Users : DeleteSecret(u)
    BY <1>2 DEF Collect, DeleteSecret, Marked, NoSecret, NewSecret, TypeOK, SecretType
  <1>3. ASSUME NEW u \in Users, OwnByIdentity(u) PROVE secret.owners = {}
    <2>1. Accepted(u, Owned(u)) /\ secret' = Owned(u) /\ pc[u] = "own"
      BY <1>3 DEF OwnByIdentity
    <2>2. copy[u] = secret /\ copy[u].owners \subseteq {u}
      BY <2>1 DEF Accepted, InvVersion, InvOwners
    <2> QED BY <2>1, <2>2, OwnedSecret
  <1>4. ASSUME NEW u \in Users, OwnByCluster(u) PROVE secret.owners = {}
    <2>1. u # i
      BY <1>4, SecretsAssumption DEF OwnByCluster, SecretsAssumption
    <2>2. pc[u] = "own" /\ (secret' = PatchedSecret(u) \/ UNCHANGED secret)
      BY <1>4 DEF OwnByCluster
    <2> QED BY <2>1, <2>2, OwnedSecret
  <1>5. ASSUME NEW u \in Users, Release(u) PROVE secret.owners = {}
    <2>1. CASE UNCHANGED secret
      BY <2>1
    <2>2. CASE secret # secret'
      <3>1. /\ Accepted(u, copy[u]) /\ pc[u] = "release"
            /\ secret' = IF secret.del THEN NoSecret ELSE [copy[u] EXCEPT !.fin = FALSE]
        BY <1>5, <2>2 DEF Release
      <3>2. copy[u] = secret
        BY <3>1 DEF Accepted, InvVersion
      <3> QED BY <3>1, <3>2 DEF NoSecret, NewSecret, TypeOK, SecretType
    <2> QED BY <2>1, <2>2
  <1> QED BY <1>1, <1>2, <1>3, <1>4, <1>5, <1>6 DEF Next, Pass

\* An identity takes no Secret from its owner, however old the cache is that
\* its reconcile looked at.
THEOREM NothingTaken == Spec => IdentityTakesNothing
  <1>1. IInv /\ [Next]_vars =>
          [\A u \in Identities : u \in secret'.owners \ secret.owners => secret.owners = {}]_vars
    BY StepTakesNothing
  <1> QED BY <1>1, InitInv, StepInv, PTL DEF Spec, IdentityTakesNothing

-----------------------------------------------------------------------------
(* The finalizer of the Secret.                                            *)

\* Somebody is there who has not decided yet that the Secret can go
Guardian(u) == user[u].exists /\ pc[u] # "delete"

\* The finalizer is guarded: whoever sets it is there, and who has released it
\* is not needed any more
InvGuarded ==
    /\ (~secret.exists => ~secret.fin)
    /\ \A u \in Users : pc[u] # "idle" => user[u].exists
    /\ (secret.fin /\ misled = {} => \E u \in Users : Guardian(u))

\* The steps of the operator, the informer and the garbage collector keep it
LEMMA EnvironmentGuarded ==
    ASSUME TypeOK, InvGuarded,
           \/ CreateSecret \/ SecretEvent \/ Collect
           \/ \E u \in Users : DeleteUser(u) \/ Resync(u)
    PROVE  InvGuarded'
  <1>1. CASE CreateSecret
    BY <1>1 DEF CreateSecret, Write, NewSecret, InvGuarded
  <1>2. CASE SecretEvent
    BY <1>2 DEF SecretEvent, InvGuarded, Guardian
  <1>3. CASE Collect
    <2>1. (secret'.fin => secret.fin) /\ (~secret'.exists => ~secret'.fin)
      BY <1>3 DEF Collect, Write, Marked, NoSecret, NewSecret, TypeOK, SecretType
    <2> QED BY <1>3, <2>1 DEF Collect, InvGuarded, Guardian
  <1>4. CASE \E u \in Users : DeleteUser(u) \/ Resync(u)
    <2>1. UNCHANGED <<secret, pc, misled>> /\ \A v \in Users : user'[v].exists = user[v].exists
      BY <1>4 DEF DeleteUser, Resync, TypeOK, UserType
    <2> QED BY <2>1 DEF InvGuarded, Guardian
  <1> QED BY <1>1, <1>2, <1>3, <1>4

\* A pass that ends without a deletion leaves its object as a guardian
LEMMA EndedPassGuarded ==
    ASSUME TypeOK, InvGuarded, NEW u \in Users, NEW q, EndPass(u, q),
           user[u].exists, UNCHANGED misled,
           \A v \in Users : user'[v].exists = user[v].exists,
           ~secret'.exists => ~secret'.fin
    PROVE  InvGuarded'
  BY DEF InvGuarded, Guardian, EndPass, TypeOK

\* An object goes only without a finalizer to guard, or it was deceived
LEMMA GoneGuarded ==
    ASSUME TypeOK, InvGuarded, NEW u \in Users, NEW q, EndPass(u, q),
           user' = [user EXCEPT ![u] = NoUser],
           ~secret'.exists => ~secret'.fin,
           secret'.fin => secret.fin, misled \subseteq misled',
           misled' # {} \/ ~secret.fin \/ pc[u] = "delete"
    PROVE  InvGuarded'
  <1>1. \A v \in Users \ {u} : Guardian(v)' <=> Guardian(v)
    BY DEF Guardian, EndPass, TypeOK
  <1>2. secret.fin /\ misled' = {} => \E v \in Users \ {u} : Guardian(v)
    BY DEF InvGuarded, Guardian
  <1>3. \A v \in Users : pc'[v] # "idle" => user'[v].exists
    BY DEF InvGuarded, EndPass, TypeOK
  <1> QED BY <1>1, <1>2, <1>3 DEF InvGuarded

\* Without a Secret in the cache a deleted object goes at once
LEMMA ReadGuarded ==
    ASSUME IInv, InvGuarded, NEW u \in Users, Read(u)
    PROVE  InvGuarded'
  <1> USE DEF IInv
  <1>1. CASE csecret.exists /\ (user[u].del \/ ~InUse(u, csecret))
    <2>1. /\ pc' = [pc EXCEPT ![u] = IF user[u].del THEN "release" ELSE "own"]
          /\ UNCHANGED <<secret, user, misled>> /\ user[u].exists
      BY <1>1 DEF Read
    <2>2. \A v \in Users : Guardian(v) => Guardian(v)'
      BY <2>1 DEF Guardian, TypeOK
    <2>3. \A v \in Users : pc'[v] # "idle" => user'[v].exists
      BY <2>1 DEF InvGuarded, TypeOK
    <2> QED BY <2>1, <2>2, <2>3 DEF InvGuarded
  <1>2. CASE ~(~csecret.exists /\ user[u].del) /\ EndPass(u, queued)
    <2>1. UNCHANGED <<secret, misled>> /\ user[u].exists /\ \A v \in Users : user'[v].exists = user[v].exists
      BY <1>2 DEF Read, TypeOK, UserType
    <2> QED BY <1>2, <2>1, EndedPassGuarded DEF InvGuarded
  <1>3. CASE ~csecret.exists /\ user[u].del
    <2>1. /\ EndPass(u, queued \ {u}) /\ UNCHANGED secret
          /\ user' = [user EXCEPT ![u] = NoUser] /\ Deceived(u, Cache)
      BY <1>3 DEF Read
    <2>2. misled' # {} \/ ~secret.fin
      BY <1>3, <2>1 DEF Deceived, InvVersion, InvGuarded
    <2> QED BY <2>1, <2>2, GoneGuarded DEF Deceived, InvGuarded
  <1> QED BY <1>1, <1>2, <1>3 DEF Read

\* Who sets the finalizer is there
LEMMA OwnGuarded ==
    ASSUME IInv, InvGuarded, NEW u \in Users, OwnByIdentity(u) \/ OwnByCluster(u)
    PROVE  InvGuarded'
  <1> USE DEF IInv
  <1>1. user[u].exists /\ UNCHANGED misled /\ pc[u] = "own"
    BY DEF OwnByIdentity, OwnByCluster, InvGuarded
  <1>2. \A v \in Users : user'[v].exists = user[v].exists
    BY DEF OwnByIdentity, OwnByCluster, TypeOK, UserType
  <1>3. ~secret'.exists => ~secret'.fin
    <2>1. CASE secret' = Owned(u) /\ Accepted(u, Owned(u))
      <3>1. copy[u] = secret /\ secret.exists
        BY <1>1, <2>1 DEF Accepted, InvVersion
      <3> QED BY <2>1, <3>1 DEF Owned, TypeOK, SecretType
    <2>2. CASE secret' = PatchedSecret(u) /\ secret.exists
      BY <2>2 DEF PatchedSecret, TypeOK, SecretType
    <2> QED BY <2>1, <2>2 DEF OwnByIdentity, OwnByCluster, Write, InvGuarded
  <1>4. EndPass(u, queued) \/ EndPass(u, queued \cup {u})
    BY DEF OwnByIdentity, OwnByCluster
  <1> QED BY <1>1, <1>2, <1>3, <1>4, EndedPassGuarded

\* Who stops guarding has removed the finalizer, or was deceived by its copy
LEMMA ReleaseGuarded ==
    ASSUME IInv, InvGuarded, NEW u \in Users, Release(u)
    PROVE  InvGuarded'
  <1> USE DEF IInv
  <1>0. user[u].exists /\ pc[u] = "release"
    BY DEF Release, InvGuarded
  <1>1. CASE ~copy[u].fin
    <2>1. pc' = [pc EXCEPT ![u] = "delete"] /\ Deceived(u, u) /\ UNCHANGED <<secret, user>>
      BY <1>1 DEF Release
    <2>2. misled' # {} \/ ~secret.fin
      BY <1>0, <1>1, <2>1 DEF Deceived, InvVersion
    <2>3. \A v \in Users : pc'[v] # "idle" => user'[v].exists
      BY <1>0, <2>1 DEF InvGuarded, TypeOK
    <2> QED BY <2>1, <2>2, <2>3 DEF InvGuarded
  <1>2. CASE copy[u].fin /\ Accepted(u, copy[u])
    <2>1. /\ secret' = (IF secret.del THEN NoSecret ELSE [copy[u] EXCEPT !.fin = FALSE])
          /\ pc' = [pc EXCEPT ![u] = "delete"] /\ UNCHANGED <<user, misled>>
      BY <1>2 DEF Release, Write
    <2>2. ~secret'.fin
      BY <2>1 DEF NoSecret, NewSecret, TypeOK, SecretType
    <2>3. \A v \in Users : pc'[v] # "idle" => user'[v].exists
      BY <1>0, <2>1 DEF InvGuarded, TypeOK
    <2> QED BY <2>2, <2>3 DEF InvGuarded
  <1>3. CASE EndPass(u, queued \cup {u}) /\ UNCHANGED <<secret, misled, user>>
    BY <1>0, <1>3, EndedPassGuarded DEF InvGuarded
  <1> QED BY <1>1, <1>2, <1>3 DEF Release

\* Who goes has stopped guarding before
LEMMA DeleteGuarded ==
    ASSUME IInv, InvGuarded, NEW u \in Users, DeleteSecret(u)
    PROVE  InvGuarded'
  <1> USE DEF IInv
  <1>0. user[u].exists /\ pc[u] = "delete" /\ UNCHANGED misled
    BY DEF DeleteSecret, InvGuarded
  <1>1. (secret'.fin => secret.fin) /\ (~secret'.exists => ~secret'.fin)
    BY DEF DeleteSecret, Write, Marked, NoSecret, NewSecret, TypeOK, SecretType, InvGuarded
  <1>2. CASE EndPass(u, queued \cup {u}) /\ UNCHANGED user
    BY <1>0, <1>1, <1>2, EndedPassGuarded
  <1>3. CASE EndPass(u, queued) /\ user' = [user EXCEPT ![u] = NoUser]
    BY <1>0, <1>1, <1>3, GoneGuarded
  <1> QED BY <1>2, <1>3 DEF DeleteSecret

\* The finalizer is guarded in every step
LEMMA StepGuarded == IInv /\ InvGuarded /\ [Next]_vars => InvGuarded'
  <1> SUFFICES ASSUME IInv, InvGuarded, [Next]_vars PROVE InvGuarded'
    OBVIOUS
  <1>1. CASE UNCHANGED vars
    BY <1>1 DEF vars, InvGuarded, Guardian
  <1>2. CASE Next
    BY <1>2, EnvironmentGuarded, ReadGuarded, OwnGuarded, ReleaseGuarded, DeleteGuarded
       DEF Next, Pass, IInv
  <1> QED BY <1>1, <1>2

\* When the last who referred to the Secret is gone, its finalizer is too: no
\* deletion passes over a finalizer that another pass has set in between, unless
\* it went by an outdated copy without Secret or finalizer.
THEOREM SecretNotAbandoned == Spec => []NoAbandonedSecret
  <1>1. Init => InvGuarded
    BY DEF Init, InvGuarded, NoSecret, NewSecret
  <1>2. InvGuarded => NoAbandonedSecret
    BY DEF InvGuarded, Guardian, NoAbandonedSecret
  <1> QED BY <1>1, <1>2, InitInv, StepInv, StepGuarded, PTL DEF Spec
=============================================================================
