------------------------ MODULE SessionCache_proofs ------------------------
(***************************************************************************)
(* Theorems about SessionCache for every number of workers, keys, servers, *)
(* sessions and failures.                                                  *)
(***************************************************************************)
EXTENDS SessionCache, FiniteSetTheorems, TLAPS

Checking == {"checkVim", "checkRest", "logoutRest", "logoutVim"}

\* The half that is to be closed at its place is closed, or its logout failed
RestClosed(s) == s \in rest => s \in lost
Closed(s)     == s \in vim \cup rest => s \in lost

\* The mutex is held between Lock and Unlock, by one worker
InvMutex ==
    /\ \A w \in Workers : w \in mutex <=> pc[w] \in Protected
    /\ \A v, w \in Workers : pc[v] \in Protected /\ pc[w] \in Protected => v = w

\* Sessions are numbered as they are opened
InvOpened ==
    /\ \A s \in vim \cup rest : s <= opened
    /\ \A k \in Keys : cache[k] <= opened
    /\ \A w \in Workers : sess[w] <= opened

\* Whose session is whose
InvKeys ==
    /\ \A k \in Keys : cache[k] # 0 => keyOf[cache[k]] = k
    /\ \A w \in Workers : pc[w] \in Building =>
         sess[w] # 0 /\ keyOf[sess[w]] = key[w] /\ cache[key[w]] # sess[w]
    /\ \A w \in Workers : pc[w] \in Checking => sess[w] # 0 /\ sess[w] = cache[key[w]]

\* A session is replaced, or given up, only when it is closed
InvClosed ==
    /\ \A w \in Workers : pc[w] = "logoutVim" => RestClosed(sess[w])
    /\ \A w \in Workers : pc[w] \in {"loginRest", "dropVim"} => RestClosed(sess[w])
    /\ \A w \in Workers : pc[w] \in Building \cup {"login"} => Closed(cache[key[w]])

\* An open half is in the cache, or its session is being opened or given up, or
\* its logout failed
InvHeld ==
    \A s \in vim \cup rest :
        \/ cache[keyOf[s]] = s
        \/ \E w \in Workers : sess[w] = s /\ pc[w] \in Building
        \/ s \in lost

\* A session that is not whole was ended by vCenter, or a check of it failed
Whole(s) == s \in (vim \cap rest) \cup expired \cup doubted

\* So is, until Clear, every session of the cache that is not whole,
InvCached == ~down => \A k \in Keys : cache[k] # 0 => Whole(cache[k])

\* a session on its way into the cache,
InvBuilding ==
    /\ \A w \in Workers : pc[w] = "loginRest" => sess[w] \in vim \cup expired
    /\ \A w \in Workers : pc[w] = "datacenter" => Whole(sess[w])

\* and every session that is about to be closed.
InvClosing ==
    /\ \A w \in Workers : pc[w] = "checkRest" /\ ~found[w] => sess[w] \in expired \cup doubted
    /\ \A w \in Workers : pc[w] \in {"logoutRest", "logoutVim"} => sess[w] \in expired \cup doubted

InvDown == down => \A w \in Workers : pc[w] = "idle"

Inv == /\ InvMutex /\ InvOpened /\ InvKeys /\ InvClosed /\ InvHeld
       /\ InvCached /\ InvBuilding /\ InvClosing /\ InvDown

IInv == TypeOK /\ Inv

\* The places of a worker that holds the mutex
LEMMA ProtectedPlaces ==
    Protected = {"checkVim", "checkRest", "logoutRest", "logoutVim", "login",
                 "loginRest", "datacenter", "dropRest", "dropVim"}
  BY DEF Protected, Places, Building

\* Whoever is between Lock and Unlock is alone there
LEMMA Alone ==
    ASSUME TypeOK, InvMutex, NEW w \in Workers, pc[w] \in Protected
    PROVE  \A v \in Workers : v # w => pc[v] \notin Protected
  BY DEF InvMutex

\* and, but for its login, at work on a session
LEMMA AtWork ==
    ASSUME TypeOK, InvKeys, NEW w \in Workers, pc[w] \in Checking \cup Building
    PROVE  sess[w] \in Session
  <1>1. sess[w] # 0 /\ sess[w] \in 0 .. MaxSessions
    BY DEF InvKeys, TypeOK
  <1> QED BY <1>1, SessionAssumption DEF SessionAssumption, Session

\* A call that fails stays within the bound
LEMMA FailuresType ==
    ASSUME TypeOK, NEW w \in Workers, Answers(w) \/ Fails(w)
    PROVE  failures' \in 0 .. MaxFailures
  BY SessionAssumption DEF SessionAssumption, TypeOK, Answers, Fails

\* A worker that waits for the mutex holds no session yet
LEMMA CallStep ==
    ASSUME IInv, NEW w \in Workers, Call(w)
    PROVE  IInv'
  <1> USE DEF IInv, Inv, vcVars, history
  <1>f. failures' \in 0 .. MaxFailures
    BY DEF TypeOK, Call
  <1>1. ASSUME pc[w] = "idle" /\ ~down,
               pc' = [pc EXCEPT ![w] = "call"],
               \E k \in Keys : key' = [key EXCEPT ![w] = k],
               UNCHANGED <<mutex, sess, found, cache, vcVars, history, hung, failures, down>>
        PROVE  IInv'
    <2>t. TypeOK'
      BY <1>f, <1>1, SessionAssumption DEF SessionAssumption, TypeOK, Session, Places, Building, Checking
    <2>1. InvMutex'
      BY ProtectedPlaces, <1>1, <2>t DEF TypeOK, Session, InvMutex, Checking, Building
    <2>2. InvOpened'
      BY ProtectedPlaces, <1>1, <2>t DEF TypeOK, Session, InvOpened
    <2>3. InvKeys'
      BY ProtectedPlaces, <1>1, <2>t DEF TypeOK, Session, InvKeys, InvOpened, InvMutex, Checking, Building
    <2>4. InvClosed'
      BY ProtectedPlaces, <1>1, <2>t DEF TypeOK, Session, InvClosed, InvKeys, InvOpened, InvMutex, RestClosed, Closed, Checking, Building
    <2>5. InvHeld'
      BY ProtectedPlaces, <1>1, <2>t DEF TypeOK, Session, InvHeld, InvKeys, InvOpened, InvMutex, InvClosed, RestClosed, Closed, Checking, Building
    <2>6. InvCached'
      BY ProtectedPlaces, <1>1, <2>t DEF TypeOK, Session, InvCached, InvClosing, InvBuilding, Whole, InvKeys, InvOpened, InvMutex, InvDown, Checking, Building
    <2>7. InvBuilding'
      BY ProtectedPlaces, <1>1, <2>t DEF TypeOK, Session, InvBuilding, Whole, InvKeys, InvOpened, InvMutex, Checking, Building
    <2>8. InvClosing'
      BY ProtectedPlaces, <1>1, <2>t DEF TypeOK, Session, InvClosing, InvCached, Whole, InvKeys, InvMutex, InvDown, Checking, Building
    <2>9. InvDown'
      BY ProtectedPlaces, <1>1, <2>t DEF TypeOK, Session, InvDown
    <2> QED BY <2>t, <2>1, <2>2, <2>3, <2>4, <2>5, <2>6, <2>7, <2>8, <2>9
  <1> QED BY <1>1 DEF Call, Goto, Return, Answers, Fails

\* The mutex is free, so nobody else is at work on a session
LEMMA LockStep ==
    ASSUME IInv, NEW w \in Workers, Lock(w)
    PROVE  IInv'
  <1> USE DEF IInv, Inv, vcVars, history
  <1>f. failures' \in 0 .. MaxFailures
    BY DEF TypeOK, Lock
  <1>1. ASSUME pc[w] = "call" /\ mutex = {},
               mutex' = {w},
               sess' = [sess EXCEPT ![w] = cache[key[w]]],
               pc' = [pc EXCEPT ![w] = IF cache[key[w]] = 0 THEN "login" ELSE "checkVim"],
               UNCHANGED <<key, found, cache, vcVars, history, hung, failures, down>>
        PROVE  IInv'
    <2>t. TypeOK'
      BY <1>f, <1>1, SessionAssumption DEF SessionAssumption, TypeOK, Session, Places, Building, Checking
    <2>1. InvMutex'
      BY ProtectedPlaces, <1>1, <2>t DEF TypeOK, Session, InvMutex, Checking, Building
    <2>2. InvOpened'
      BY ProtectedPlaces, <1>1, <2>t DEF TypeOK, Session, InvOpened
    <2>3. InvKeys'
      BY ProtectedPlaces, <1>1, <2>t DEF TypeOK, Session, InvKeys, InvOpened, InvMutex, Checking, Building
    <2>4. InvClosed'
      BY ProtectedPlaces, <1>1, <2>t DEF TypeOK, Session, InvClosed, InvKeys, InvOpened, InvMutex, RestClosed, Closed, Checking, Building
    <2>5. InvHeld'
      BY ProtectedPlaces, <1>1, <2>t DEF TypeOK, Session, InvHeld, InvKeys, InvOpened, InvMutex, InvClosed, RestClosed, Closed, Checking, Building
    <2>6. InvCached'
      BY ProtectedPlaces, <1>1, <2>t DEF TypeOK, Session, InvCached, InvClosing, InvBuilding, Whole, InvKeys, InvOpened, InvMutex, InvDown, Checking, Building
    <2>7. InvBuilding'
      BY ProtectedPlaces, <1>1, <2>t DEF TypeOK, Session, InvBuilding, Whole, InvKeys, InvOpened, InvMutex, Checking, Building
    <2>8. InvClosing'
      BY ProtectedPlaces, <1>1, <2>t DEF TypeOK, Session, InvClosing, InvCached, Whole, InvKeys, InvMutex, InvDown, Checking, Building
    <2>9. InvDown'
      BY ProtectedPlaces, <1>1, <2>t DEF TypeOK, Session, InvDown
    <2> QED BY <2>t, <2>1, <2>2, <2>3, <2>4, <2>5, <2>6, <2>7, <2>8, <2>9
  <1> QED BY <1>1 DEF Lock, Goto, Return, Answers, Fails

\* A SOAP half that is found inactive has expired, or the check failed
LEMMA CheckVimStep ==
    ASSUME IInv, NEW w \in Workers, CheckVim(w)
    PROVE  IInv'
  <1> USE DEF IInv, Inv, vcVars, history
  <1>f. failures' \in 0 .. MaxFailures
    BY FailuresType DEF CheckVim
  <1>o. \A v \in Workers : v # w => pc[v] \notin Protected
    BY Alone, ProtectedPlaces DEF CheckVim
  <1>s. sess[w] \in Session
    BY AtWork DEF CheckVim, Checking, Building
  <1>1. ASSUME pc[w] = "checkVim",
               pc' = [pc EXCEPT ![w] = "checkRest"],
               found' = [found EXCEPT ![w] = sess[w] \in vim],
               UNCHANGED <<mutex, key, sess, cache, vcVars, history, hung, down>>
        PROVE  IInv'
    <2>p. /\ pc'[w] = "checkRest"
          /\ \A v \in Workers : v # w => pc'[v] = pc[v] /\ pc'[v] \notin Protected
      BY <1>o, <1>1 DEF TypeOK
    <2>b. found' \in [Workers -> BOOLEAN]
      BY <1>1 DEF TypeOK
    <2>a. pc' \in [Workers -> Places]
      BY <1>1 DEF TypeOK, Places
    <2>t. TypeOK'
      BY <1>f, <1>1, <2>a, <2>b DEF TypeOK
    <2>1. InvMutex'
      BY <1>o, <1>s, <2>p, ProtectedPlaces, <1>1, <2>t DEF TypeOK, Session, InvMutex, Checking, Building
    <2>2. InvOpened'
      BY <1>o, <1>s, <2>p, ProtectedPlaces, <1>1, <2>t DEF TypeOK, Session, InvOpened
    <2>3. InvKeys'
      BY <1>o, <1>s, <2>p, ProtectedPlaces, <1>1, <2>t DEF TypeOK, Session, InvKeys, InvOpened, Checking, Building
    <2>4. InvClosed'
      BY <1>o, <1>s, <2>p, ProtectedPlaces, <1>1, <2>t DEF TypeOK, Session, InvClosed, InvKeys, InvOpened, RestClosed, Closed, Checking, Building
    <2>5. InvHeld'
      BY <1>o, <1>s, <2>p, ProtectedPlaces, <1>1, <2>t DEF TypeOK, Session, InvHeld, InvKeys, InvOpened, InvClosed, RestClosed, Closed, Checking, Building
    <2>6. InvCached'
      BY <1>o, <1>s, <2>p, ProtectedPlaces, <1>1, <2>t DEF TypeOK, Session, InvCached, InvClosing, InvBuilding, Whole, InvKeys, InvOpened, InvDown, Checking, Building
    <2>7. InvBuilding'
      BY <1>o, <1>s, <2>p, ProtectedPlaces, <1>1, <2>t DEF TypeOK, Session, InvBuilding, Whole, InvKeys, InvOpened, Checking, Building
    <2>8. InvClosing'
      <3>1. ~down /\ Whole(sess[w])
        BY <1>1, <1>s DEF InvDown, InvCached, InvKeys, TypeOK, Session, Checking
      <3>2. found'[w] <=> sess[w] \in vim
        BY <1>1 DEF TypeOK
      <3>3. sess'[w] \in vim \/ sess'[w] \in (expired \cup doubted)'
        BY <1>1, <3>1 DEF Whole
      <3> QED BY <1>1, <2>p, <3>2, <3>3, ProtectedPlaces DEF InvClosing
    <2>9. InvDown'
      BY <1>o, <1>s, <2>p, ProtectedPlaces, <1>1, <2>t DEF TypeOK, Session, InvDown
    <2> QED BY <2>t, <2>1, <2>2, <2>3, <2>4, <2>5, <2>6, <2>7, <2>8, <2>9
  <1>2. ASSUME pc[w] = "checkVim",
               pc' = [pc EXCEPT ![w] = "checkRest"],
               found' = [found EXCEPT ![w] = FALSE],
               doubted' = doubted \cup {sess[w]},
               UNCHANGED <<mutex, key, sess, cache, vcVars, lost, expired, hung, down>>
        PROVE  IInv'
    <2>p. /\ pc'[w] = "checkRest"
          /\ \A v \in Workers : v # w => pc'[v] = pc[v] /\ pc'[v] \notin Protected
      BY <1>o, <1>2 DEF TypeOK
    <2>t. TypeOK'
      BY <1>f, <1>s, <1>2, SessionAssumption DEF SessionAssumption, TypeOK, Session, Places, Building, Checking
    <2>1. InvMutex'
      BY <1>o, <1>s, <2>p, ProtectedPlaces, <1>2, <2>t DEF TypeOK, Session, InvMutex, Checking, Building
    <2>2. InvOpened'
      BY <1>o, <1>s, <2>p, ProtectedPlaces, <1>2, <2>t DEF TypeOK, Session, InvOpened
    <2>3. InvKeys'
      BY <1>o, <1>s, <2>p, ProtectedPlaces, <1>2, <2>t DEF TypeOK, Session, InvKeys, InvOpened, Checking, Building
    <2>4. InvClosed'
      BY <1>o, <1>s, <2>p, ProtectedPlaces, <1>2, <2>t DEF TypeOK, Session, InvClosed, InvKeys, InvOpened, RestClosed, Closed, Checking, Building
    <2>5. InvHeld'
      BY <1>o, <1>s, <2>p, ProtectedPlaces, <1>2, <2>t DEF TypeOK, Session, InvHeld, InvKeys, InvOpened, InvClosed, RestClosed, Closed, Checking, Building
    <2>6. InvCached'
      BY <1>o, <1>s, <2>p, ProtectedPlaces, <1>2, <2>t DEF TypeOK, Session, InvCached, InvClosing, InvBuilding, Whole, InvKeys, InvOpened, InvDown, Checking, Building
    <2>7. InvBuilding'
      BY <1>o, <1>s, <2>p, ProtectedPlaces, <1>2, <2>t DEF TypeOK, Session, InvBuilding, Whole, InvKeys, InvOpened, Checking, Building
    <2>8. InvClosing'
      BY <1>o, <1>s, <2>p, ProtectedPlaces, <1>2, <2>t DEF TypeOK, Session, InvClosing, InvCached, Whole, InvKeys, InvDown, Checking, Building
    <2>9. InvDown'
      BY <1>o, <1>s, <2>p, ProtectedPlaces, <1>2, <2>t DEF TypeOK, Session, InvDown
    <2> QED BY <2>t, <2>1, <2>2, <2>3, <2>4, <2>5, <2>6, <2>7, <2>8, <2>9
  <1> QED BY <1>1, <1>2 DEF CheckVim, Goto, Return, Answers, Fails

\* The session is returned, or it is about to be closed for a reason
LEMMA CheckRestStep ==
    ASSUME IInv, NEW w \in Workers, CheckRest(w)
    PROVE  IInv'
  <1> USE DEF IInv, Inv, vcVars, history
  <1>f. failures' \in 0 .. MaxFailures
    BY FailuresType DEF CheckRest
  <1>o. \A v \in Workers : v # w => pc[v] \notin Protected
    BY Alone, ProtectedPlaces DEF CheckRest
  <1>s. sess[w] \in Session
    BY AtWork DEF CheckRest, Checking, Building
  <1>1. ASSUME pc[w] = "checkRest",
               pc' = [pc EXCEPT ![w] = "using"],
               mutex' = mutex \ {w},
               doubted' = doubted,
               UNCHANGED <<key, sess, found, cache, vcVars, lost, expired, hung, down>>
        PROVE  IInv'
    <2>p. /\ pc'[w] = "using"
          /\ \A v \in Workers : v # w => pc'[v] = pc[v] /\ pc'[v] \notin Protected
      BY <1>o, <1>1 DEF TypeOK
    <2>t. TypeOK'
      BY <1>f, <1>s, <1>1, SessionAssumption DEF SessionAssumption, TypeOK, Session, Places, Building, Checking
    <2>1. InvMutex'
      BY <1>o, <1>s, <2>p, ProtectedPlaces, <1>1, <2>t DEF TypeOK, Session, InvMutex, Checking, Building
    <2>2. InvOpened'
      BY <1>o, <1>s, <2>p, ProtectedPlaces, <1>1, <2>t DEF TypeOK, Session, InvOpened
    <2>3. InvKeys'
      BY <1>o, <1>s, <2>p, ProtectedPlaces, <1>1, <2>t DEF TypeOK, Session, InvKeys, InvOpened, Checking, Building
    <2>4. InvClosed'
      BY <1>o, <1>s, <2>p, ProtectedPlaces, <1>1, <2>t DEF TypeOK, Session, InvClosed, InvKeys, InvOpened, RestClosed, Closed, Checking, Building
    <2>5. InvHeld'
      BY <1>o, <1>s, <2>p, ProtectedPlaces, <1>1, <2>t DEF TypeOK, Session, InvHeld, InvKeys, InvOpened, InvClosed, RestClosed, Closed, Checking, Building
    <2>6. InvCached'
      BY <1>o, <1>s, <2>p, ProtectedPlaces, <1>1, <2>t DEF TypeOK, Session, InvCached, InvClosing, InvBuilding, Whole, InvKeys, InvOpened, InvDown, Checking, Building
    <2>7. InvBuilding'
      BY <1>o, <1>s, <2>p, ProtectedPlaces, <1>1, <2>t DEF TypeOK, Session, InvBuilding, Whole, InvKeys, InvOpened, Checking, Building
    <2>8. InvClosing'
      BY <1>o, <1>s, <2>p, ProtectedPlaces, <1>1, <2>t DEF TypeOK, Session, InvClosing, InvCached, Whole, InvKeys, InvDown, Checking, Building
    <2>9. InvDown'
      BY <1>o, <1>s, <2>p, ProtectedPlaces, <1>1, <2>t DEF TypeOK, Session, InvDown
    <2> QED BY <2>t, <2>1, <2>2, <2>3, <2>4, <2>5, <2>6, <2>7, <2>8, <2>9
  <1>2. ASSUME pc[w] = "checkRest" /\ ~(found[w] /\ sess[w] \in rest),
               pc' = [pc EXCEPT ![w] = "logoutRest"],
               mutex' = mutex,
               doubted' = doubted,
               UNCHANGED <<key, sess, found, cache, vcVars, lost, expired, hung, down>>
        PROVE  IInv'
    <2>p. /\ pc'[w] = "logoutRest"
          /\ \A v \in Workers : v # w => pc'[v] = pc[v] /\ pc'[v] \notin Protected
      BY <1>o, <1>2 DEF TypeOK
    <2>t. TypeOK'
      BY <1>f, <1>s, <1>2, SessionAssumption DEF SessionAssumption, TypeOK, Session, Places, Building, Checking
    <2>1. InvMutex'
      BY <1>o, <1>s, <2>p, ProtectedPlaces, <1>2, <2>t DEF TypeOK, Session, InvMutex, Checking, Building
    <2>2. InvOpened'
      BY <1>o, <1>s, <2>p, ProtectedPlaces, <1>2, <2>t DEF TypeOK, Session, InvOpened
    <2>3. InvKeys'
      BY <1>o, <1>s, <2>p, ProtectedPlaces, <1>2, <2>t DEF TypeOK, Session, InvKeys, InvOpened, Checking, Building
    <2>4. InvClosed'
      BY <1>o, <1>s, <2>p, ProtectedPlaces, <1>2, <2>t DEF TypeOK, Session, InvClosed, InvKeys, InvOpened, RestClosed, Closed, Checking, Building
    <2>5. InvHeld'
      BY <1>o, <1>s, <2>p, ProtectedPlaces, <1>2, <2>t DEF TypeOK, Session, InvHeld, InvKeys, InvOpened, InvClosed, RestClosed, Closed, Checking, Building
    <2>6. InvCached'
      BY <1>o, <1>s, <2>p, ProtectedPlaces, <1>2, <2>t DEF TypeOK, Session, InvCached, InvClosing, InvBuilding, Whole, InvKeys, InvOpened, InvDown, Checking, Building
    <2>7. InvBuilding'
      BY <1>o, <1>s, <2>p, ProtectedPlaces, <1>2, <2>t DEF TypeOK, Session, InvBuilding, Whole, InvKeys, InvOpened, Checking, Building
    <2>8. InvClosing'
      BY <1>o, <1>s, <2>p, ProtectedPlaces, <1>2, <2>t DEF TypeOK, Session, InvClosing, InvCached, Whole, InvKeys, InvDown, Checking, Building
    <2>9. InvDown'
      BY <1>o, <1>s, <2>p, ProtectedPlaces, <1>2, <2>t DEF TypeOK, Session, InvDown
    <2> QED BY <2>t, <2>1, <2>2, <2>3, <2>4, <2>5, <2>6, <2>7, <2>8, <2>9
  <1>3. ASSUME pc[w] = "checkRest",
               pc' = [pc EXCEPT ![w] = "logoutRest"],
               mutex' = mutex,
               doubted' = doubted \cup {sess[w]},
               UNCHANGED <<key, sess, found, cache, vcVars, lost, expired, hung, down>>
        PROVE  IInv'
    <2>p. /\ pc'[w] = "logoutRest"
          /\ \A v \in Workers : v # w => pc'[v] = pc[v] /\ pc'[v] \notin Protected
      BY <1>o, <1>3 DEF TypeOK
    <2>t. TypeOK'
      BY <1>f, <1>s, <1>3, SessionAssumption DEF SessionAssumption, TypeOK, Session, Places, Building, Checking
    <2>1. InvMutex'
      BY <1>o, <1>s, <2>p, ProtectedPlaces, <1>3, <2>t DEF TypeOK, Session, InvMutex, Checking, Building
    <2>2. InvOpened'
      BY <1>o, <1>s, <2>p, ProtectedPlaces, <1>3, <2>t DEF TypeOK, Session, InvOpened
    <2>3. InvKeys'
      BY <1>o, <1>s, <2>p, ProtectedPlaces, <1>3, <2>t DEF TypeOK, Session, InvKeys, InvOpened, Checking, Building
    <2>4. InvClosed'
      BY <1>o, <1>s, <2>p, ProtectedPlaces, <1>3, <2>t DEF TypeOK, Session, InvClosed, InvKeys, InvOpened, RestClosed, Closed, Checking, Building
    <2>5. InvHeld'
      BY <1>o, <1>s, <2>p, ProtectedPlaces, <1>3, <2>t DEF TypeOK, Session, InvHeld, InvKeys, InvOpened, InvClosed, RestClosed, Closed, Checking, Building
    <2>6. InvCached'
      BY <1>o, <1>s, <2>p, ProtectedPlaces, <1>3, <2>t DEF TypeOK, Session, InvCached, InvClosing, InvBuilding, Whole, InvKeys, InvOpened, InvDown, Checking, Building
    <2>7. InvBuilding'
      BY <1>o, <1>s, <2>p, ProtectedPlaces, <1>3, <2>t DEF TypeOK, Session, InvBuilding, Whole, InvKeys, InvOpened, Checking, Building
    <2>8. InvClosing'
      BY <1>o, <1>s, <2>p, ProtectedPlaces, <1>3, <2>t DEF TypeOK, Session, InvClosing, InvCached, Whole, InvKeys, InvDown, Checking, Building
    <2>9. InvDown'
      BY <1>o, <1>s, <2>p, ProtectedPlaces, <1>3, <2>t DEF TypeOK, Session, InvDown
    <2> QED BY <2>t, <2>1, <2>2, <2>3, <2>4, <2>5, <2>6, <2>7, <2>8, <2>9
  <1> QED BY <1>1, <1>2, <1>3 DEF CheckRest, Goto, Return, Answers, Fails

\* The REST half of the cached session is closed or lost
LEMMA LogoutRestStep ==
    ASSUME IInv, NEW w \in Workers, LogoutRest(w, "logoutRest", "logoutVim")
    PROVE  IInv'
  <1> USE DEF IInv, Inv, vcVars, history
  <1>f. failures' \in 0 .. MaxFailures
    BY FailuresType DEF LogoutRest
  <1>o. \A v \in Workers : v # w => pc[v] \notin Protected
    BY Alone, ProtectedPlaces DEF LogoutRest
  <1>s. sess[w] \in Session
    BY AtWork DEF LogoutRest, Checking, Building
  <1>1. ASSUME pc[w] = "logoutRest",
               pc' = [pc EXCEPT ![w] = "logoutVim"],
               rest' = rest \ {sess[w]} /\ lost' = lost,
               UNCHANGED <<mutex, key, sess, found, cache, keyOf, vim, opened, doubted, expired, hung, down>>
        PROVE  IInv'
    <2>p. /\ pc'[w] = "logoutVim"
          /\ \A v \in Workers : v # w => pc'[v] = pc[v] /\ pc'[v] \notin Protected
      BY <1>o, <1>1 DEF TypeOK
    <2>t. TypeOK'
      BY <1>f, <1>s, <1>1, SessionAssumption DEF SessionAssumption, TypeOK, Session, Places, Building, Checking
    <2>1. InvMutex'
      BY <1>o, <1>s, <2>p, ProtectedPlaces, <1>1, <2>t DEF TypeOK, Session, InvMutex, Checking, Building
    <2>2. InvOpened'
      BY <1>o, <1>s, <2>p, ProtectedPlaces, <1>1, <2>t DEF TypeOK, Session, InvOpened
    <2>3. InvKeys'
      BY <1>o, <1>s, <2>p, ProtectedPlaces, <1>1, <2>t DEF TypeOK, Session, InvKeys, InvOpened, Checking, Building
    <2>4. InvClosed'
      BY <1>o, <1>s, <2>p, ProtectedPlaces, <1>1, <2>t DEF TypeOK, Session, InvClosed, InvKeys, InvOpened, RestClosed, Closed, Checking, Building
    <2>5. InvHeld'
      BY <1>o, <1>s, <2>p, ProtectedPlaces, <1>1, <2>t DEF TypeOK, Session, InvHeld, InvKeys, InvOpened, InvClosed, RestClosed, Closed, Checking, Building
    <2>6. InvCached'
      BY <1>o, <1>s, <2>p, ProtectedPlaces, <1>1, <2>t DEF TypeOK, Session, InvCached, InvClosing, InvBuilding, Whole, InvKeys, InvOpened, InvDown, Checking, Building
    <2>7. InvBuilding'
      BY <1>o, <1>s, <2>p, ProtectedPlaces, <1>1, <2>t DEF TypeOK, Session, InvBuilding, Whole, InvKeys, InvOpened, Checking, Building
    <2>8. InvClosing'
      BY <1>o, <1>s, <2>p, ProtectedPlaces, <1>1, <2>t DEF TypeOK, Session, InvClosing, InvCached, Whole, InvKeys, InvDown, Checking, Building
    <2>9. InvDown'
      BY <1>o, <1>s, <2>p, ProtectedPlaces, <1>1, <2>t DEF TypeOK, Session, InvDown
    <2> QED BY <2>t, <2>1, <2>2, <2>3, <2>4, <2>5, <2>6, <2>7, <2>8, <2>9
  <1>2. ASSUME pc[w] = "logoutRest",
               pc' = [pc EXCEPT ![w] = "logoutVim"],
               rest' = rest /\ lost' = lost \cup {sess[w]},
               UNCHANGED <<mutex, key, sess, found, cache, keyOf, vim, opened, doubted, expired, hung, down>>
        PROVE  IInv'
    <2>p. /\ pc'[w] = "logoutVim"
          /\ \A v \in Workers : v # w => pc'[v] = pc[v] /\ pc'[v] \notin Protected
      BY <1>o, <1>2 DEF TypeOK
    <2>t. TypeOK'
      BY <1>f, <1>s, <1>2, SessionAssumption DEF SessionAssumption, TypeOK, Session, Places, Building, Checking
    <2>1. InvMutex'
      BY <1>o, <1>s, <2>p, ProtectedPlaces, <1>2, <2>t DEF TypeOK, Session, InvMutex, Checking, Building
    <2>2. InvOpened'
      BY <1>o, <1>s, <2>p, ProtectedPlaces, <1>2, <2>t DEF TypeOK, Session, InvOpened
    <2>3. InvKeys'
      BY <1>o, <1>s, <2>p, ProtectedPlaces, <1>2, <2>t DEF TypeOK, Session, InvKeys, InvOpened, Checking, Building
    <2>4. InvClosed'
      BY <1>o, <1>s, <2>p, ProtectedPlaces, <1>2, <2>t DEF TypeOK, Session, InvClosed, InvKeys, InvOpened, RestClosed, Closed, Checking, Building
    <2>5. InvHeld'
      BY <1>o, <1>s, <2>p, ProtectedPlaces, <1>2, <2>t DEF TypeOK, Session, InvHeld, InvKeys, InvOpened, InvClosed, RestClosed, Closed, Checking, Building
    <2>6. InvCached'
      BY <1>o, <1>s, <2>p, ProtectedPlaces, <1>2, <2>t DEF TypeOK, Session, InvCached, InvClosing, InvBuilding, Whole, InvKeys, InvOpened, InvDown, Checking, Building
    <2>7. InvBuilding'
      BY <1>o, <1>s, <2>p, ProtectedPlaces, <1>2, <2>t DEF TypeOK, Session, InvBuilding, Whole, InvKeys, InvOpened, Checking, Building
    <2>8. InvClosing'
      BY <1>o, <1>s, <2>p, ProtectedPlaces, <1>2, <2>t DEF TypeOK, Session, InvClosing, InvCached, Whole, InvKeys, InvDown, Checking, Building
    <2>9. InvDown'
      BY <1>o, <1>s, <2>p, ProtectedPlaces, <1>2, <2>t DEF TypeOK, Session, InvDown
    <2> QED BY <2>t, <2>1, <2>2, <2>3, <2>4, <2>5, <2>6, <2>7, <2>8, <2>9
  <1> QED BY <1>1, <1>2 DEF LogoutRest, Goto, Return, Answers, Fails

\* and then its SOAP half, so that another session may replace it
LEMMA LogoutVimStep ==
    ASSUME IInv, NEW w \in Workers, LogoutVim(w)
    PROVE  IInv'
  <1> USE DEF IInv, Inv, vcVars, history
  <1>f. failures' \in 0 .. MaxFailures
    BY FailuresType DEF LogoutVim
  <1>o. \A v \in Workers : v # w => pc[v] \notin Protected
    BY Alone, ProtectedPlaces DEF LogoutVim
  <1>s. sess[w] \in Session
    BY AtWork DEF LogoutVim, Checking, Building
  <1>1. ASSUME pc[w] = "logoutVim",
               pc' = [pc EXCEPT ![w] = "login"],
               vim' = vim \ {sess[w]} /\ lost' = lost,
               UNCHANGED <<mutex, key, sess, found, cache, keyOf, rest, opened, doubted, expired, hung, down>>
        PROVE  IInv'
    <2>p. /\ pc'[w] = "login"
          /\ \A v \in Workers : v # w => pc'[v] = pc[v] /\ pc'[v] \notin Protected
      BY <1>o, <1>1 DEF TypeOK
    <2>t. TypeOK'
      BY <1>f, <1>s, <1>1, SessionAssumption DEF SessionAssumption, TypeOK, Session, Places, Building, Checking
    <2>1. InvMutex'
      BY <1>o, <1>s, <2>p, ProtectedPlaces, <1>1, <2>t DEF TypeOK, Session, InvMutex, Checking, Building
    <2>2. InvOpened'
      BY <1>o, <1>s, <2>p, ProtectedPlaces, <1>1, <2>t DEF TypeOK, Session, InvOpened
    <2>3. InvKeys'
      BY <1>o, <1>s, <2>p, ProtectedPlaces, <1>1, <2>t DEF TypeOK, Session, InvKeys, InvOpened, Checking, Building
    <2>4. InvClosed'
      BY <1>o, <1>s, <2>p, ProtectedPlaces, <1>1, <2>t DEF TypeOK, Session, InvClosed, InvKeys, InvOpened, RestClosed, Closed, Checking, Building
    <2>5. InvHeld'
      BY <1>o, <1>s, <2>p, ProtectedPlaces, <1>1, <2>t DEF TypeOK, Session, InvHeld, InvKeys, InvOpened, InvClosed, RestClosed, Closed, Checking, Building
    <2>6. InvCached'
      BY <1>o, <1>s, <2>p, ProtectedPlaces, <1>1, <2>t DEF TypeOK, Session, InvCached, InvClosing, InvBuilding, Whole, InvKeys, InvOpened, InvDown, Checking, Building
    <2>7. InvBuilding'
      BY <1>o, <1>s, <2>p, ProtectedPlaces, <1>1, <2>t DEF TypeOK, Session, InvBuilding, Whole, InvKeys, InvOpened, Checking, Building
    <2>8. InvClosing'
      BY <1>o, <1>s, <2>p, ProtectedPlaces, <1>1, <2>t DEF TypeOK, Session, InvClosing, InvCached, Whole, InvKeys, InvDown, Checking, Building
    <2>9. InvDown'
      BY <1>o, <1>s, <2>p, ProtectedPlaces, <1>1, <2>t DEF TypeOK, Session, InvDown
    <2> QED BY <2>t, <2>1, <2>2, <2>3, <2>4, <2>5, <2>6, <2>7, <2>8, <2>9
  <1>2. ASSUME pc[w] = "logoutVim",
               pc' = [pc EXCEPT ![w] = "login"],
               vim' = vim /\ lost' = lost \cup {sess[w]},
               UNCHANGED <<mutex, key, sess, found, cache, keyOf, rest, opened, doubted, expired, hung, down>>
        PROVE  IInv'
    <2>p. /\ pc'[w] = "login"
          /\ \A v \in Workers : v # w => pc'[v] = pc[v] /\ pc'[v] \notin Protected
      BY <1>o, <1>2 DEF TypeOK
    <2>t. TypeOK'
      BY <1>f, <1>s, <1>2, SessionAssumption DEF SessionAssumption, TypeOK, Session, Places, Building, Checking
    <2>1. InvMutex'
      BY <1>o, <1>s, <2>p, ProtectedPlaces, <1>2, <2>t DEF TypeOK, Session, InvMutex, Checking, Building
    <2>2. InvOpened'
      BY <1>o, <1>s, <2>p, ProtectedPlaces, <1>2, <2>t DEF TypeOK, Session, InvOpened
    <2>3. InvKeys'
      BY <1>o, <1>s, <2>p, ProtectedPlaces, <1>2, <2>t DEF TypeOK, Session, InvKeys, InvOpened, Checking, Building
    <2>4. InvClosed'
      BY <1>o, <1>s, <2>p, ProtectedPlaces, <1>2, <2>t DEF TypeOK, Session, InvClosed, InvKeys, InvOpened, RestClosed, Closed, Checking, Building
    <2>5. InvHeld'
      BY <1>o, <1>s, <2>p, ProtectedPlaces, <1>2, <2>t DEF TypeOK, Session, InvHeld, InvKeys, InvOpened, InvClosed, RestClosed, Closed, Checking, Building
    <2>6. InvCached'
      BY <1>o, <1>s, <2>p, ProtectedPlaces, <1>2, <2>t DEF TypeOK, Session, InvCached, InvClosing, InvBuilding, Whole, InvKeys, InvOpened, InvDown, Checking, Building
    <2>7. InvBuilding'
      BY <1>o, <1>s, <2>p, ProtectedPlaces, <1>2, <2>t DEF TypeOK, Session, InvBuilding, Whole, InvKeys, InvOpened, Checking, Building
    <2>8. InvClosing'
      BY <1>o, <1>s, <2>p, ProtectedPlaces, <1>2, <2>t DEF TypeOK, Session, InvClosing, InvCached, Whole, InvKeys, InvDown, Checking, Building
    <2>9. InvDown'
      BY <1>o, <1>s, <2>p, ProtectedPlaces, <1>2, <2>t DEF TypeOK, Session, InvDown
    <2> QED BY <2>t, <2>1, <2>2, <2>3, <2>4, <2>5, <2>6, <2>7, <2>8, <2>9
  <1> QED BY <1>1, <1>2 DEF LogoutVim, Goto, Return, Answers, Fails

\* The new session has a fresh number and is the only open one of its key
LEMMA LoginStep ==
    ASSUME IInv, NEW w \in Workers, Login(w)
    PROVE  IInv'
  <1> USE DEF IInv, Inv, vcVars, history
  <1>f. failures' \in 0 .. MaxFailures
    BY FailuresType DEF Login
  <1>o. \A v \in Workers : v # w => pc[v] \notin Protected
    BY Alone, ProtectedPlaces DEF Login
  <1>1. ASSUME pc[w] = "login" /\ opened < MaxSessions,
               pc' = [pc EXCEPT ![w] = "loginRest"],
               opened' = opened + 1 /\ vim' = vim \cup {opened + 1},
               keyOf' = [keyOf EXCEPT ![opened + 1] = key[w]],
               sess' = [sess EXCEPT ![w] = opened + 1],
               UNCHANGED <<mutex, key, found, cache, rest, history, hung, down>>
        PROVE  IInv'
    <2>p. /\ pc'[w] = "loginRest"
          /\ \A v \in Workers : v # w => pc'[v] = pc[v] /\ pc'[v] \notin Protected
      BY <1>o, <1>1 DEF TypeOK
    <2>t. TypeOK'
      BY <1>f, <1>1, SessionAssumption DEF SessionAssumption, TypeOK, Session, Places, Building, Checking
    <2>1. InvMutex'
      BY <1>o, <2>p, ProtectedPlaces, <1>1, <2>t DEF TypeOK, Session, InvMutex, Checking, Building
    <2>2. InvOpened'
      BY <1>o, <2>p, ProtectedPlaces, <1>1, <2>t DEF TypeOK, Session, InvOpened
    <2>3. InvKeys'
      BY <1>o, <2>p, ProtectedPlaces, <1>1, <2>t DEF TypeOK, Session, InvKeys, InvOpened, Checking, Building
    <2>4. InvClosed'
      BY <1>o, <2>p, ProtectedPlaces, <1>1, <2>t DEF TypeOK, Session, InvClosed, InvKeys, InvOpened, RestClosed, Closed, Checking, Building
    <2>5. InvHeld'
      <3>1. sess'[w] = opened + 1 /\ pc'[w] \in Building
        BY <1>1, <2>p DEF TypeOK, Building
      <3>2. ASSUME NEW s \in vim \cup rest
            PROVE  s \in lost \/ cache[keyOf[s]] = s
        BY <3>2, <1>1, <1>o, ProtectedPlaces DEF InvHeld, Building
      <3>3. ASSUME NEW s \in vim \cup rest PROVE keyOf'[s] = keyOf[s]
        BY <3>3, <1>1 DEF TypeOK, Session, InvOpened
      <3> QED BY <1>1, <3>1, <3>2, <3>3 DEF InvHeld
    <2>6. InvCached'
      BY <1>o, <2>p, ProtectedPlaces, <1>1, <2>t DEF TypeOK, Session, InvCached, InvClosing, InvBuilding, Whole, InvKeys, InvOpened, InvDown, Checking, Building
    <2>7. InvBuilding'
      BY <1>o, <2>p, ProtectedPlaces, <1>1, <2>t DEF TypeOK, Session, InvBuilding, Whole, InvKeys, InvOpened, Checking, Building
    <2>8. InvClosing'
      BY <1>o, <2>p, ProtectedPlaces, <1>1, <2>t DEF TypeOK, Session, InvClosing, InvCached, Whole, InvKeys, InvDown, Checking, Building
    <2>9. InvDown'
      BY <1>o, <2>p, ProtectedPlaces, <1>1, <2>t DEF TypeOK, Session, InvDown
    <2> QED BY <2>t, <2>1, <2>2, <2>3, <2>4, <2>5, <2>6, <2>7, <2>8, <2>9
  <1>2. ASSUME pc[w] = "login",
               pc' = [pc EXCEPT ![w] = "idle"],
               mutex' = mutex \ {w} /\ sess' = [sess EXCEPT ![w] = 0],
               UNCHANGED <<opened, vim, keyOf, key, found, cache, rest, history, hung, down>>
        PROVE  IInv'
    <2>p. /\ pc'[w] = "idle"
          /\ \A v \in Workers : v # w => pc'[v] = pc[v] /\ pc'[v] \notin Protected
      BY <1>o, <1>2 DEF TypeOK
    <2>t. TypeOK'
      BY <1>f, <1>2, SessionAssumption DEF SessionAssumption, TypeOK, Session, Places, Building, Checking
    <2>1. InvMutex'
      BY <1>o, <2>p, ProtectedPlaces, <1>2, <2>t DEF TypeOK, Session, InvMutex, Checking, Building
    <2>2. InvOpened'
      BY <1>o, <2>p, ProtectedPlaces, <1>2, <2>t DEF TypeOK, Session, InvOpened
    <2>3. InvKeys'
      BY <1>o, <2>p, ProtectedPlaces, <1>2, <2>t DEF TypeOK, Session, InvKeys, InvOpened, Checking, Building
    <2>4. InvClosed'
      BY <1>o, <2>p, ProtectedPlaces, <1>2, <2>t DEF TypeOK, Session, InvClosed, InvKeys, InvOpened, RestClosed, Closed, Checking, Building
    <2>5. InvHeld'
      BY <1>o, <2>p, ProtectedPlaces, <1>2, <2>t DEF TypeOK, Session, InvHeld, InvKeys, InvOpened, InvClosed, RestClosed, Closed, Checking, Building
    <2>6. InvCached'
      BY <1>o, <2>p, ProtectedPlaces, <1>2, <2>t DEF TypeOK, Session, InvCached, InvClosing, InvBuilding, Whole, InvKeys, InvOpened, InvDown, Checking, Building
    <2>7. InvBuilding'
      BY <1>o, <2>p, ProtectedPlaces, <1>2, <2>t DEF TypeOK, Session, InvBuilding, Whole, InvKeys, InvOpened, Checking, Building
    <2>8. InvClosing'
      BY <1>o, <2>p, ProtectedPlaces, <1>2, <2>t DEF TypeOK, Session, InvClosing, InvCached, Whole, InvKeys, InvDown, Checking, Building
    <2>9. InvDown'
      BY <1>o, <2>p, ProtectedPlaces, <1>2, <2>t DEF TypeOK, Session, InvDown
    <2> QED BY <2>t, <2>1, <2>2, <2>3, <2>4, <2>5, <2>6, <2>7, <2>8, <2>9
  <1> QED BY <1>1, <1>2 DEF Login, Goto, Return, Answers, Fails

\* The new session is whole, or its SOAP half is about to be closed
LEMMA LoginRestStep ==
    ASSUME IInv, NEW w \in Workers, LoginRest(w)
    PROVE  IInv'
  <1> USE DEF IInv, Inv, vcVars, history
  <1>f. failures' \in 0 .. MaxFailures
    BY FailuresType DEF LoginRest
  <1>o. \A v \in Workers : v # w => pc[v] \notin Protected
    BY Alone, ProtectedPlaces DEF LoginRest
  <1>s. sess[w] \in Session
    BY AtWork DEF LoginRest, Checking, Building
  <1>1. ASSUME pc[w] = "loginRest",
               pc' = [pc EXCEPT ![w] = "datacenter"],
               rest' = rest \cup {sess[w]},
               UNCHANGED <<mutex, key, sess, found, cache, keyOf, vim, opened, history, hung, down>>
        PROVE  IInv'
    <2>p. /\ pc'[w] = "datacenter"
          /\ \A v \in Workers : v # w => pc'[v] = pc[v] /\ pc'[v] \notin Protected
      BY <1>o, <1>1 DEF TypeOK
    <2>t. TypeOK'
      BY <1>f, <1>s, <1>1, SessionAssumption DEF SessionAssumption, TypeOK, Session, Places, Building, Checking
    <2>1. InvMutex'
      BY <1>o, <1>s, <2>p, ProtectedPlaces, <1>1, <2>t DEF TypeOK, Session, InvMutex, Checking, Building
    <2>2. InvOpened'
      BY <1>o, <1>s, <2>p, ProtectedPlaces, <1>1, <2>t DEF TypeOK, Session, InvOpened
    <2>3. InvKeys'
      BY <1>o, <1>s, <2>p, ProtectedPlaces, <1>1, <2>t DEF TypeOK, Session, InvKeys, InvOpened, Checking, Building
    <2>4. InvClosed'
      BY <1>o, <1>s, <2>p, ProtectedPlaces, <1>1, <2>t DEF TypeOK, Session, InvClosed, InvKeys, InvOpened, RestClosed, Closed, Checking, Building
    <2>5. InvHeld'
      BY <1>o, <1>s, <2>p, ProtectedPlaces, <1>1, <2>t DEF TypeOK, Session, InvHeld, InvKeys, InvOpened, InvClosed, RestClosed, Closed, Checking, Building
    <2>6. InvCached'
      BY <1>o, <1>s, <2>p, ProtectedPlaces, <1>1, <2>t DEF TypeOK, Session, InvCached, InvClosing, InvBuilding, Whole, InvKeys, InvOpened, InvDown, Checking, Building
    <2>7. InvBuilding'
      BY <1>o, <1>s, <2>p, ProtectedPlaces, <1>1, <2>t DEF TypeOK, Session, InvBuilding, Whole, InvKeys, InvOpened, Checking, Building
    <2>8. InvClosing'
      BY <1>o, <1>s, <2>p, ProtectedPlaces, <1>1, <2>t DEF TypeOK, Session, InvClosing, InvCached, Whole, InvKeys, InvDown, Checking, Building
    <2>9. InvDown'
      BY <1>o, <1>s, <2>p, ProtectedPlaces, <1>1, <2>t DEF TypeOK, Session, InvDown
    <2> QED BY <2>t, <2>1, <2>2, <2>3, <2>4, <2>5, <2>6, <2>7, <2>8, <2>9
  <1>2. ASSUME pc[w] = "loginRest",
               pc' = [pc EXCEPT ![w] = "dropVim"],
               rest' = rest,
               UNCHANGED <<mutex, key, sess, found, cache, keyOf, vim, opened, history, hung, down>>
        PROVE  IInv'
    <2>p. /\ pc'[w] = "dropVim"
          /\ \A v \in Workers : v # w => pc'[v] = pc[v] /\ pc'[v] \notin Protected
      BY <1>o, <1>2 DEF TypeOK
    <2>t. TypeOK'
      BY <1>f, <1>s, <1>2, SessionAssumption DEF SessionAssumption, TypeOK, Session, Places, Building, Checking
    <2>1. InvMutex'
      BY <1>o, <1>s, <2>p, ProtectedPlaces, <1>2, <2>t DEF TypeOK, Session, InvMutex, Checking, Building
    <2>2. InvOpened'
      BY <1>o, <1>s, <2>p, ProtectedPlaces, <1>2, <2>t DEF TypeOK, Session, InvOpened
    <2>3. InvKeys'
      BY <1>o, <1>s, <2>p, ProtectedPlaces, <1>2, <2>t DEF TypeOK, Session, InvKeys, InvOpened, Checking, Building
    <2>4. InvClosed'
      BY <1>o, <1>s, <2>p, ProtectedPlaces, <1>2, <2>t DEF TypeOK, Session, InvClosed, InvKeys, InvOpened, RestClosed, Closed, Checking, Building
    <2>5. InvHeld'
      BY <1>o, <1>s, <2>p, ProtectedPlaces, <1>2, <2>t DEF TypeOK, Session, InvHeld, InvKeys, InvOpened, InvClosed, RestClosed, Closed, Checking, Building
    <2>6. InvCached'
      BY <1>o, <1>s, <2>p, ProtectedPlaces, <1>2, <2>t DEF TypeOK, Session, InvCached, InvClosing, InvBuilding, Whole, InvKeys, InvOpened, InvDown, Checking, Building
    <2>7. InvBuilding'
      BY <1>o, <1>s, <2>p, ProtectedPlaces, <1>2, <2>t DEF TypeOK, Session, InvBuilding, Whole, InvKeys, InvOpened, Checking, Building
    <2>8. InvClosing'
      BY <1>o, <1>s, <2>p, ProtectedPlaces, <1>2, <2>t DEF TypeOK, Session, InvClosing, InvCached, Whole, InvKeys, InvDown, Checking, Building
    <2>9. InvDown'
      BY <1>o, <1>s, <2>p, ProtectedPlaces, <1>2, <2>t DEF TypeOK, Session, InvDown
    <2> QED BY <2>t, <2>1, <2>2, <2>3, <2>4, <2>5, <2>6, <2>7, <2>8, <2>9
  <1> QED BY <1>1, <1>2 DEF LoginRest, Goto, Return, Answers, Fails

\* It replaces a closed one in the cache, or is about to be closed
LEMMA StoreStep ==
    ASSUME IInv, NEW w \in Workers, Store(w)
    PROVE  IInv'
  <1> USE DEF IInv, Inv, vcVars, history
  <1>f. failures' \in 0 .. MaxFailures
    BY FailuresType DEF Store
  <1>o. \A v \in Workers : v # w => pc[v] \notin Protected
    BY Alone, ProtectedPlaces DEF Store
  <1>s. sess[w] \in Session
    BY AtWork DEF Store, Checking, Building
  <1>1. ASSUME pc[w] = "datacenter",
               pc' = [pc EXCEPT ![w] = "using"],
               mutex' = mutex \ {w} /\ cache' = [cache EXCEPT ![key[w]] = sess[w]],
               UNCHANGED <<key, sess, found, vcVars, history, hung, down>>
        PROVE  IInv'
    <2>p. /\ pc'[w] = "using"
          /\ \A v \in Workers : v # w => pc'[v] = pc[v] /\ pc'[v] \notin Protected
      BY <1>o, <1>1 DEF TypeOK
    <2>t. TypeOK'
      BY <1>f, <1>s, <1>1, SessionAssumption DEF SessionAssumption, TypeOK, Session, Places, Building, Checking
    <2>1. InvMutex'
      BY <1>o, <1>s, <2>p, ProtectedPlaces, <1>1, <2>t DEF TypeOK, Session, InvMutex, Checking, Building
    <2>2. InvOpened'
      BY <1>o, <1>s, <2>p, ProtectedPlaces, <1>1, <2>t DEF TypeOK, Session, InvOpened
    <2>3. InvKeys'
      BY <1>o, <1>s, <2>p, ProtectedPlaces, <1>1, <2>t DEF TypeOK, Session, InvKeys, InvOpened, Checking, Building
    <2>4. InvClosed'
      BY <1>o, <1>s, <2>p, ProtectedPlaces, <1>1, <2>t DEF TypeOK, Session, InvClosed, InvKeys, InvOpened, RestClosed, Closed, Checking, Building
    <2>5. InvHeld'
      BY <1>o, <1>s, <2>p, ProtectedPlaces, <1>1, <2>t DEF TypeOK, Session, InvHeld, InvKeys, InvOpened, InvClosed, RestClosed, Closed, Checking, Building
    <2>6. InvCached'
      BY <1>o, <1>s, <2>p, ProtectedPlaces, <1>1, <2>t DEF TypeOK, Session, InvCached, InvClosing, InvBuilding, Whole, InvKeys, InvOpened, InvDown, Checking, Building
    <2>7. InvBuilding'
      BY <1>o, <1>s, <2>p, ProtectedPlaces, <1>1, <2>t DEF TypeOK, Session, InvBuilding, Whole, InvKeys, InvOpened, Checking, Building
    <2>8. InvClosing'
      BY <1>o, <1>s, <2>p, ProtectedPlaces, <1>1, <2>t DEF TypeOK, Session, InvClosing, InvCached, Whole, InvKeys, InvDown, Checking, Building
    <2>9. InvDown'
      BY <1>o, <1>s, <2>p, ProtectedPlaces, <1>1, <2>t DEF TypeOK, Session, InvDown
    <2> QED BY <2>t, <2>1, <2>2, <2>3, <2>4, <2>5, <2>6, <2>7, <2>8, <2>9
  <1>2. ASSUME pc[w] = "datacenter",
               pc' = [pc EXCEPT ![w] = "dropRest"],
               mutex' = mutex /\ cache' = cache,
               UNCHANGED <<key, sess, found, vcVars, history, hung, down>>
        PROVE  IInv'
    <2>p. /\ pc'[w] = "dropRest"
          /\ \A v \in Workers : v # w => pc'[v] = pc[v] /\ pc'[v] \notin Protected
      BY <1>o, <1>2 DEF TypeOK
    <2>t. TypeOK'
      BY <1>f, <1>s, <1>2, SessionAssumption DEF SessionAssumption, TypeOK, Session, Places, Building, Checking
    <2>1. InvMutex'
      BY <1>o, <1>s, <2>p, ProtectedPlaces, <1>2, <2>t DEF TypeOK, Session, InvMutex, Checking, Building
    <2>2. InvOpened'
      BY <1>o, <1>s, <2>p, ProtectedPlaces, <1>2, <2>t DEF TypeOK, Session, InvOpened
    <2>3. InvKeys'
      BY <1>o, <1>s, <2>p, ProtectedPlaces, <1>2, <2>t DEF TypeOK, Session, InvKeys, InvOpened, Checking, Building
    <2>4. InvClosed'
      BY <1>o, <1>s, <2>p, ProtectedPlaces, <1>2, <2>t DEF TypeOK, Session, InvClosed, InvKeys, InvOpened, RestClosed, Closed, Checking, Building
    <2>5. InvHeld'
      BY <1>o, <1>s, <2>p, ProtectedPlaces, <1>2, <2>t DEF TypeOK, Session, InvHeld, InvKeys, InvOpened, InvClosed, RestClosed, Closed, Checking, Building
    <2>6. InvCached'
      BY <1>o, <1>s, <2>p, ProtectedPlaces, <1>2, <2>t DEF TypeOK, Session, InvCached, InvClosing, InvBuilding, Whole, InvKeys, InvOpened, InvDown, Checking, Building
    <2>7. InvBuilding'
      BY <1>o, <1>s, <2>p, ProtectedPlaces, <1>2, <2>t DEF TypeOK, Session, InvBuilding, Whole, InvKeys, InvOpened, Checking, Building
    <2>8. InvClosing'
      BY <1>o, <1>s, <2>p, ProtectedPlaces, <1>2, <2>t DEF TypeOK, Session, InvClosing, InvCached, Whole, InvKeys, InvDown, Checking, Building
    <2>9. InvDown'
      BY <1>o, <1>s, <2>p, ProtectedPlaces, <1>2, <2>t DEF TypeOK, Session, InvDown
    <2> QED BY <2>t, <2>1, <2>2, <2>3, <2>4, <2>5, <2>6, <2>7, <2>8, <2>9
  <1> QED BY <1>1, <1>2 DEF Store, Goto, Return, Answers, Fails

\* A session that is given up is closed or lost, its REST half
LEMMA DropRestStep ==
    ASSUME IInv, NEW w \in Workers, LogoutRest(w, "dropRest", "dropVim")
    PROVE  IInv'
  <1> USE DEF IInv, Inv, vcVars, history
  <1>f. failures' \in 0 .. MaxFailures
    BY FailuresType DEF LogoutRest
  <1>o. \A v \in Workers : v # w => pc[v] \notin Protected
    BY Alone, ProtectedPlaces DEF LogoutRest
  <1>s. sess[w] \in Session
    BY AtWork DEF LogoutRest, Checking, Building
  <1>1. ASSUME pc[w] = "dropRest",
               pc' = [pc EXCEPT ![w] = "dropVim"],
               rest' = rest \ {sess[w]} /\ lost' = lost,
               UNCHANGED <<mutex, key, sess, found, cache, keyOf, vim, opened, doubted, expired, hung, down>>
        PROVE  IInv'
    <2>p. /\ pc'[w] = "dropVim"
          /\ \A v \in Workers : v # w => pc'[v] = pc[v] /\ pc'[v] \notin Protected
      BY <1>o, <1>1 DEF TypeOK
    <2>t. TypeOK'
      BY <1>f, <1>s, <1>1, SessionAssumption DEF SessionAssumption, TypeOK, Session, Places, Building, Checking
    <2>1. InvMutex'
      BY <1>o, <1>s, <2>p, ProtectedPlaces, <1>1, <2>t DEF TypeOK, Session, InvMutex, Checking, Building
    <2>2. InvOpened'
      BY <1>o, <1>s, <2>p, ProtectedPlaces, <1>1, <2>t DEF TypeOK, Session, InvOpened
    <2>3. InvKeys'
      BY <1>o, <1>s, <2>p, ProtectedPlaces, <1>1, <2>t DEF TypeOK, Session, InvKeys, InvOpened, Checking, Building
    <2>4. InvClosed'
      BY <1>o, <1>s, <2>p, ProtectedPlaces, <1>1, <2>t DEF TypeOK, Session, InvClosed, InvKeys, InvOpened, RestClosed, Closed, Checking, Building
    <2>5. InvHeld'
      BY <1>o, <1>s, <2>p, ProtectedPlaces, <1>1, <2>t DEF TypeOK, Session, InvHeld, InvKeys, InvOpened, InvClosed, RestClosed, Closed, Checking, Building
    <2>6. InvCached'
      BY <1>o, <1>s, <2>p, ProtectedPlaces, <1>1, <2>t DEF TypeOK, Session, InvCached, InvClosing, InvBuilding, Whole, InvKeys, InvOpened, InvDown, Checking, Building
    <2>7. InvBuilding'
      BY <1>o, <1>s, <2>p, ProtectedPlaces, <1>1, <2>t DEF TypeOK, Session, InvBuilding, Whole, InvKeys, InvOpened, Checking, Building
    <2>8. InvClosing'
      BY <1>o, <1>s, <2>p, ProtectedPlaces, <1>1, <2>t DEF TypeOK, Session, InvClosing, InvCached, Whole, InvKeys, InvDown, Checking, Building
    <2>9. InvDown'
      BY <1>o, <1>s, <2>p, ProtectedPlaces, <1>1, <2>t DEF TypeOK, Session, InvDown
    <2> QED BY <2>t, <2>1, <2>2, <2>3, <2>4, <2>5, <2>6, <2>7, <2>8, <2>9
  <1>2. ASSUME pc[w] = "dropRest",
               pc' = [pc EXCEPT ![w] = "dropVim"],
               rest' = rest /\ lost' = lost \cup {sess[w]},
               UNCHANGED <<mutex, key, sess, found, cache, keyOf, vim, opened, doubted, expired, hung, down>>
        PROVE  IInv'
    <2>p. /\ pc'[w] = "dropVim"
          /\ \A v \in Workers : v # w => pc'[v] = pc[v] /\ pc'[v] \notin Protected
      BY <1>o, <1>2 DEF TypeOK
    <2>t. TypeOK'
      BY <1>f, <1>s, <1>2, SessionAssumption DEF SessionAssumption, TypeOK, Session, Places, Building, Checking
    <2>1. InvMutex'
      BY <1>o, <1>s, <2>p, ProtectedPlaces, <1>2, <2>t DEF TypeOK, Session, InvMutex, Checking, Building
    <2>2. InvOpened'
      BY <1>o, <1>s, <2>p, ProtectedPlaces, <1>2, <2>t DEF TypeOK, Session, InvOpened
    <2>3. InvKeys'
      BY <1>o, <1>s, <2>p, ProtectedPlaces, <1>2, <2>t DEF TypeOK, Session, InvKeys, InvOpened, Checking, Building
    <2>4. InvClosed'
      BY <1>o, <1>s, <2>p, ProtectedPlaces, <1>2, <2>t DEF TypeOK, Session, InvClosed, InvKeys, InvOpened, RestClosed, Closed, Checking, Building
    <2>5. InvHeld'
      BY <1>o, <1>s, <2>p, ProtectedPlaces, <1>2, <2>t DEF TypeOK, Session, InvHeld, InvKeys, InvOpened, InvClosed, RestClosed, Closed, Checking, Building
    <2>6. InvCached'
      BY <1>o, <1>s, <2>p, ProtectedPlaces, <1>2, <2>t DEF TypeOK, Session, InvCached, InvClosing, InvBuilding, Whole, InvKeys, InvOpened, InvDown, Checking, Building
    <2>7. InvBuilding'
      BY <1>o, <1>s, <2>p, ProtectedPlaces, <1>2, <2>t DEF TypeOK, Session, InvBuilding, Whole, InvKeys, InvOpened, Checking, Building
    <2>8. InvClosing'
      BY <1>o, <1>s, <2>p, ProtectedPlaces, <1>2, <2>t DEF TypeOK, Session, InvClosing, InvCached, Whole, InvKeys, InvDown, Checking, Building
    <2>9. InvDown'
      BY <1>o, <1>s, <2>p, ProtectedPlaces, <1>2, <2>t DEF TypeOK, Session, InvDown
    <2> QED BY <2>t, <2>1, <2>2, <2>3, <2>4, <2>5, <2>6, <2>7, <2>8, <2>9
  <1> QED BY <1>1, <1>2 DEF LogoutRest, Goto, Return, Answers, Fails

\* and then its SOAP half
LEMMA DropVimStep ==
    ASSUME IInv, NEW w \in Workers, DropVim(w)
    PROVE  IInv'
  <1> USE DEF IInv, Inv, vcVars, history
  <1>f. failures' \in 0 .. MaxFailures
    BY FailuresType DEF DropVim
  <1>o. \A v \in Workers : v # w => pc[v] \notin Protected
    BY Alone, ProtectedPlaces DEF DropVim
  <1>s. sess[w] \in Session
    BY AtWork DEF DropVim, Checking, Building
  <1>1. ASSUME pc[w] = "dropVim",
               pc' = [pc EXCEPT ![w] = "idle"],
               mutex' = mutex \ {w} /\ sess' = [sess EXCEPT ![w] = 0],
               vim' = vim \ {sess[w]} /\ lost' = lost,
               UNCHANGED <<key, found, cache, keyOf, rest, opened, doubted, expired, hung, down>>
        PROVE  IInv'
    <2>p. /\ pc'[w] = "idle"
          /\ \A v \in Workers : v # w => pc'[v] = pc[v] /\ pc'[v] \notin Protected
      BY <1>o, <1>1 DEF TypeOK
    <2>t. TypeOK'
      <3>1. sess' \in [Workers -> 0 .. MaxSessions]
        BY <1>1, SessionAssumption DEF SessionAssumption, TypeOK
      <3>2. pc' \in [Workers -> Places] /\ mutex' \subseteq Workers
        BY <1>1 DEF TypeOK, Places
      <3>3. vim' \subseteq Session /\ lost' \subseteq Session
        BY <1>1, <1>s DEF TypeOK
      <3> QED BY <1>f, <1>1, <3>1, <3>2, <3>3 DEF TypeOK
    <2>1. InvMutex'
      BY <1>o, <1>s, <2>p, ProtectedPlaces, <1>1, <2>t DEF TypeOK, Session, InvMutex, Checking, Building
    <2>2. InvOpened'
      BY <1>o, <1>s, <2>p, ProtectedPlaces, <1>1, <2>t DEF TypeOK, Session, InvOpened
    <2>3. InvKeys'
      BY <1>o, <1>s, <2>p, ProtectedPlaces, <1>1, <2>t DEF TypeOK, Session, InvKeys, InvOpened, Checking, Building
    <2>4. InvClosed'
      BY <1>o, <1>s, <2>p, ProtectedPlaces, <1>1, <2>t DEF TypeOK, Session, InvClosed, InvKeys, InvOpened, RestClosed, Closed, Checking, Building
    <2>5. InvHeld'
      BY <1>o, <1>s, <2>p, ProtectedPlaces, <1>1, <2>t DEF TypeOK, Session, InvHeld, InvKeys, InvOpened, InvClosed, RestClosed, Closed, Checking, Building
    <2>6. InvCached'
      BY <1>o, <1>s, <2>p, ProtectedPlaces, <1>1, <2>t DEF TypeOK, Session, InvCached, InvClosing, InvBuilding, Whole, InvKeys, InvOpened, InvDown, Checking, Building
    <2>7. InvBuilding'
      BY <1>o, <1>s, <2>p, ProtectedPlaces, <1>1, <2>t DEF TypeOK, Session, InvBuilding, Whole, InvKeys, InvOpened, Checking, Building
    <2>8. InvClosing'
      BY <1>o, <1>s, <2>p, ProtectedPlaces, <1>1, <2>t DEF TypeOK, Session, InvClosing, InvCached, Whole, InvKeys, InvDown, Checking, Building
    <2>9. InvDown'
      BY <1>o, <1>s, <2>p, ProtectedPlaces, <1>1, <2>t DEF TypeOK, Session, InvDown
    <2> QED BY <2>t, <2>1, <2>2, <2>3, <2>4, <2>5, <2>6, <2>7, <2>8, <2>9
  <1>2. ASSUME pc[w] = "dropVim",
               pc' = [pc EXCEPT ![w] = "idle"],
               mutex' = mutex \ {w} /\ sess' = [sess EXCEPT ![w] = 0],
               vim' = vim /\ lost' = lost \cup {sess[w]},
               UNCHANGED <<key, found, cache, keyOf, rest, opened, doubted, expired, hung, down>>
        PROVE  IInv'
    <2>p. /\ pc'[w] = "idle"
          /\ \A v \in Workers : v # w => pc'[v] = pc[v] /\ pc'[v] \notin Protected
      BY <1>o, <1>2 DEF TypeOK
    <2>t. TypeOK'
      <3>1. sess' \in [Workers -> 0 .. MaxSessions]
        BY <1>2, SessionAssumption DEF SessionAssumption, TypeOK
      <3>2. pc' \in [Workers -> Places] /\ mutex' \subseteq Workers
        BY <1>2 DEF TypeOK, Places
      <3>3. vim' \subseteq Session /\ lost' \subseteq Session
        BY <1>2, <1>s DEF TypeOK
      <3> QED BY <1>f, <1>2, <3>1, <3>2, <3>3 DEF TypeOK
    <2>1. InvMutex'
      BY <1>o, <1>s, <2>p, ProtectedPlaces, <1>2, <2>t DEF TypeOK, Session, InvMutex, Checking, Building
    <2>2. InvOpened'
      BY <1>o, <1>s, <2>p, ProtectedPlaces, <1>2, <2>t DEF TypeOK, Session, InvOpened
    <2>3. InvKeys'
      BY <1>o, <1>s, <2>p, ProtectedPlaces, <1>2, <2>t DEF TypeOK, Session, InvKeys, InvOpened, Checking, Building
    <2>4. InvClosed'
      BY <1>o, <1>s, <2>p, ProtectedPlaces, <1>2, <2>t DEF TypeOK, Session, InvClosed, InvKeys, InvOpened, RestClosed, Closed, Checking, Building
    <2>5. InvHeld'
      BY <1>o, <1>s, <2>p, ProtectedPlaces, <1>2, <2>t DEF TypeOK, Session, InvHeld, InvKeys, InvOpened, InvClosed, RestClosed, Closed, Checking, Building
    <2>6. InvCached'
      BY <1>o, <1>s, <2>p, ProtectedPlaces, <1>2, <2>t DEF TypeOK, Session, InvCached, InvClosing, InvBuilding, Whole, InvKeys, InvOpened, InvDown, Checking, Building
    <2>7. InvBuilding'
      BY <1>o, <1>s, <2>p, ProtectedPlaces, <1>2, <2>t DEF TypeOK, Session, InvBuilding, Whole, InvKeys, InvOpened, Checking, Building
    <2>8. InvClosing'
      BY <1>o, <1>s, <2>p, ProtectedPlaces, <1>2, <2>t DEF TypeOK, Session, InvClosing, InvCached, Whole, InvKeys, InvDown, Checking, Building
    <2>9. InvDown'
      BY <1>o, <1>s, <2>p, ProtectedPlaces, <1>2, <2>t DEF TypeOK, Session, InvDown
    <2> QED BY <2>t, <2>1, <2>2, <2>3, <2>4, <2>5, <2>6, <2>7, <2>8, <2>9
  <1> QED BY <1>1, <1>2 DEF DropVim, Goto, Return, Answers, Fails

\* The end of a reconcile concerns no session
LEMMA DoneStep ==
    ASSUME IInv, NEW w \in Workers, Done(w)
    PROVE  IInv'
  <1> USE DEF IInv, Inv, vcVars, history
  <1>f. failures' \in 0 .. MaxFailures
    BY DEF TypeOK, Done
  <1>1. ASSUME pc[w] = "using",
               pc' = [pc EXCEPT ![w] = "idle"],
               sess' = [sess EXCEPT ![w] = 0],
               UNCHANGED <<mutex, key, found, cache, vcVars, history, hung, failures, down>>
        PROVE  IInv'
    <2>t. TypeOK'
      BY <1>f, <1>1, SessionAssumption DEF SessionAssumption, TypeOK, Session, Places, Building, Checking
    <2>1. InvMutex'
      BY ProtectedPlaces, <1>1, <2>t DEF TypeOK, Session, InvMutex, Checking, Building
    <2>2. InvOpened'
      BY ProtectedPlaces, <1>1, <2>t DEF TypeOK, Session, InvOpened
    <2>3. InvKeys'
      BY ProtectedPlaces, <1>1, <2>t DEF TypeOK, Session, InvKeys, InvOpened, InvMutex, Checking, Building
    <2>4. InvClosed'
      BY ProtectedPlaces, <1>1, <2>t DEF TypeOK, Session, InvClosed, InvKeys, InvOpened, InvMutex, RestClosed, Closed, Checking, Building
    <2>5. InvHeld'
      BY ProtectedPlaces, <1>1, <2>t DEF TypeOK, Session, InvHeld, InvKeys, InvOpened, InvMutex, InvClosed, RestClosed, Closed, Checking, Building
    <2>6. InvCached'
      BY ProtectedPlaces, <1>1, <2>t DEF TypeOK, Session, InvCached, InvClosing, InvBuilding, Whole, InvKeys, InvOpened, InvMutex, InvDown, Checking, Building
    <2>7. InvBuilding'
      BY ProtectedPlaces, <1>1, <2>t DEF TypeOK, Session, InvBuilding, Whole, InvKeys, InvOpened, InvMutex, Checking, Building
    <2>8. InvClosing'
      BY ProtectedPlaces, <1>1, <2>t DEF TypeOK, Session, InvClosing, InvCached, Whole, InvKeys, InvMutex, InvDown, Checking, Building
    <2>9. InvDown'
      BY ProtectedPlaces, <1>1, <2>t DEF TypeOK, Session, InvDown
    <2> QED BY <2>t, <2>1, <2>2, <2>3, <2>4, <2>5, <2>6, <2>7, <2>8, <2>9
  <1> QED BY <1>1 DEF Done, Goto, Return, Answers, Fails

\* An expired half only shrinks the open ones, and is on record
LEMMA ExpireStep ==
    ASSUME IInv, NEW s \in Session, Expire(s)
    PROVE  IInv'
  <1> USE DEF IInv, Inv, workVars
  <1>1. /\ UNCHANGED <<mutex, pc, key, sess, found, cache, keyOf, opened, lost, doubted, hung, down>>
        /\ vim' \subseteq vim /\ rest' \subseteq rest
        /\ \A u \in vim \cup rest : u \in vim' \cap rest' \/ u = s \/ u \notin vim \cap rest
        /\ vim \ vim' \subseteq {s} /\ rest \ rest' \subseteq {s}
        /\ expired' = expired \cup {s}
    BY DEF Expire
  <1>f. failures' \in 0 .. MaxFailures
    BY SessionAssumption DEF SessionAssumption, Expire, TypeOK
  <1>t. TypeOK'
    BY <1>1, <1>f DEF TypeOK
  <1>2. InvMutex' /\ InvOpened' /\ InvKeys' /\ InvClosed' /\ InvDown'
    BY <1>1 DEF InvMutex, InvOpened, InvKeys, InvClosed, InvDown, RestClosed, Closed
  <1>3. InvHeld'
    BY <1>1 DEF InvHeld
  <1>4. InvCached' /\ InvBuilding' /\ InvClosing'
    BY <1>1 DEF InvCached, InvBuilding, InvClosing, Whole
  <1> QED BY <1>t, <1>2, <1>3, <1>4

\* A server that hangs concerns no session
LEMMA HangStep ==
    ASSUME IInv, NEW v \in Servers, Hang(v)
    PROVE  IInv'
  <1> USE DEF IInv, Inv, workVars, vcVars, history, Hang
  <1>t. TypeOK'
    BY DEF TypeOK
  <1>1. InvMutex' /\ InvOpened' /\ InvKeys' /\ InvClosed' /\ InvDown'
    BY DEF InvMutex, InvOpened, InvKeys, InvClosed, InvDown, RestClosed, Closed
  <1>2. InvHeld' /\ InvCached' /\ InvBuilding' /\ InvClosing'
    BY DEF InvHeld, InvCached, InvBuilding, InvClosing, Whole
  <1> QED BY <1>t, <1>1, <1>2

\* When the manager ends no worker is left
LEMMA ClearStep ==
    ASSUME IInv, Clear
    PROVE  IInv'
  <1> USE DEF IInv, Inv, workVars
  <1>1. PICK failed \in SUBSET ({ cache[k] : k \in Keys } \ {0}) :
          /\ failures + Cardinality(failed) <= MaxFailures
          /\ failures' = failures + Cardinality(failed)
          /\ vim' = { s \in vim : cache[keyOf[s]] = s => s \in failed }
          /\ lost' = lost \cup failed
    BY DEF Clear
  <1>2. /\ UNCHANGED <<mutex, pc, key, sess, found, cache, keyOf, rest, opened, doubted, expired, hung>>
        /\ down' = TRUE /\ \A w \in Workers : pc[w] = "idle"
    BY DEF Clear
  <1>3. failed \subseteq Session
    BY SessionAssumption DEF SessionAssumption, TypeOK, Session
  <1>4. Cardinality(failed) \in Nat
    <2>1. IsFiniteSet(Session)
      BY SessionAssumption, FS_Interval DEF SessionAssumption, Session
    <2> QED BY <2>1, <1>3, FS_Subset, FS_CardinalityType
  <1>f. failures' \in 0 .. MaxFailures
    BY <1>1, <1>4, SessionAssumption DEF SessionAssumption, TypeOK
  <1>t. TypeOK'
    BY <1>1, <1>2, <1>3, <1>f DEF TypeOK
  <1>5. InvMutex' /\ InvOpened' /\ InvKeys' /\ InvClosed' /\ InvDown'
    BY <1>1, <1>2 DEF InvMutex, InvOpened, InvKeys, InvClosed, InvDown, RestClosed, Closed,
                      Checking, Building
  <1>6. InvHeld' /\ InvCached' /\ InvBuilding' /\ InvClosing'
    BY <1>1, <1>2 DEF InvHeld, InvCached, InvBuilding, InvClosing, Whole
  <1> QED BY <1>t, <1>5, <1>6

\* At first nothing is open
LEMMA InitInv == Init => IInv
  <1> SUFFICES ASSUME Init PROVE IInv
    OBVIOUS
  <1>1. TypeOK
    <2>1. PICK first \in Keys : first = CHOOSE k \in Keys : TRUE
      BY SessionAssumption DEF SessionAssumption
    <2>2. key \in [Workers -> Keys] /\ keyOf \in [Session -> Keys]
      BY <2>1 DEF Init
    <2>3. pc \in [Workers -> Places]
      BY DEF Init, Places
    <2>4. sess \in [Workers -> 0 .. MaxSessions] /\ cache \in [Keys -> 0 .. MaxSessions]
      BY SessionAssumption DEF SessionAssumption, Init
    <2>5. found \in [Workers -> BOOLEAN] /\ down \in BOOLEAN
      BY DEF Init
    <2>6. opened \in 0 .. MaxSessions /\ failures \in 0 .. MaxFailures
      BY SessionAssumption DEF SessionAssumption, Init
    <2> QED BY <2>2, <2>3, <2>4, <2>5, <2>6 DEF Init, TypeOK
  <1>2. InvMutex /\ InvOpened /\ InvKeys /\ InvClosed /\ InvDown
    BY ProtectedPlaces DEF Init, InvMutex, InvOpened, InvKeys, InvClosed, InvDown, Checking, Building
  <1>3. InvHeld /\ InvCached /\ InvBuilding /\ InvClosing
    BY DEF Init, InvHeld, InvCached, InvBuilding, InvClosing
  <1> QED BY <1>1, <1>2, <1>3 DEF IInv, Inv

\* The invariant is inductive, one lemma for each action
LEMMA StepInv == IInv /\ [Next]_vars => IInv'
  <1> SUFFICES ASSUME IInv, [Next]_vars PROVE IInv'
    OBVIOUS
  <1>1. CASE UNCHANGED vars
    <2> USE <1>1 DEF IInv, Inv, vars, workVars, vcVars, history
    <2>1. TypeOK'
      BY DEF TypeOK
    <2>2. InvMutex' /\ InvOpened' /\ InvKeys' /\ InvClosed' /\ InvDown'
      BY DEF InvMutex, InvOpened, InvKeys, InvClosed, InvDown, RestClosed, Closed
    <2>3. InvHeld' /\ InvCached' /\ InvBuilding' /\ InvClosing'
      BY DEF InvHeld, InvCached, InvBuilding, InvClosing, Whole
    <2> QED BY <2>1, <2>2, <2>3
  <1>2. CASE \E w \in Workers : Call(w) \/ Lock(w) \/ GetOrCreate(w) \/ Done(w)
    BY <1>2, CallStep, LockStep, DoneStep, CheckVimStep, CheckRestStep, LogoutRestStep,
       LogoutVimStep, LoginStep, LoginRestStep, StoreStep, DropRestStep, DropVimStep DEF GetOrCreate
  <1>3. CASE \E s \in Session : Expire(s)
    BY <1>3, ExpireStep
  <1>4. CASE \E v \in Servers : Hang(v)
    BY <1>4, HangStep
  <1>5. CASE Clear
    BY <1>5, ClearStep
  <1> QED BY <1>1, <1>2, <1>3, <1>4, <1>5 DEF Next

\* Two open sessions of a key: one of them was to be closed, and was not
LEMMA Serialised == IInv => OneSessionPerKey
  <1> SUFFICES ASSUME IInv, NEW s \in vim, NEW t \in vim, keyOf[s] = keyOf[t],
                      s \notin lost, t \notin lost
               PROVE  s = t
    BY DEF OneSessionPerKey
  <1> USE DEF IInv, Inv
  <1>1. ASSUME NEW u \in {s, t}, NEW w \in Workers, sess[w] = u, pc[w] \in Building
        PROVE  cache[keyOf[u]] \notin {s, t} /\ key[w] = keyOf[u]
    <2>1. keyOf[u] = key[w] /\ Closed(cache[key[w]])
      BY <1>1 DEF InvKeys, InvClosed
    <2> QED BY <2>1, <1>1 DEF Closed
  <1>2. \A u \in {s, t} : cache[keyOf[u]] = u \/ \E w \in Workers : sess[w] = u /\ pc[w] \in Building
    BY DEF InvHeld
  <1>3. CASE cache[keyOf[s]] = s
    BY <1>1, <1>2, <1>3
  <1>4. CASE \E w \in Workers : sess[w] = s /\ pc[w] \in Building
    <2>1. PICK w \in Workers : sess[w] = s /\ pc[w] \in Building
      BY <1>4
    <2>2. cache[keyOf[t]] # t
      BY <2>1, <1>1
    <2>3. PICK v \in Workers : sess[v] = t /\ pc[v] \in Building
      BY <2>2, <1>2
    <2>4. v = w
      BY <2>1, <2>3, ProtectedPlaces DEF InvMutex, Building
    <2> QED BY <2>1, <2>3, <2>4
  <1> QED BY <1>2, <1>3, <1>4

\* After Clear the SOAP halves are closed, but for those whose logout failed
Cleared == down => vim \subseteq lost

\* Clear closes them, and nobody opens another
LEMMA ClearedStep == IInv /\ Cleared /\ [Next]_vars => Cleared'
  <1> SUFFICES ASSUME IInv, Cleared, [Next]_vars PROVE Cleared'
    OBVIOUS
  <1> USE DEF IInv, Inv, Cleared
  <1>1. CASE UNCHANGED vars
    BY <1>1 DEF vars, vcVars, history
  <1>2. CASE \E w \in Workers : Call(w) \/ Lock(w) \/ GetOrCreate(w) \/ Done(w)
    <2>1. ~down
      BY <1>2 DEF InvDown, Call, Lock, GetOrCreate, Done, CheckVim, CheckRest, LogoutRest,
                  LogoutVim, Login, LoginRest, Store, DropVim
    <2>2. down' = down
      BY <1>2 DEF Call, Lock, GetOrCreate, Done, CheckVim, CheckRest, LogoutRest,
                  LogoutVim, Login, LoginRest, Store, DropVim
    <2> QED BY <2>1, <2>2
  <1>3. CASE \E s \in Session : Expire(s)
    BY <1>3 DEF Expire
  <1>4. CASE \E v \in Servers : Hang(v)
    BY <1>4 DEF Hang, vcVars, history
  <1>5. CASE Clear
    <2>1. PICK failed \in SUBSET ({ cache[k] : k \in Keys } \ {0}) :
            /\ vim' = { s \in vim : cache[keyOf[s]] = s => s \in failed }
            /\ lost' = lost \cup failed
      BY <1>5 DEF Clear
    <2>2. \A w \in Workers : pc[w] \notin Building
      BY <1>5 DEF Clear, Building
    <2>3. \A s \in vim : cache[keyOf[s]] = s \/ s \in lost
      BY <2>2 DEF InvHeld
    <2> QED BY <2>1, <2>3
  <1> QED BY <1>1, <1>2, <1>3, <1>4, <1>5 DEF Next

\* GetOrCreate never leaves half a session behind, on none of its returns, and
\* after Clear no SOAP half is left (session.go:98-225, 281).
THEOREM NothingLeaks == Spec => []NoLeak
  <1>1. IInv /\ Cleared => NoLeak
    BY DEF IInv, Inv, InvHeld, Cleared, NoLeak
  <1>2. Init => Cleared
    BY DEF Init, Cleared
  <1> QED BY <1>1, <1>2, InitInv, StepInv, ClearedStep, PTL DEF Spec

\* With any number of workers, a key of the cache has one open session.
THEOREM OneSession == Spec => []OneSessionPerKey
  <1> QED BY InitInv, StepInv, Serialised, PTL DEF Spec

\* Whoever closes a half closes one of a session that is broken or was not
\* verified, or of one that never was in the cache.
LEMMA StepKeeps ==
    ASSUME IInv, Next
    PROVE  \A s \in (vim \cap rest) \ (vim' \cap rest') :
             \/ s \in doubted \cup expired' \/ down'
             \/ \E w \in Workers : pc[w] \in Building /\ sess[w] = s
  <1> SUFFICES ASSUME NEW s \in vim, s \in rest, s \notin vim' \/ s \notin rest'
               PROVE  \/ s \in doubted \cup expired' \/ down'
                      \/ \E w \in Workers : pc[w] \in Building /\ sess[w] = s
    OBVIOUS
  <1>1. CASE \E w \in Workers : \/ LogoutRest(w, "logoutRest", "logoutVim") \/ LogoutVim(w)
    <2>1. PICK w \in Workers : pc[w] \in {"logoutRest", "logoutVim"} /\ sess[w] = s
      BY <1>1 DEF LogoutRest, LogoutVim
    <2>2. sess[w] \in expired \cup doubted /\ UNCHANGED expired
      BY <1>1, <2>1 DEF IInv, Inv, InvClosing, LogoutRest, LogoutVim
    <2> QED BY <2>1, <2>2
  <1>2. CASE \E w \in Workers : LogoutRest(w, "dropRest", "dropVim") \/ DropVim(w)
    BY <1>2 DEF LogoutRest, DropVim, Building
  <1>3. CASE \E u \in Session : Expire(u)
    BY <1>3 DEF Expire
  <1>4. CASE Clear
    BY <1>4 DEF Clear
  <1>5. CASE \E w \in Workers : \/ Call(w) \/ Lock(w) \/ Done(w) \/ CheckVim(w) \/ CheckRest(w)
                                \/ Login(w) \/ LoginRest(w) \/ Store(w)
    BY <1>5 DEF Call, Lock, Done, CheckVim, CheckRest, Login, LoginRest, Store, vcVars
  <1>6. CASE \E v \in Servers : Hang(v)
    BY <1>6 DEF Hang, vcVars
  <1> QED BY <1>1, <1>2, <1>3, <1>4, <1>5, <1>6 DEF Next, GetOrCreate

\* A worker never closes a session that others use while vCenter keeps it open
\* and answers the checks.
THEOREM SharedSessionStays == Spec => SharedSessionKept
  <1>1. IInv /\ [Next]_vars => [\A s \in (vim \cap rest) \ (vim' \cap rest') :
         s \in doubted \cup expired' \/ down' \/ (\E w \in Workers : pc[w] \in Building /\ sess[w] = s)]_vars
    BY StepKeeps
  <1> QED BY <1>1, InitInv, StepInv, PTL DEF Spec, SharedSessionKept
=============================================================================
