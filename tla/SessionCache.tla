---------------------------- MODULE SessionCache ----------------------------
(***************************************************************************)
(* The cache of vCenter sessions (pkg/session/session.go) that all         *)
(* controllers share.  A session has two halves that are opened and closed *)
(* by separate calls: the SOAP session of the govmomi client and the REST  *)
(* session of the tag manager.                                             *)
(*                                                                         *)
(*  idle --Call--> call --Lock--> checkVim -> checkRest -> logoutRest      *)
(*     -> logoutVim -> login -> loginRest -> datacenter -> using -> idle   *)
(*                                                                         *)
(* From Lock until the function returns the worker holds the one mutex of  *)
(* the package, and every step in between is a call to a vCenter.  A key   *)
(* stands for server, datacenter, user and password hash.  Opening a       *)
(* session that cannot be completed closes the halves that were opened     *)
(* (dropRest, dropVim).                                                    *)
(***************************************************************************)
EXTENDS Naturals, FiniteSets

CONSTANTS
    Workers,        \* reconcile workers
    Keys,           \* session keys
    Servers,        \* vCenter servers
    ServerOf,       \* the server of a key
    MaxSessions,    \* sessions that may be opened
    MaxFailures,    \* calls that may fail, and sessions that may expire
    MaxHangs        \* servers that may stop to answer

ASSUME SessionAssumption ==
    /\ Keys # {}
    /\ ServerOf \in [Keys -> Servers]
    /\ MaxSessions \in Nat /\ MaxFailures \in Nat /\ MaxHangs \in Nat

VARIABLES
    mutex,      \* the workers between Lock and Unlock
    pc,         \* where a worker is
    key,        \* the key a worker asks for
    sess,       \* the session a worker checks, opens or uses; 0 is none
    found,      \* the worker found the SOAP half active
    cache,      \* sessionCache: the session of a key; 0 is none
    keyOf,      \* the key a session was opened for
    vim, rest,  \* the sessions whose SOAP and REST halves vCenter holds open
    opened,     \* number of sessions opened so far
    lost,       \* sessions for which a logout failed
    doubted,    \* sessions of which a check got no answer
    expired,    \* sessions that vCenter ended
    hung,       \* servers that do not answer any more
    failures,   \* calls that failed and sessions that expired
    down        \* the manager has stopped and called Clear

workVars == <<mutex, pc, key, sess, found>>
vcVars   == <<keyOf, vim, rest, opened>>
history  == <<lost, doubted, expired>>
vars     == <<workVars, cache, vcVars, history, hung, failures, down>>

Session   == 1 .. MaxSessions
Building  == {"loginRest", "datacenter", "dropRest", "dropVim"}
Places    == {"idle", "call", "checkVim", "checkRest", "logoutRest", "logoutVim",
              "login", "using"} \cup Building
Protected == Places \ {"idle", "call", "using"}

TypeOK ==
    /\ mutex \subseteq Workers
    /\ pc \in [Workers -> Places] /\ key \in [Workers -> Keys]
    /\ sess \in [Workers -> 0 .. MaxSessions] /\ found \in [Workers -> BOOLEAN]
    /\ cache \in [Keys -> 0 .. MaxSessions]
    /\ keyOf \in [Session -> Keys] /\ vim \subseteq Session /\ rest \subseteq Session
    /\ opened \in 0 .. MaxSessions
    /\ lost \subseteq Session /\ doubted \subseteq Session /\ expired \subseteq Session
    /\ hung \subseteq Servers /\ failures \in 0 .. MaxFailures /\ down \in BOOLEAN

Init ==
    /\ mutex = {} /\ pc = [w \in Workers |-> "idle"]
    /\ key = [w \in Workers |-> CHOOSE k \in Keys : TRUE]
    /\ sess = [w \in Workers |-> 0] /\ found = [w \in Workers |-> FALSE]
    /\ cache = [k \in Keys |-> 0]
    /\ keyOf = [s \in Session |-> CHOOSE k \in Keys : TRUE]
    /\ vim = {} /\ rest = {} /\ opened = 0
    /\ lost = {} /\ doubted = {} /\ expired = {} /\ hung = {} /\ failures = 0
    /\ down = FALSE

Goto(w, place) == pc' = [pc EXCEPT ![w] = place]

\* A call to the server of the worker's key is answered
Answers(w) == ServerOf[key[w]] \notin hung /\ UNCHANGED failures

\* It returns an error
Fails(w) ==
    /\ ServerOf[key[w]] \notin hung
    /\ failures < MaxFailures
    /\ failures' = failures + 1

\* The function returns: the deferred Unlock
Return(w, place) == Goto(w, place) /\ mutex' = mutex \ {w}

-----------------------------------------------------------------------------

\* A reconcile asks for the session of an object
Call(w) ==
    /\ pc[w] = "idle" /\ ~down
    /\ \E k \in Keys : key' = [key EXCEPT ![w] = k]
    /\ Goto(w, "call")
    /\ UNCHANGED <<mutex, sess, found, cache, vcVars, history, hung, failures, down>>

\* As Lock, with a mutex that is not waited for
LockShared(w) ==
    /\ pc[w] = "call"
    /\ mutex' = mutex \cup {w}
    /\ sess' = [sess EXCEPT ![w] = cache[key[w]]]
    /\ Goto(w, IF cache[key[w]] = 0 THEN "login" ELSE "checkVim")
    /\ UNCHANGED <<key, found, cache, vcVars, history, hung, failures, down>>

\* sessionMU.Lock and the lookup in the cache
Lock(w) ==
    /\ pc[w] = "call"
    /\ mutex = {}
    /\ mutex' = {w}
    /\ sess' = [sess EXCEPT ![w] = cache[key[w]]]
    /\ Goto(w, IF cache[key[w]] = 0 THEN "login" ELSE "checkVim")
    /\ UNCHANGED <<key, found, cache, vcVars, history, hung, failures, down>>

\* As CheckVim, with the answer dropped
CheckVimForgets(w) ==
    /\ pc[w] = "checkVim"
    /\ Answers(w)
    /\ found' = [found EXCEPT ![w] = FALSE]
    /\ Goto(w, "checkRest")
    /\ UNCHANGED <<mutex, key, sess, cache, vcVars, history, hung, down>>

\* SessionManager.UserSession; an error counts as an inactive session
CheckVim(w) ==
    /\ pc[w] = "checkVim"
    /\ \/ /\ Answers(w)
          /\ found' = [found EXCEPT ![w] = sess[w] \in vim]
          /\ UNCHANGED doubted
       \/ /\ Fails(w)
          /\ found' = [found EXCEPT ![w] = FALSE]
          /\ doubted' = doubted \cup {sess[w]}
    /\ Goto(w, "checkRest")
    /\ UNCHANGED <<mutex, key, sess, cache, vcVars, lost, expired, hung, down>>

\* TagManager.Session; the session is returned when both halves are active
CheckRest(w) ==
    /\ pc[w] = "checkRest"
    /\ \/ /\ Answers(w)
          /\ IF found[w] /\ sess[w] \in rest
             THEN Return(w, "using")
             ELSE Goto(w, "logoutRest") /\ UNCHANGED mutex
          /\ UNCHANGED doubted
       \/ /\ Fails(w)
          /\ doubted' = doubted \cup {sess[w]}
          /\ Goto(w, "logoutRest") /\ UNCHANGED mutex
    /\ UNCHANGED <<key, sess, found, cache, vcVars, lost, expired, hung, down>>

\* A logout closes one half; when the call fails, the half may stay open
LogoutRest(w, here, next) ==
    /\ pc[w] = here
    /\ \/ Answers(w) /\ rest' = rest \ {sess[w]} /\ UNCHANGED lost
       \/ Fails(w) /\ lost' = lost \cup {sess[w]} /\ UNCHANGED rest
    /\ Goto(w, next)
    /\ UNCHANGED <<mutex, key, sess, found, cache, keyOf, vim, opened, doubted, expired, hung, down>>

LogoutVim(w) ==
    /\ pc[w] = "logoutVim"
    /\ \/ Answers(w) /\ vim' = vim \ {sess[w]} /\ UNCHANGED lost
       \/ Fails(w) /\ lost' = lost \cup {sess[w]} /\ UNCHANGED vim
    /\ Goto(w, "login")
    /\ UNCHANGED <<mutex, key, sess, found, cache, keyOf, rest, opened, doubted, expired, hung, down>>

\* As Login, with an error path that keeps the mutex
LoginKeepsMutex(w) ==
    /\ pc[w] = "login"
    /\ \/ /\ Answers(w)
          /\ opened < MaxSessions
          /\ opened' = opened + 1
          /\ vim' = vim \cup {opened'}
          /\ keyOf' = [keyOf EXCEPT ![opened'] = key[w]]
          /\ sess' = [sess EXCEPT ![w] = opened']
          /\ Goto(w, "loginRest")
       \/ /\ Fails(w)
          /\ sess' = [sess EXCEPT ![w] = 0]
          /\ Goto(w, "idle")
          /\ UNCHANGED <<opened, vim, keyOf>>
    /\ UNCHANGED <<mutex, key, found, cache, rest, history, hung, down>>

\* newClient
Login(w) ==
    /\ pc[w] = "login"
    /\ \/ /\ Answers(w)
          /\ opened < MaxSessions
          /\ opened' = opened + 1
          /\ vim' = vim \cup {opened'}
          /\ keyOf' = [keyOf EXCEPT ![opened'] = key[w]]
          /\ sess' = [sess EXCEPT ![w] = opened']
          /\ Goto(w, "loginRest") /\ UNCHANGED mutex
       \/ /\ Fails(w)
          /\ sess' = [sess EXCEPT ![w] = 0]
          /\ Return(w, "idle")
          /\ UNCHANGED <<opened, vim, keyOf>>
    /\ UNCHANGED <<key, found, cache, rest, history, hung, down>>

\* As LoginRest, without the logout of the SOAP session
LoginRestLeaks(w) ==
    /\ pc[w] = "loginRest"
    /\ \/ Answers(w) /\ rest' = rest \cup {sess[w]} /\ Goto(w, "datacenter") /\ UNCHANGED <<mutex, sess>>
       \/ Fails(w) /\ Return(w, "idle") /\ sess' = [sess EXCEPT ![w] = 0] /\ UNCHANGED rest
    /\ UNCHANGED <<key, found, cache, keyOf, vim, opened, history, hung, down>>

\* newManager; without a REST session the SOAP session is closed again
LoginRest(w) ==
    /\ pc[w] = "loginRest"
    /\ \/ Answers(w) /\ rest' = rest \cup {sess[w]} /\ Goto(w, "datacenter")
       \/ Fails(w) /\ Goto(w, "dropVim") /\ UNCHANGED rest
    /\ UNCHANGED <<mutex, key, sess, found, cache, keyOf, vim, opened, history, hung, down>>

\* Finder.Datacenter, sessionCache.Store
Store(w) ==
    /\ pc[w] = "datacenter"
    /\ \/ /\ Answers(w)
          /\ cache' = [cache EXCEPT ![key[w]] = sess[w]]
          /\ Return(w, "using")
       \/ Fails(w) /\ Goto(w, "dropRest") /\ UNCHANGED <<cache, mutex>>
    /\ UNCHANGED <<key, sess, found, vcVars, history, hung, down>>

\* client.Logout of a session that is given up
DropVim(w) ==
    /\ pc[w] = "dropVim"
    /\ \/ Answers(w) /\ vim' = vim \ {sess[w]} /\ UNCHANGED lost
       \/ Fails(w) /\ lost' = lost \cup {sess[w]} /\ UNCHANGED vim
    /\ sess' = [sess EXCEPT ![w] = 0]
    /\ Return(w, "idle")
    /\ UNCHANGED <<key, found, cache, keyOf, rest, opened, doubted, expired, hung, down>>

\* The reconcile ends
Done(w) ==
    /\ pc[w] = "using"
    /\ sess' = [sess EXCEPT ![w] = 0]
    /\ Goto(w, "idle")
    /\ UNCHANGED <<mutex, key, found, cache, vcVars, history, hung, failures, down>>

\* vCenter ends a half that was idle for too long
Expire(s) ==
    /\ failures < MaxFailures /\ failures' = failures + 1
    /\ s \in vim \cup rest
    /\ \/ s \in vim /\ vim' = vim \ {s} /\ UNCHANGED rest
       \/ s \in rest /\ rest' = rest \ {s} /\ UNCHANGED vim
    /\ expired' = expired \cup {s}
    /\ UNCHANGED <<workVars, cache, keyOf, opened, lost, doubted, hung, down>>

\* A server stops to answer: calls to it neither return nor fail
Hang(v) ==
    /\ Cardinality(hung) < MaxHangs
    /\ v \notin hung
    /\ hung' = hung \cup {v}
    /\ UNCHANGED <<workVars, cache, vcVars, history, failures, down>>

\* Clear, when the manager has stopped its workers: the SOAP half of every
\* cached session is logged out, an error is ignored
Clear ==
    /\ \A w \in Workers : pc[w] = "idle"
    /\ ~down /\ down' = TRUE
    /\ hung = {}
    /\ \E failed \in SUBSET ({ cache[k] : k \in Keys } \ {0}) :
         /\ failures + Cardinality(failed) <= MaxFailures
         /\ failures' = failures + Cardinality(failed)
         /\ vim' = { s \in vim : cache[keyOf[s]] = s => s \in failed }
         /\ lost' = lost \cup failed
    /\ UNCHANGED <<workVars, cache, keyOf, rest, opened, doubted, expired, hung>>

-----------------------------------------------------------------------------

GetOrCreate(w) ==
    \/ CheckVim(w) \/ CheckRest(w)
    \/ LogoutRest(w, "logoutRest", "logoutVim") \/ LogoutVim(w)
    \/ Login(w) \/ LoginRest(w) \/ Store(w)
    \/ LogoutRest(w, "dropRest", "dropVim") \/ DropVim(w)

Next ==
    \/ \E w \in Workers : Call(w) \/ Lock(w) \/ GetOrCreate(w) \/ Done(w)
    \/ \E s \in Session : Expire(s)
    \/ \E v \in Servers : Hang(v)
    \/ Clear

\* A Go mutex does not starve a waiter; calls to a server that answers return
Fairness ==
    \A w \in Workers : WF_vars(GetOrCreate(w)) /\ SF_vars(Lock(w)) /\ WF_vars(Done(w))

Spec == Init /\ [][Next]_vars /\ Fairness

-----------------------------------------------------------------------------
(* Properties.                                                             *)

\* The mutex serialises GetOrCreate although each step of it is a network
\* call: a key has one open session, apart from those a logout failed for.
OneSessionPerKey ==
    \A s, t \in vim : keyOf[s] = keyOf[t] => s = t \/ s \in lost \/ t \in lost

\* No half of a session is left open on vCenter that nobody will close: it is
\* in the cache, or about to get there or to be closed, or its logout failed.
\* That covers every early return of GetOrCreate.  After Clear (session.go:281)
\* the cache is no excuse any more and no SOAP half is open but for a failed
\* logout.  Of the REST halves nothing is claimed then: Clear does not close
\* them, although it "is meant to destroy all the cached sessions".
NoLeak ==
    \A s \in vim \cup {r \in rest : ~down} :
        \/ ~down /\ cache[keyOf[s]] = s
        \/ \E w \in Workers : sess[w] = s /\ pc[w] \in Building
        \/ s \in lost

\* A session that others may be using is logged out only after vCenter ended
\* a half of it or a check of it got no answer.
SharedSessionKept ==
    [][\A s \in (vim \cap rest) \ (vim' \cap rest') :
         s \in doubted \cup expired' \/ down' \/ (\E w \in Workers : pc[w] \in Building /\ sess[w] = s)]_vars

\* Everyone waits for the mutex only as long as the vCenter of its holder
\* answers; a vCenter that does not answer stops the others with it.
WaitsForMutexOnly ==
    \A w \in Workers :
        pc[w] = "call" ~> \/ pc[w] # "call"
                          \/ \E v \in Workers : v \in mutex /\ ServerOf[key[v]] \in hung
                          \/ opened = MaxSessions
=============================================================================
