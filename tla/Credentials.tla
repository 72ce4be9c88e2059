---------------------------- MODULE Credentials -----------------------------
(***************************************************************************)
(* soul/auth: the user and its copies, and the tokens: how they are        *)
(* stored, when they expire, and the requests that fetch them.             *)
(***************************************************************************)
EXTENDS Integers, Sequences, FiniteSets

(***************************************************************************)
(* sc::AuthManager (auth_manager.cpp): the user in memory, the token of    *)
(* network::Session and the copy in m_storage, written by calls that hold  *)
(* m_mutex only around m_userInfo; and the Permission registry.            *)
(*                                                                         *)
(* A step ends where a call releases m_mutex or has written one more of    *)
(* the three places.  m_mutex is recursive: init() and shutdown() hold it  *)
(* from beginning to end, over the calls they make.                        *)
(***************************************************************************)
CONSTANTS
    Callers,      \* threads that call the manager
    Users,        \* users the login validator accepts
    Permissions,  \* permission ids
    Roles         \* role names

ASSUME UsersAssumption == Users \cap {"none", "refreshed"} = {}

VARIABLES
    userInfo,     \* m_userInfo: whose it is, and its token
    authenticated,
    session,      \* the token in network::Session
    stored,       \* m_storage: the two halves saveAuthState() writes
    initialized,
    lock,         \* the caller that holds m_mutex between its steps, or "none"
    call,         \* what each caller is doing
    settled,      \* history: the last login or logout ran with no other call
    registered,   \* Permission::m_permissions
    granted       \* Permission::m_rolePermissions, of the registered roles

authVars == <<userInfo, authenticated, session, stored, initialized, lock, call, settled>>
permissionVars == <<registered, granted>>

NoUser == [user |-> "none", token |-> "none"]
Idle == [op |-> "none", at |-> "idle", info |-> NoUser, auth |-> FALSE, alone |-> TRUE]

AuthInit ==
    /\ userInfo = NoUser /\ authenticated = FALSE
    /\ session = "none" /\ stored = NoUser
    /\ initialized = FALSE /\ lock = "none"
    /\ call = [c \in Callers |-> Idle] /\ settled = TRUE

PermissionInit == registered = {} /\ granted = << >>

-----------------------------------------------------------------------------
CanLock(c) == lock \in {"none", c}
At(c, op, place) == call[c].op \in op /\ call[c].at = place

(* A call begins: it and the calls under way are no longer alone.          *)
Begin(c, rec) ==
    LET others == {d \in Callers \ {c} : call[d] # Idle}
    IN  /\ call' = [d \in Callers |->
                        IF d = c THEN [rec EXCEPT !.alone = (others = {})]
                        ELSE IF d \in others THEN [call[d] EXCEPT !.alone = FALSE]
                        ELSE call[d]]
        /\ settled' = (settled /\ others = {})

MoveTo(c, place) == call' = [call EXCEPT ![c].at = place]

(* A call ends; a login or a logout that ran alone settles the state.      *)
Finish(c) ==
    /\ call' = [call EXCEPT ![c] = Idle]
    /\ settled' = (settled \/ (call[c].alone /\ call[c].op \in {"login", "logout", "shutdown"}))

(* login(): the validator accepts the user; m_userInfo under the lock      *)
LoginCall(c, u) ==
    /\ call[c] = Idle /\ CanLock(c)
    /\ userInfo' = [user |-> u, token |-> u] /\ authenticated' = TRUE
    /\ Begin(c, [Idle EXCEPT !.op = "login", !.at = "session", !.info = userInfo'])
    /\ UNCHANGED <<session, stored, initialized, lock>>

(* logout(), also as called by shutdown(), which keeps the lock            *)
LogoutCall(c, op) ==
    /\ call[c] = Idle /\ CanLock(c)
    /\ userInfo' = NoUser /\ authenticated' = FALSE
    /\ lock' = (IF op = "shutdown" THEN c ELSE lock)
    /\ Begin(c, [Idle EXCEPT !.op = op, !.at = "save"])
    /\ UNCHANGED <<session, stored, initialized>>

(* refreshToken(): the refresh token is read under one lock ...            *)
RefreshCall(c) ==
    /\ call[c] = Idle /\ CanLock(c) /\ userInfo.user # "none"
    /\ Begin(c, [Idle EXCEPT !.op = "refresh", !.at = "set", !.info.token = "refreshed"])
    /\ UNCHANGED <<userInfo, authenticated, session, stored, initialized, lock>>

(* ... and the new token set under another                                 *)
RefreshSet(c) ==
    /\ At(c, {"refresh"}, "set") /\ CanLock(c)
    /\ userInfo' = [userInfo EXCEPT !.token = "refreshed"]
    /\ MoveTo(c, "session")
    /\ UNCHANGED <<authenticated, session, stored, initialized, lock, settled>>

(* Session::setToken() of login(), refreshToken() and loadAuthState()      *)
SessionSet(c) ==
    /\ At(c, {"login", "refresh", "init"}, "session")
    /\ session' = call[c].info.token
    /\ MoveTo(c, IF call[c].op = "init" THEN "end" ELSE "save")
    /\ UNCHANGED <<userInfo, authenticated, stored, initialized, lock, settled>>

(* saveAuthState(): a snapshot under the lock, then the keys one by one    *)
SaveSnapshot(c) ==
    /\ At(c, {"login", "logout", "refresh", "shutdown"}, "save") /\ CanLock(c)
    /\ call' = [call EXCEPT ![c] = [@ EXCEPT !.at = "put", !.info = userInfo, !.auth = authenticated]]
    /\ UNCHANGED <<userInfo, authenticated, session, stored, initialized, lock, settled>>

(* A mistaken SavePut: only a login is saved, nothing is removed *)
SavePutOnly(c) ==
    /\ At(c, {"login", "logout", "refresh", "shutdown"}, "put")
    /\ stored' = (IF call[c].auth THEN [stored EXCEPT !.token = call[c].info.token] ELSE stored)
    /\ MoveTo(c, "put2")
    /\ UNCHANGED <<userInfo, authenticated, session, initialized, lock, settled>>

SavePut(c) ==
    /\ At(c, {"login", "logout", "refresh", "shutdown"}, "put")
    /\ stored' = [stored EXCEPT !.token = IF call[c].auth THEN call[c].info.token ELSE "none"]
    /\ MoveTo(c, "put2")
    /\ UNCHANGED <<userInfo, authenticated, session, initialized, lock, settled>>

SavePutRest(c) ==
    /\ At(c, {"login", "logout", "refresh", "shutdown"}, "put2")
    /\ stored' = [stored EXCEPT !.user = IF call[c].auth THEN call[c].info.user ELSE "none"]
    /\ IF call[c].op \in {"login", "refresh"} THEN Finish(c)
       ELSE MoveTo(c, "clear") /\ UNCHANGED settled
    /\ UNCHANGED <<userInfo, authenticated, session, initialized, lock>>

(* Session::clear() at the end of logout(), and of shutdown()              *)
SessionClear(c) ==
    /\ At(c, {"logout", "shutdown"}, "clear")
    /\ session' = "none" /\ Finish(c)
    /\ lock' = (IF call[c].op = "shutdown" THEN "none" ELSE lock)
    /\ initialized' = (initialized /\ call[c].op # "shutdown")
    /\ UNCHANGED <<userInfo, authenticated, stored>>

(* init() and loadAuthState(): the token, then the other keys              *)
InitCall(c) ==
    /\ call[c] = Idle /\ lock = "none" /\ ~initialized
    /\ lock' = c
    /\ Begin(c, [Idle EXCEPT !.op = "init", !.info.token = stored.token,
                             !.at = IF stored.token = "none" THEN "end" ELSE "load"])
    /\ UNCHANGED <<userInfo, authenticated, session, stored, initialized>>

LoadRest(c) ==
    /\ At(c, {"init"}, "load")
    /\ userInfo' = [user |-> stored.user, token |-> call[c].info.token]
    /\ authenticated' = TRUE
    /\ MoveTo(c, "session")
    /\ UNCHANGED <<session, stored, initialized, lock, settled>>

InitEnd(c) ==
    /\ At(c, {"init"}, "end")
    /\ initialized' = TRUE /\ lock' = "none" /\ Finish(c)
    /\ UNCHANGED <<userInfo, authenticated, session, stored>>

AuthNext ==
    \E c \in Callers :
        \/ \E u \in Users : LoginCall(c, u)
        \/ LogoutCall(c, "logout") \/ LogoutCall(c, "shutdown")
        \/ RefreshCall(c) \/ RefreshSet(c) \/ SessionSet(c)
        \/ SaveSnapshot(c) \/ SavePut(c) \/ SavePutRest(c) \/ SessionClear(c)
        \/ InitCall(c) \/ LoadRest(c) \/ InitEnd(c)

AuthSpec == AuthInit /\ [][AuthNext]_authVars

-----------------------------------------------------------------------------
(* Permission: the registry of permission.cpp                              *)
RegisterPermission(p) == registered' = registered \cup {p} /\ UNCHANGED granted

RegisterRole(r, ps) ==
    /\ granted' = [x \in DOMAIN granted \cup {r} |->
                       IF x = r THEN ps \cap registered ELSE granted[x]]
    /\ UNCHANGED registered

Granted(r, p) == r \in DOMAIN granted /\ p \in granted[r]
GrantedAny(r, ps) == \E p \in ps : Granted(r, p)
GrantedAll(r, ps) == r \in DOMAIN granted /\ ps \subseteq granted[r]

PermissionNext ==
    \/ \E p \in Permissions : RegisterPermission(p)
    \/ \E r \in Roles, ps \in SUBSET Permissions : RegisterRole(r, ps)

PermissionSpec == PermissionInit /\ [][PermissionNext]_permissionVars

-----------------------------------------------------------------------------
(* Whatever calls overlap, isAuthenticated() never says yes without a      *)
(* token nor no with a user, since m_mutex covers the two together         *)
(* (auth_manager.cpp:69, :85).                                             *)
MemoryAgrees ==
    /\ authenticated => userInfo.token # "none"
    /\ ~ authenticated => userInfo.user = "none"

(* The three places are written outside m_mutex, so calls that overlap may *)
(* leave the session of one user and, from two saveAuthState(), the token  *)
(* of one with the name of another in the storage, which the next init()   *)
(* loads (auth_manager.cpp:198-223).  What holds is that this ends: once a *)
(* login or a logout has run with no other call under way the three places *)
(* agree, whatever overlapped before, until two calls overlap again.       *)
AuthAgrees ==
    settled /\ (\A c \in Callers : call[c] = Idle) =>
        /\ authenticated = (userInfo.user # "none")
        /\ session = userInfo.token
        /\ stored = userInfo

(* A role grants registered permissions only, and hasAnyPermission() and   *)
(* hasAllPermissions() agree with asking one by one (permission.cpp:16).   *)
GrantsRegistered ==
    \A r \in Roles :
        /\ \A p \in Permissions : Granted(r, p) => p \in registered
        /\ \A ps \in SUBSET Permissions :
               GrantedAll(r, ps) /\ ps # {} => GrantedAny(r, ps)

AuthSound == MemoryAgrees /\ AuthAgrees /\ GrantsRegistered

-----------------------------------------------------------------------------
(***************************************************************************)
(* sc::TokenManager (token_manager.cpp) over AesSecureStorage              *)
(* (secure_storage.h): encrypted entries kept in memory and written as a   *)
(* whole to tokens.dat, a key derived from a salt kept in a file of its    *)
(* own, and a process that may die at any time, also while it writes.      *)
(*                                                                         *)
(* A key is named by its salt; what was encrypted with another salt        *)
(* decrypts to "garbage", with no error.                                   *)
(***************************************************************************)
CONSTANTS
    Secrets,     \* token values
    MaxSalts     \* bound on the salts drawn

ASSUME SaltsAssumption == MaxSalts \in 0..4   \* the names of SaltName

Keys == {"access_token", "refresh_token"}

VARIABLES
    dir,         \* the storage directory exists
    salt,        \* the salt file, 0 when there is none
    drawn,       \* salts drawn so far
    key,         \* m_encryptionKey: "empty", "zeros", or a salt
    entries,     \* m_entries: for each key its secret and its salt, or None
    disk,        \* tokens.dat, likewise
    held,        \* TokenManager's m_token and m_refreshToken
    acked,       \* history: what the last store or remove of a key may have left
    spoiled      \* history: keys last stored without a salt file or a key, or
                 \* lost with the file, and not stored again

storageVars == <<dir, salt, drawn, key, entries, disk, acked, spoiled>>
tokenVars == <<storageVars, held>>

None == [secret |-> "none", salt |-> "none"]
NoEntries == [k \in Keys |-> None]
Lost == [k \in Keys |-> "none"]
EmptyKey == "empty"

IsOpen == key \notin {"empty", "zeros"}

TokensInit ==
    /\ dir \in BOOLEAN /\ salt = "none" /\ drawn = 0 /\ key = EmptyKey
    /\ entries = NoEntries /\ disk = NoEntries /\ held = Lost
    /\ acked = [k \in Keys |-> {"none"}] /\ spoiled = {}

SaltName(n) == <<"s1", "s2", "s3", "s4">>[n]

-----------------------------------------------------------------------------
(* A mistaken DeriveKey: the salt file is written and never read *)
DeriveKeyAnew ==
    /\ drawn < MaxSalts /\ drawn' = drawn + 1
    /\ key' = SaltName(drawn + 1)
    /\ salt' = (IF dir THEN key' ELSE salt)

(* deriveKey(): the salt file cannot be written before init() has made the *)
(* directory, which it does afterwards.                                    *)
DeriveKey ==
    IF salt # "none" THEN key' = salt /\ UNCHANGED <<salt, drawn>>
    ELSE /\ drawn < MaxSalts /\ drawn' = drawn + 1
         /\ key' = SaltName(drawn + 1)
         /\ salt' = (IF dir THEN key' ELSE salt)

(* init(): loadFromDisk() adds to what is in memory                        *)
OpenStorage ==
    /\ DeriveKey /\ dir' = TRUE
    /\ entries' = [k \in Keys |-> IF disk[k] # None THEN disk[k] ELSE entries[k]]
    /\ UNCHANGED <<disk, held, acked, spoiled>>

(* persistToDisk(): it may fail to open the file, and the process may die  *)
(* after the file was truncated and before it was written.                 *)
Persist(es, before, outcome) ==
    /\ entries' = (IF outcome = "torn" THEN NoEntries ELSE es)
    /\ key' = (IF outcome = "torn" THEN EmptyKey ELSE key)
    /\ disk' = (CASE outcome = "ok" -> es [] outcome = "error" -> before [] OTHER -> NoEntries)
    /\ outcome # "error" => dir

Outcomes == {"ok", "error", "torn"}

(* store() of the tokens ks, one after the other until one fails.  After   *)
(* shutdown(), which overwrites the key with zeros and leaves it there,    *)
(* the storage still looks open to store().                                *)
With(es, ks) == [k \in Keys |-> IF k \in ks THEN [secret |-> held[k], salt |-> key] ELSE es[k]]

StoreAll(ks, last, outcome) ==
    /\ key # EmptyKey
    /\ Persist(With(entries, ks), IF ks = {last} THEN disk ELSE With(entries, ks \ {last}), outcome)
    /\ acked' = [k \in Keys |-> IF k \notin ks THEN acked[k]
                                ELSE IF k = last /\ outcome # "ok" THEN acked[k] \cup {held[k]}
                                ELSE {held[k]}]
    /\ spoiled' = (IF outcome = "torn" \/ ~IsOpen THEN Keys
                    ELSE IF key # salt THEN spoiled \cup ks
                    ELSE spoiled \ (IF outcome = "ok" THEN ks ELSE ks \ {last}))
    /\ UNCHANGED <<dir, salt, drawn>>

(* remove() and clear() do not look at the key                             *)
RemoveSecrets(ks, outcome) ==
    /\ Persist([k \in Keys |-> IF k \in ks THEN None ELSE entries[k]], disk, outcome)
    /\ acked' = [k \in Keys |-> IF k \notin ks THEN acked[k]
                                ELSE IF outcome = "ok" THEN {"none"} ELSE acked[k] \cup {"none"}]
    /\ spoiled' = (CASE outcome = "error" -> spoiled
                      [] outcome = "ok" /\ IsOpen -> spoiled \ ks
                      [] OTHER -> Keys \ ks)
    /\ held' = (IF outcome = "torn" THEN Lost ELSE held)
    /\ UNCHANGED <<dir, salt, drawn>>

CloseStorage ==
    /\ key' = (IF key = EmptyKey THEN key ELSE "zeros")
    /\ entries' = NoEntries
    /\ UNCHANGED <<dir, salt, drawn, disk, held, acked, spoiled>>

Die ==
    /\ key' = EmptyKey /\ entries' = NoEntries /\ held' = Lost
    /\ UNCHANGED <<dir, salt, drawn, disk, acked, spoiled>>

(* decrypt() *)
Decrypted(e, k) == IF e = None THEN "none" ELSE IF e.salt = k THEN e.secret ELSE "garbage"

-----------------------------------------------------------------------------
(* TokenManager: setToken(), setRefreshToken(), and refresh(), which       *)
(* replaces the access token alone, when its callback succeeds             *)
SetHeld(k, v) == held' = [held EXCEPT ![k] = v] /\ UNCHANGED storageVars

Refresh(v) == held["refresh_token"] # "none" /\ SetHeld("access_token", v)

(* clear() leaves what is stored alone                                     *)
ClearHeld == held' = Lost /\ UNCHANGED storageVars

(* persistToken(): an empty token is skipped, and a failure ends it.       *)
PersistToken(outcome) ==
    LET full == {k \in Keys : held[k] # "none"}
    IN  \/ full # {} /\ StoreAll(full, IF full = Keys THEN "refresh_token" ELSE CHOOSE k \in full : TRUE, outcome)
        \/ full = Keys /\ outcome # "ok" /\ StoreAll({"access_token"}, "access_token", outcome)
        \/ full = {} /\ outcome = "ok" /\ UNCHANGED storageVars

PersistCall(outcome) ==
    /\ key # EmptyKey /\ PersistToken(outcome)
    /\ held' = (IF outcome = "torn" THEN Lost ELSE held)

(* shutdown() persists and clears, whatever became of the first            *)
ShutdownTokens(outcome) ==
    /\ IF key = EmptyKey THEN UNCHANGED storageVars ELSE PersistToken(outcome)
    /\ held' = Lost

(* restoreToken() *)
RestoreToken ==
    /\ key # EmptyKey
    /\ held' = [k \in Keys |->
                    IF entries[k] = None THEN held[k] ELSE Decrypted(entries[k], key)]
    /\ UNCHANGED storageVars

TokensNext ==
    \/ OpenStorage \/ CloseStorage \/ Die
    \/ \E o \in Outcomes :
           \/ RemoveSecrets(Keys, o) \/ \E k \in Keys : RemoveSecrets({k}, o)
           \/ PersistCall(o) \/ ShutdownTokens(o)
    \/ \E k \in Keys, v \in Secrets : SetHeld(k, v)
    \/ \E v \in Secrets : Refresh(v)
    \/ ClearHeld \/ RestoreToken

TokensSpec == TokensInit /\ [][TokensNext]_tokenVars

-----------------------------------------------------------------------------
(* What is on disk, and what is in memory while the storage is open, reads *)
(* back as what was last stored, through failed writes and restarts        *)
(* (secure_storage.h:113, :179, :318), but for a spoiled key: one stored   *)
(* by the very first start, whose salt is never written (:99, the run that *)
(* refutes RetrievesPlaintext), one stored or lost through a storage that  *)
(* is not open, and one lost with a file that was truncated when the       *)
(* process died.  A spoiled key is good again once it is stored or removed *)
(* on an open storage that has its salt file.                              *)
SecretsSurvive ==
    \A k \in Keys \ spoiled :
        /\ Decrypted(disk[k], salt) \in acked[k]
        /\ IsOpen => Decrypted(entries[k], key) \in acked[k]

(* secure_storage.h:56 promises the plain text or NotFound: retrieve() on  *)
(* an open storage never hands out anything else.                          *)
RetrievesPlaintext ==
    \A k \in Keys : IsOpen => Decrypted(entries[k], key) # "garbage"

-----------------------------------------------------------------------------
(***************************************************************************)
(* When sc::TokenManager takes its token for expired (token_manager.cpp).  *)
(* A JWT says so itself; of any other token the manager knows the moment   *)
(* it was set and a lifetime, which a JWT before it may have left behind.  *)
(* Time is in seconds.  exp and iat are 0 when the payload lacks them.     *)
(***************************************************************************)
CONSTANTS
    MaxClock,   \* bound on the time
    Lifetimes,  \* values of setExpiresIn()
    Ahead       \* thresholds of isTokenAboutToExpire()

ASSUME ExpiryAssumption == MaxClock \in Nat /\ Lifetimes \subseteq Int /\ Ahead \subseteq Nat

VARIABLES
    clock,
    bearer,     \* m_token: its kind, and the exp and iat inside it
    payload,    \* m_jwtPayload
    expiresIn,  \* m_expiresIn
    issued,     \* m_tokenIssueTime
    canRefresh, \* there are a refresh token and a callback
    lent,       \* history: m_expiresIn was left by a JWT, not by setExpiresIn()
    renewed     \* history: autoRefreshIfNeeded() was the last call, and succeeded

expiryVars == <<clock, bearer, payload, expiresIn, issued, canRefresh, lent, renewed>>

NoPayload == [exp |-> 0, iat |-> 0]
NoToken == [kind |-> "none", exp |-> 0, iat |-> 0]
Opaque == [kind |-> "opaque", exp |-> 0, iat |-> 0]

(* What an authorization server or a caller may hand over: an expiry that  *)
(* is past, and one without a time of issue, included                      *)
SomeTokens == {Opaque} \union
    {[kind |-> "jwt", exp |-> e, iat |-> i] : e \in 0..(MaxClock + 1), i \in {0, 1}}

ExpiryInit ==
    /\ clock = 1 /\ bearer = NoToken /\ payload = NoPayload
    /\ expiresIn = 0 /\ issued = 0 /\ canRefresh \in BOOLEAN
    /\ lent = FALSE /\ renewed = FALSE

(* A mistaken Parsed: a token that is no JWT leaves the payload of the last *)
ParsedIfJwt(t) == IF t.kind = "jwt" THEN [exp |-> t.exp, iat |-> t.iat] ELSE payload

(* parseJwtPayload() *)
Parsed(t) == IF t.kind = "jwt" THEN [exp |-> t.exp, iat |-> t.iat] ELSE NoPayload

(* setToken() and doParseJwtPayload(): the lifetime is replaced only by a  *)
(* payload with both times                                                 *)
TakeToken(t) ==
    LET p == Parsed(t)
        both == p.exp > 0 /\ p.iat > 0
    IN  /\ bearer' = t /\ payload' = p
        /\ expiresIn' = IF both THEN p.exp - p.iat ELSE expiresIn
        /\ issued' = IF both THEN p.iat ELSE clock
        /\ lent' = (both \/ lent)

IsTokenExpired ==
    IF payload.exp > 0 THEN clock >= payload.exp
    ELSE expiresIn > 0 /\ issued # 0 /\ clock >= issued + expiresIn

IsTokenAboutToExpire(threshold) ==
    IF payload.exp > 0 THEN payload.exp - clock <= threshold
    ELSE expiresIn > 0 /\ issued # 0 /\ issued + expiresIn - clock <= threshold

-----------------------------------------------------------------------------
SetToken(t) == TakeToken(t) /\ renewed' = FALSE /\ UNCHANGED <<clock, canRefresh>>

SetExpiresIn(n) ==
    /\ expiresIn' = n /\ lent' = FALSE /\ renewed' = FALSE
    /\ UNCHANGED <<clock, bearer, payload, issued, canRefresh>>

(* autoRefreshIfNeeded() and refresh(), whose callback answers with a      *)
(* token or fails                                                          *)
AutoRefresh(threshold, t) ==
    /\ \/ /\ IsTokenAboutToExpire(threshold) /\ canRefresh
          /\ TakeToken(t) /\ renewed' = TRUE
       \/ /\ renewed' = ~ IsTokenAboutToExpire(threshold)
          /\ UNCHANGED <<bearer, payload, expiresIn, issued, lent>>
    /\ UNCHANGED <<clock, canRefresh>>

ClearToken ==
    /\ bearer' = NoToken /\ payload' = NoPayload /\ expiresIn' = 0 /\ issued' = 0
    /\ canRefresh' = FALSE /\ lent' = FALSE /\ renewed' = FALSE /\ UNCHANGED clock

SetRefreshToken ==
    /\ ~ canRefresh /\ canRefresh' = TRUE /\ renewed' = FALSE
    /\ UNCHANGED <<clock, bearer, payload, expiresIn, issued, lent>>

TimeGoesOn ==
    /\ clock < MaxClock /\ clock' = clock + 1 /\ renewed' = FALSE
    /\ UNCHANGED <<bearer, payload, expiresIn, issued, canRefresh, lent>>

ExpiryNext ==
    \/ ClearToken \/ SetRefreshToken \/ TimeGoesOn
    \/ \E n \in Lifetimes : SetExpiresIn(n)
    \/ \E t \in SomeTokens : SetToken(t) \/ \E a \in Ahead : AutoRefresh(a, t)

ExpirySpec == ExpiryInit /\ [][ExpiryNext]_expiryVars

-----------------------------------------------------------------------------
(* A JWT with an expiry counts as expired from that second on and not      *)
(* before, whatever tokens and lifetimes came before it; an expired token  *)
(* is about to expire; and after a refresh the token is expired only if    *)
(* the server's was (token_manager.cpp:62-123).  A token without an expiry *)
(* is good when it has just been set, and later expires only by a lifetime *)
(* that setExpiresIn() gave or that a JWT before it left behind: setToken()*)
(* does not take the lifetime of the last token back (205-217), so an      *)
(* opaque token that nobody gave a lifetime may count as expired.          *)
ExpirySound ==
    /\ bearer.exp > 0 => (IsTokenExpired <=> clock >= bearer.exp)
    /\ (bearer.exp = 0 /\ issued = clock) => ~ IsTokenExpired
    /\ bearer.kind = "none" => ~ IsTokenExpired
    /\ bearer.exp = 0 /\ IsTokenExpired /\ ~ lent => expiresIn \in Lifetimes
    /\ \A a \in Ahead : IsTokenExpired => IsTokenAboutToExpire(a)
    /\ renewed /\ IsTokenExpired => bearer.exp > 0

(* A user in memory has a token, and its copies agree again after a login  *)
(* or logout that nothing overlapped; a secret that is not spoiled (see    *)
(* SecretsSurvive) outlives failed writes and restarts; and a JWT counts   *)
(* as expired from its second on, while another token may expire by the    *)
(* lifetime of the JWT before it (see ExpirySound).                        *)
CredentialsSound == AuthSound /\ SecretsSurvive /\ ExpirySound

-----------------------------------------------------------------------------
(***************************************************************************)
(* The requests of sc::auth that wait for their answer in an event loop of *)
(* their own: AuthorizationCodeFlow, ClientCredentialsFlow (oauth2.cpp)    *)
(* and OidcDiscoveryService (oidc.cpp).                                    *)
(*                                                                         *)
(* The loop delivers everything else meanwhile, so a handler may make the  *)
(* next request inside it.  Only the innermost call can return: the outer  *)
(* ones keep a note to quit, and what happens to their timers and replies  *)
(* is read when they are back on top.  Replies are told apart by what      *)
(* parseTokenResponse() and its like make of them.                         *)
(***************************************************************************)
CONSTANTS
    MaxInner,    \* bound on calls inside one another
    MaxTokens    \* bound on calls

ASSUME TokenFlowAssumption == MaxInner \in Nat \ {0} /\ MaxTokens \in Nat

(* The public calls, and what the answer must hold to be accepted:         *)
(* an access token, an issuer, a set of keys                               *)
Requests == {"exchange", "refresh", "credentials", "discover", "jwks"}
TokenRequests == {"exchange", "refresh", "credentials"}
Replies == {"pending", "complete", "incomplete", "garbled", "failed"}

VARIABLES
    waiting,   \* the calls in their loops, innermost last
    made,      \* calls so far
    last       \* how the last call ended, and whether a signal told of it

flowVars == <<waiting, made, last>>

FlowInit == waiting = <<>> /\ made = 0 /\ last = [outcome |-> "none", emitted |-> FALSE]

-----------------------------------------------------------------------------
(* An empty code, refresh token, issuer or address *)
RefuseEmpty ==
    /\ made < MaxTokens /\ made' = made + 1
    /\ last' = [outcome |-> "invalid", emitted |-> FALSE] /\ UNCHANGED waiting

(* httpPostSync() and httpGetJsonSync() up to loop.exec() *)
Request(kind) ==
    /\ made < MaxTokens /\ Len(waiting) < MaxInner /\ made' = made + 1
    /\ waiting' = Append(waiting, [kind |-> kind, reply |-> "pending", timer |-> TRUE, quit |-> FALSE])
    /\ UNCHANGED last

(* finished() or errorOccurred() of a reply *)
ReplyArrives(i, r) ==
    /\ waiting[i].reply = "pending" /\ r # "pending"
    /\ waiting' = [waiting EXCEPT ![i] = [@ EXCEPT !.reply = r, !.quit = TRUE]]
    /\ UNCHANGED <<made, last>>

(* A mistaken TimerFires: only the innermost loop is quit *)
TimerFiresInnermost(i) ==
    /\ waiting[i].timer
    /\ waiting' = [waiting EXCEPT ![i] = [@ EXCEPT !.timer = FALSE, !.quit = (i = Len(waiting)) \/ @]]
    /\ UNCHANGED <<made, last>>

(* The timer of a call, which runs on below other calls *)
TimerFires(i) ==
    /\ waiting[i].timer
    /\ waiting' = [waiting EXCEPT ![i] = [@ EXCEPT !.timer = FALSE, !.quit = TRUE]]
    /\ UNCHANGED <<made, last>>

(* The rest of httpPostSync() and httpGetJsonSync(): a timer that has      *)
(* fired counts, even if the answer came before it.                        *)
Waited(c) ==
    CASE ~ c.timer -> "timeout"
      [] c.timer /\ c.reply = "failed" -> "network"
      [] c.timer /\ c.reply = "garbled" -> "parse"
      [] OTHER -> "answer"

(* exchangeCodeForToken(), refreshToken() and requestToken() ask for an    *)
(* access token, discover() for an issuer, fetchJwks() for keys            *)
TokenOutcome(c) == IF Waited(c) = "answer" /\ c.reply = "incomplete" THEN "auth" ELSE Waited(c)
DiscoveryOutcome(c) == IF Waited(c) = "answer" /\ c.reply = "incomplete" THEN "parse" ELSE Waited(c)
KeysOutcome(c) == IF Waited(c) = "answer" /\ c.reply = "incomplete" THEN "parse" ELSE Waited(c)

(* Whoever waits for tokens and discoveries is told by a signal as well *)
Return ==
    LET c == waiting[Len(waiting)]
        o == IF c.kind \in TokenRequests THEN TokenOutcome(c)
             ELSE IF c.kind = "discover" THEN DiscoveryOutcome(c) ELSE KeysOutcome(c)
    IN /\ waiting # <<>> /\ c.quit
       /\ last' = [outcome |-> o, emitted |-> o = "answer" /\ c.kind # "jwks"]
       /\ waiting' = SubSeq(waiting, 1, Len(waiting) - 1) /\ UNCHANGED made

FlowNext ==
    \/ RefuseEmpty \/ Return
    \/ \E k \in Requests : Request(k)
    \/ \E i \in DOMAIN waiting : TimerFires(i) \/ \E r \in Replies : ReplyArrives(i, r)

(* A timer that runs fires, and a loop that was told to quit is left when  *)
(* the calls inside it have returned.                                      *)
FlowFairness ==
    /\ WF_flowVars(Return)
    /\ WF_flowVars(\E i \in DOMAIN waiting : TimerFires(i))

-----------------------------------------------------------------------------
(* However deep the calls are nested and whatever does not answer, every   *)
(* call returns (oauth2.cpp:58-66).                                        *)
FlowsReturn == []<>(waiting = <<>>)
=============================================================================
