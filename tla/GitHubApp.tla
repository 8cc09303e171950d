------------------------------ MODULE GitHubApp ------------------------------
(* AppClient: installation tokens, minted at GitHub and cached per repository  *)
(* and permission set, for several goroutines of the API (reports that set a   *)
(* status, polls that need a clone token), with time passing.                  *)
EXTENDS Naturals

CONSTANTS Repos,
          Callers,       \* goroutines that ask for tokens
          Lifetime,      \* how long GitHub lets a token live
          Margin,        \* how much earlier the cache drops it (two minutes)
          MaxUse,        \* bound: how long a clone takes
          TokenAttempts, \* how often send tries
          Flaky,         \* may requests to GitHub fail?
          MaxInstalls,   \* bound: installations of the app on one repository
          MaxTime        \* bound: the clock

ASSUME AppAssumption ==
  /\ {Lifetime, Margin, MaxUse, TokenAttempts, MaxInstalls, MaxTime} \subseteq Nat
  /\ Margin < Lifetime /\ TokenAttempts > 0 /\ Flaky \in BOOLEAN

VARIABLES now,
          real,        \* at GitHub: the installation of each repository, 0 for none
          installs,    \* the cache of installation ids, 0 for no entry
          tokenPool,   \* the cache of tokens
          call         \* each caller's call of token

appVars == <<now, real, installs, tokenPool, call>>

\* SetStatus and CloneToken ask with different permissions.
Permissions == {"status", "clone"}
Tokens == [repo : Repos, perms : Permissions, expires : Nat]

Free == [pc |-> "idle", kind |-> "status", repo |-> CHOOSE r \in Repos : TRUE, id |-> 0,
         tries |-> 0, tok |-> {}, since |-> 0]

AppTypeOK ==
  /\ now \in 0..MaxTime
  /\ real \in [Repos -> 0..MaxInstalls] /\ installs \in [Repos -> 0..MaxInstalls]
  /\ \A e \in tokenPool : e.tok \in Tokens /\ e.until \in Nat
  /\ \A c \in Callers : /\ call[c].repo \in Repos /\ call[c].kind \in Permissions
                        /\ call[c].tries < TokenAttempts
                        /\ call[c].pc \in {"idle", "install", "find", "keep", "mint", "pool", "use"}
                        /\ call[c].pc \in {"keep", "mint"} => call[c].id # 0
                        /\ call[c].pc \in {"pool", "use"} <=> call[c].tok # {}

AppInit == /\ now = 0
           /\ real \in [Repos -> 0..1]
           /\ installs = [r \in Repos |-> 0] /\ tokenPool = {}
           /\ call = [c \in Callers |-> Free]

cache == <<installs, tokenPool>>

-----------------------------------------------------------------------------
(* token *)

\* Mutant: the cache key is the repository alone.
cacheKey_RepoOnly(kind, repo) == <<"token", repo>>

\* "status:"+repo and "clone:"+repo.
cacheKey(kind, repo) == <<kind, repo>>

\* The entry of the pool for a key, if it may still be given out.
Cached(key) == {e \in tokenPool : e.key = key /\ now < e.until}

\* token: a hit under the mutex is returned; a miss goes on to GitHub.
Ask(c, kind, repo) ==
  /\ call[c].pc = "idle"
  /\ LET key == cacheKey(kind, repo)
         asked == [Free EXCEPT !.kind = kind, !.repo = repo] IN
     \/ \E e \in Cached(key) :
          call' = [call EXCEPT ![c] = [asked EXCEPT !.pc = "use", !.tok = {e.tok}, !.since = now]]
     \/ /\ Cached(key) = {}
        /\ call' = [call EXCEPT ![c] = [asked EXCEPT !.pc = "install"]]
  /\ UNCHANGED <<now, real, cache>>

\* installationID: the cached id, kept for the lifetime of the process.
KnownInstall(c) ==
  /\ call[c].pc = "install"
  /\ LET id == installs[call[c].repo] IN
     call' = [call EXCEPT ![c].pc = IF id # 0 THEN "mint" ELSE "find", ![c].id = id]
  /\ UNCHANGED <<now, real, cache>>

\* GET /repos/.../installation; without an installation the call fails.
FindInstall(c) ==
  /\ call[c].pc = "find"
  /\ LET id == real[call[c].repo] IN
     call' = [call EXCEPT ![c] = IF id = 0 THEN Free
                                 ELSE [@ EXCEPT !.pc = "keep", !.id = id, !.tries = 0]]
  /\ UNCHANGED <<now, real, cache>>

KeepInstall(c) ==
  /\ call[c].pc = "keep"
  /\ installs' = [installs EXCEPT ![call[c].repo] = call[c].id]
  /\ call' = [call EXCEPT ![c].pc = "mint"]
  /\ UNCHANGED <<now, real, tokenPool>>

\* POST .../access_tokens; GitHub knows only the present installation.
Mint(c) ==
  /\ call[c].pc = "mint"
  /\ call' = [call EXCEPT ![c] =
       IF call[c].id # real[call[c].repo] THEN Free
       ELSE [@ EXCEPT !.pc = "pool", !.tries = 0,
                      !.tok = {[repo |-> call[c].repo, perms |-> call[c].kind,
                                 expires |-> now + Lifetime]}]]
  /\ UNCHANGED <<now, real, cache>>

\* send: a connection error, a 5xx or a 429 is retried, TokenAttempts in all.
TokenRequestFails(c) ==
  /\ Flaky /\ call[c].pc \in {"find", "mint"}
  /\ call' = IF call[c].tries + 1 < TokenAttempts THEN [call EXCEPT ![c].tries = @ + 1]
                                                  ELSE [call EXCEPT ![c] = Free]
  /\ UNCHANGED <<now, real, cache>>

\* Mutant: the cache keeps a token until it expires.
KeptUntil_Expiry(tok) == tok.expires

\* out.ExpiresAt.Add(-2 * time.Minute)
KeptUntil(tok) == tok.expires - Margin

\* The new token replaces the entry for its key, and is returned.
Pool(c) ==
  /\ call[c].pc = "pool"
  /\ LET key == cacheKey(call[c].kind, call[c].repo) IN
     tokenPool' = {e \in tokenPool : e.key # key}
                    \cup {[key |-> key, tok |-> tok, until |-> KeptUntil(tok)] : tok \in call[c].tok}
  /\ call' = [call EXCEPT ![c].pc = "use", ![c].since = now]
  /\ UNCHANGED <<now, real, installs>>

\* The status is posted, or the runner's clone ends.
Done(c) ==
  /\ call[c].pc = "use"
  /\ call' = [call EXCEPT ![c] = Free]
  /\ UNCHANGED <<now, real, cache>>

-----------------------------------------------------------------------------
(* The world *)

\* Time passes; a minted token is stored at once, and no use outlasts MaxUse.
Tick ==
  /\ now < MaxTime /\ now' = now + 1
  /\ \A c \in Callers : /\ call[c].pc # "pool"
                        /\ call[c].pc = "use" => now - call[c].since < MaxUse
  /\ UNCHANGED <<real, cache, call>>

\* The app is removed from a repository and installed again, under a new id.
Reinstall(r) ==
  /\ real[r] \in 1..(MaxInstalls - 1)
  /\ real' = [real EXCEPT ![r] = @ + 1]
  /\ UNCHANGED <<now, cache, call>>

CallStep(c) == \/ KnownInstall(c) \/ FindInstall(c) \/ KeepInstall(c) \/ Mint(c)
               \/ TokenRequestFails(c) \/ Pool(c) \/ Done(c)

AppNext == \/ \E c \in Callers : \/ CallStep(c)
                                 \/ \E k \in Permissions, r \in Repos : Ask(c, k, r)
           \/ Tick \/ \E r \in Repos : Reinstall(r)

\* A call under way goes on: every request has a timeout.
AppFairness == \A c \in Callers : WF_appVars(CallStep(c))

\* Somebody keeps asking for tokens of every repository.
KeepsAsking == \A r \in Repos, c \in Callers : WF_appVars(Ask(c, "clone", r))

AppSpec == AppInit /\ [][AppNext]_appVars /\ AppFairness

-----------------------------------------------------------------------------
(* Properties *)

\* app.go, token: "no token we mint carries more than its job requires"; whatever
\* other goroutines put into the cache, a caller gets a token for the repository
\* and the permissions it asked for.
TokenFits ==
  \A c \in Callers : \A tok \in call[c].tok :
    tok.repo = call[c].repo /\ tok.perms = call[c].kind

\* app.go, token: tokens are "refreshed two minutes early, so a token never expires
\* mid-clone".
NeverExpiresInUse ==
  \A c \in Callers : \A tok \in call[c].tok : call[c].pc = "use" => now < tok.expires

\* app.go, installationID: the lookup "self-corrects if an app is reinstalled", for
\* callers that go on asking and find no token in the cache.
SelfCorrects ==
  KeepsAsking => \A r \in Repos :
    (installs[r] \notin {0, real[r]} /\ Cached(<<"clone", r>>) = {}) ~> installs[r] = real[r]

=============================================================================
