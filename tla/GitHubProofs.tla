---------------------------- MODULE GitHubProofs ----------------------------
(* The GitHub client: its token cache, for any number of callers, repositories *)
(* and installations, and the commit statuses it posts, for any number of jobs *)
(* and goroutines.                                                             *)
EXTENDS GitHubApp, CommitStatus, Integers, TLAPS

-----------------------------------------------------------------------------
(* Installation tokens: any lifetime, margin and number of attempts; requests  *)
(* may fail and apps may be reinstalled.                                       *)

Phases == {"idle", "install", "find", "keep", "mint", "pool", "use"}

\* Before its first call a goroutine has no repository.
Calls == [pc : Phases, kind : Permissions, repo : Repos \cup {Free.repo}, id : Nat, tries : Nat,
          tok : SUBSET Tokens, since : Nat]

CallTypes == /\ now \in Nat
             /\ real \in [Repos -> Nat] /\ installs \in [Repos -> Nat]
             /\ call \in [Callers -> Calls]
             /\ \A c \in Callers : call[c].pc # "idle" => call[c].repo \in Repos

\* An entry of the cache is a token for the entry's key, dropped Margin early.
PoolIsKeyed ==
  \A e \in tokenPool : /\ e.tok \in Tokens
                       /\ e.key = cacheKey(e.tok.perms, e.tok.repo)
                       /\ e.until = KeptUntil(e.tok)

\* A new token has its whole life before it; one that is given out had more than
\* Margin of it left when it was.
InHand ==
  \A c \in Callers : \A tok \in call[c].tok :
    /\ call[c].pc = "pool" => tok.expires = now + Lifetime
    /\ call[c].pc = "use" => /\ call[c].since + Margin < tok.expires
                             /\ call[c].since <= now /\ now <= call[c].since + MaxUse
    /\ call[c].pc \in {"pool", "use"}

AppInv == CallTypes /\ PoolIsKeyed /\ TokenFits /\ InHand

\* app.go: the first states of the client satisfy the invariant.
LEMMA AppInitInv == AppInit => AppInv
<1> SUFFICES ASSUME AppInit PROVE AppInv OBVIOUS
<1>1. Free \in Calls /\ Free.pc = "idle" /\ Free.tok = {}
  BY DEF Free, Calls, Phases, Permissions
<1>2. now \in Nat /\ real \in [Repos -> Nat] /\ installs \in [Repos -> Nat]
  BY DEF AppInit
<1>3. call \in [Callers -> Calls] /\ \A c \in Callers : call[c] = Free
  BY <1>1 DEF AppInit
<1>4. CallTypes BY <1>1, <1>2, <1>3 DEF CallTypes
<1>5. PoolIsKeyed BY DEF AppInit, PoolIsKeyed
<1>6. TokenFits /\ InHand BY <1>1, <1>3 DEF TokenFits, InHand
<1> QED BY <1>4, <1>5, <1>6 DEF AppInv

\* app.go: a step of one goroutine that leaves GitHub and time alone keeps the
\* invariant when the call it leaves behind satisfies it.
LEMMA CallerStep ==
  ASSUME AppInv, NEW c \in Callers, NEW k \in Calls,
         call' = [call EXCEPT ![c] = k], UNCHANGED <<now, real, installs>>,
         k.pc # "idle" => k.repo \in Repos,
         PoolIsKeyed',
         \A tok \in k.tok :
           /\ tok.repo = k.repo /\ tok.perms = k.kind
           /\ k.pc = "pool" => tok.expires = now + Lifetime
           /\ k.pc = "use" => /\ k.since + Margin < tok.expires
                              /\ k.since <= now /\ now <= k.since + MaxUse
           /\ k.pc \in {"pool", "use"}
  PROVE  AppInv'
<1>1. call'[c] = k /\ \A d \in Callers \ {c} : call'[d] = call[d]
  BY DEF AppInv, CallTypes
<1>2. call' \in [Callers -> Calls]
  BY DEF AppInv, CallTypes
<1>3. CallTypes'
  BY <1>1, <1>2 DEF AppInv, CallTypes
<1>4. TokenFits'
  BY <1>1 DEF AppInv, TokenFits
<1>5. InHand'
  BY <1>1 DEF AppInv, InHand
<1> QED BY <1>3, <1>4, <1>5 DEF AppInv

\* app.go, token: what a goroutine does under and between the client's locks keeps
\* the invariant.
LEMMA CallerInv ==
  ASSUME AppInv, NEW c \in Callers,
         CallStep(c) \/ \E k \in Permissions, r \in Repos : Ask(c, k, r)
  PROVE  AppInv'
<1> DEFINE m == call[c]
<1>t. /\ m \in Calls /\ (m.pc # "idle" => m.repo \in Repos) /\ now \in Nat
      /\ real \in [Repos -> Nat] /\ installs \in [Repos -> Nat]
  BY DEF AppInv, CallTypes
<1>f. /\ Free.pc = "idle" /\ Free.tok = {} /\ Free \in Calls
  BY DEF Free, Calls, Phases, Permissions
<1>p. UNCHANGED tokenPool => PoolIsKeyed'
  BY DEF AppInv, PoolIsKeyed
<1>h. \A tok \in m.tok : /\ tok.repo = m.repo /\ tok.perms = m.kind
                         /\ m.pc = "pool" => tok.expires = now + Lifetime
                         /\ m.pc = "use" => /\ m.since + Margin < tok.expires
                                            /\ m.since <= now /\ now <= m.since + MaxUse
                         /\ m.pc \in {"pool", "use"}
  BY DEF AppInv, TokenFits, InHand
<1>free. ASSUME call' = [call EXCEPT ![c] = Free], UNCHANGED <<now, real, cache>>
         PROVE  AppInv'
  <2>1. PoolIsKeyed' /\ UNCHANGED <<now, real, installs>> BY <1>p, <1>free DEF cache
  <2> QED BY <1>free, <1>f, <2>1, CallerStep
<1>1. ASSUME NEW kind \in Permissions, NEW r \in Repos, Ask(c, kind, r) PROVE AppInv'
  <2> DEFINE asked == [Free EXCEPT !.kind = kind, !.repo = r]
  <2>0. PoolIsKeyed' /\ UNCHANGED <<now, real, installs>> BY <1>1, <1>p DEF Ask, cache
  <2>1. CASE \E e \in Cached(cacheKey(kind, r)) :
               call' = [call EXCEPT ![c] = [asked EXCEPT !.pc = "use", !.tok = {e.tok}, !.since = now]]
    <3>1. PICK e \in Cached(cacheKey(kind, r)) :
               call' = [call EXCEPT ![c] = [asked EXCEPT !.pc = "use", !.tok = {e.tok}, !.since = now]]
      BY <2>1
    <3> DEFINE k == [asked EXCEPT !.pc = "use", !.tok = {e.tok}, !.since = now]
    <3>2. /\ e.tok \in Tokens /\ e.tok.repo = r /\ e.tok.perms = kind
          /\ now < e.tok.expires - Margin
      BY DEF AppInv, PoolIsKeyed, Cached, cacheKey, KeptUntil
    <3>3. /\ k \in Calls /\ k.pc = "use" /\ k.tok = {e.tok} /\ k.since = now
          /\ k.repo = r /\ k.kind = kind
      BY <1>t, <3>2 DEF Free, Calls, Phases
    <3>4. /\ now + Margin < e.tok.expires /\ now <= now /\ now <= now + MaxUse
      BY <1>t, <3>2, AppAssumption DEF Tokens
    <3> HIDE DEF k
    <3>5. call' = [call EXCEPT ![c] = k] BY <3>1 DEF k
    <3> QED BY <2>0, <3>2, <3>3, <3>4, <3>5, CallerStep
  <2>2. CASE call' = [call EXCEPT ![c] = [asked EXCEPT !.pc = "install"]]
    <3> DEFINE k == [asked EXCEPT !.pc = "install"]
    <3>1. k \in Calls /\ k.pc = "install" /\ k.tok = {} /\ k.repo = r
      BY <1>t DEF Free, Calls, Phases
    <3> HIDE DEF k
    <3>2. call' = [call EXCEPT ![c] = k] BY <2>2 DEF k
    <3> QED BY <2>0, <3>1, <3>2, CallerStep
  <2> QED BY <1>1, <2>1, <2>2 DEF Ask
<1>2. CASE KnownInstall(c)
  <2> DEFINE id == installs[m.repo]
             k == [m EXCEPT !.pc = IF id # 0 THEN "mint" ELSE "find", !.id = id]
  <2>0. PoolIsKeyed' /\ UNCHANGED <<now, real, installs>> BY <1>2, <1>p DEF KnownInstall, cache
  <2>1. m.pc = "install" /\ call' = [call EXCEPT ![c] = k]
    BY <1>2 DEF KnownInstall
  <2>2. m.tok = {} BY <2>1, <1>h
  <2>3. id \in Nat BY <1>t, <2>1
  <2>4. k \in Calls /\ k.tok = {} /\ k.repo = m.repo BY <1>t, <2>2, <2>3 DEF Calls, Phases
  <2> HIDE DEF k
  <2> QED BY <2>0, <2>1, <2>4, <1>t, CallerStep
<1>3. CASE FindInstall(c)
  <2> DEFINE id == real[m.repo]
             k == [m EXCEPT !.pc = "keep", !.id = id, !.tries = 0]
  <2>0. PoolIsKeyed' /\ UNCHANGED <<now, real, cache, installs>> BY <1>3, <1>p DEF FindInstall, cache
  <2>1. m.pc = "find" /\ (call' = [call EXCEPT ![c] = Free] \/ call' = [call EXCEPT ![c] = k])
    BY <1>3 DEF FindInstall
  <2>2. m.tok = {} BY <2>1, <1>h
  <2>3. id \in Nat BY <1>t, <2>1
  <2>4. k \in Calls /\ k.tok = {} /\ k.repo = m.repo BY <1>t, <2>2, <2>3 DEF Calls, Phases
  <2> HIDE DEF k
  <2>5. CASE call' = [call EXCEPT ![c] = k] BY <2>0, <2>1, <2>4, <2>5, <1>t, CallerStep
  <2> QED BY <2>0, <2>1, <2>5, <1>free
<1>4. CASE KeepInstall(c)
  <2> DEFINE k == [m EXCEPT !.pc = "mint"]
  <2>1. /\ m.pc = "keep" /\ call' = [call EXCEPT ![c] = k] /\ UNCHANGED <<now, real, tokenPool>>
        /\ installs' = [installs EXCEPT ![m.repo] = m.id]
    BY <1>4 DEF KeepInstall
  <2>2. m.tok = {} BY <2>1, <1>h
  <2>3. k \in Calls /\ k.tok = {} /\ k.repo = m.repo BY <1>t, <2>2 DEF Calls, Phases
  <2>4. installs' \in [Repos -> Nat] BY <1>t, <2>1 DEF Calls
  <2> HIDE DEF k
  <2>5. call'[c] = k /\ \A d \in Callers \ {c} : call'[d] = call[d] BY <2>1 DEF AppInv, CallTypes
  <2>6. call' \in [Callers -> Calls] BY <2>1, <2>3 DEF AppInv, CallTypes
  <2>7. CallTypes' BY <2>1, <2>3, <2>4, <2>5, <2>6, <1>t DEF AppInv, CallTypes
  <2>8. TokenFits' BY <2>5, <2>3 DEF AppInv, TokenFits
  <2>9. InHand' BY <2>1, <2>5, <2>3 DEF AppInv, InHand
  <2> QED BY <2>1, <2>7, <2>8, <2>9, <1>p DEF AppInv
<1>5. CASE Mint(c)
  <2> DEFINE t == [repo |-> m.repo, perms |-> m.kind, expires |-> now + Lifetime]
             k == [m EXCEPT !.pc = "pool", !.tries = 0, !.tok = {t}]
  <2>0. PoolIsKeyed' /\ UNCHANGED <<now, real, cache, installs>> BY <1>5, <1>p DEF Mint, cache
  <2>1. m.pc = "mint" /\ (call' = [call EXCEPT ![c] = Free] \/ call' = [call EXCEPT ![c] = k])
    BY <1>5 DEF Mint
  <2>2. t \in Tokens /\ t.repo = m.repo /\ t.perms = m.kind /\ t.expires = now + Lifetime
    BY <1>t, <2>1, AppAssumption DEF Tokens, Calls
  <2>3. /\ k \in Calls /\ k.tok = {t} /\ k.repo = m.repo /\ k.kind = m.kind /\ k.pc = "pool"
    BY <1>t, <2>2 DEF Calls, Phases
  <2> HIDE DEF k, t
  <2>4. CASE call' = [call EXCEPT ![c] = k]
    BY <2>0, <2>1, <2>2, <2>3, <2>4, <1>t, CallerStep
  <2> QED BY <2>0, <2>1, <2>4, <1>free
<1>6. CASE TokenRequestFails(c)
  <2> DEFINE k == [m EXCEPT !.tries = @ + 1]
  <2>0. PoolIsKeyed' /\ UNCHANGED <<now, real, cache, installs>> BY <1>6, <1>p DEF TokenRequestFails, cache
  <2>1. /\ m.pc \in {"find", "mint"}
        /\ \/ call' = [call EXCEPT ![c] = Free]
           \/ call' = [call EXCEPT ![c] = k]
    BY <1>6 DEF TokenRequestFails
  <2>2. m.tok = {} BY <2>1, <1>h
  <2>3. k \in Calls /\ k.tok = {} /\ k.repo = m.repo BY <1>t, <2>2 DEF Calls, Phases
  <2> HIDE DEF k
  <2>4. CASE call' = [call EXCEPT ![c] = k] BY <2>0, <2>1, <2>3, <2>4, <1>t, CallerStep
  <2> QED BY <2>0, <2>1, <2>4, <1>free
<1>7. CASE Pool(c)
  <2> DEFINE k == [m EXCEPT !.pc = "use", !.since = now]
             key == cacheKey(m.kind, m.repo)
  <2>1. /\ m.pc = "pool" /\ call' = [call EXCEPT ![c] = k] /\ UNCHANGED <<now, real, installs>>
        /\ tokenPool' = {e \in tokenPool : e.key # key}
             \cup {[key |-> key, tok |-> tok, until |-> KeptUntil(tok)] : tok \in m.tok}
    BY <1>7 DEF Pool
  <2>2. \A tok \in m.tok : /\ tok \in Tokens /\ tok.repo = m.repo /\ tok.perms = m.kind
                           /\ tok.expires = now + Lifetime
    BY <1>h, <1>t, <2>1 DEF Calls
  <2>3. PoolIsKeyed'
    <3>1. \A e \in tokenPool' \ tokenPool : \E tok \in m.tok :
             e = [key |-> key, tok |-> tok, until |-> KeptUntil(tok)]
      BY <2>1
    <3>2. ASSUME NEW e \in tokenPool' \ tokenPool
          PROVE  /\ e.tok \in Tokens /\ e.key = cacheKey(e.tok.perms, e.tok.repo)
                 /\ e.until = KeptUntil(e.tok)
      <4>1. PICK tok \in m.tok : e = [key |-> key, tok |-> tok, until |-> KeptUntil(tok)]
        BY <3>1
      <4>2. e.tok = tok /\ e.key = key /\ e.until = KeptUntil(tok) BY <4>1
      <4> QED BY <4>2, <2>2
    <3> QED BY <3>2 DEF AppInv, PoolIsKeyed, KeptUntil, cacheKey
  <2>4. /\ k \in Calls /\ k.tok = m.tok /\ k.repo = m.repo /\ k.kind = m.kind
        /\ k.pc = "use" /\ k.since = now
    BY <1>t DEF Calls, Phases
  <2> HIDE DEF k
  <2>5. \A tok \in m.tok : now + Margin < tok.expires /\ now <= now /\ now <= now + MaxUse
    BY <2>2, <1>t, AppAssumption
  <2> QED BY <2>1, <2>2, <2>3, <2>4, <2>5, <1>t, CallerStep
<1>8. CASE Done(c)
  BY <1>8, <1>free DEF Done
<1> QED BY <1>1, <1>2, <1>3, <1>4, <1>5, <1>6, <1>7, <1>8 DEF CallStep

\* app.go: time and reinstallations keep the invariant; a minted token is stored at
\* once, and a use ends in time.
LEMMA WorldInv ==
  ASSUME AppInv, Tick \/ \E r \in Repos : Reinstall(r)
  PROVE  AppInv'
<1>t. now \in Nat /\ \A c \in Callers : call[c] \in Calls BY DEF AppInv, CallTypes
<1>1. CASE Tick
  <2>1. /\ now' = now + 1 /\ UNCHANGED <<real, installs, tokenPool, call>>
        /\ \A c \in Callers : /\ call[c].pc # "pool"
                              /\ call[c].pc = "use" => now - call[c].since < MaxUse
    BY <1>1 DEF Tick, cache
  <2>2. CallTypes' BY <2>1 DEF AppInv, CallTypes
  <2>3. PoolIsKeyed' /\ TokenFits' BY <2>1 DEF AppInv, PoolIsKeyed, TokenFits
  <2>4. ASSUME NEW c \in Callers, NEW tok \in call[c].tok
        PROVE  /\ call[c].pc = "use"
               /\ call[c].since + Margin < tok.expires
               /\ call[c].since <= now' /\ now' <= call[c].since + MaxUse
    <3>1. call[c].pc = "use" BY <2>1 DEF AppInv, InHand
    <3>2. /\ call[c].since \in Nat /\ call[c].since + Margin < tok.expires
          /\ call[c].since <= now /\ now - call[c].since < MaxUse
      BY <3>1, <2>1, <1>t DEF AppInv, InHand, Calls
    <3> QED BY <3>1, <3>2, <2>1, <1>t, AppAssumption
  <2>5. InHand' BY <2>1, <2>4 DEF InHand
  <2> QED BY <2>2, <2>3, <2>5 DEF AppInv
<1>2. ASSUME NEW r \in Repos, Reinstall(r) PROVE AppInv'
  <2>1. /\ real' = [real EXCEPT ![r] = @ + 1] /\ UNCHANGED <<now, installs, tokenPool, call>>
    BY <1>2 DEF Reinstall, cache
  <2>2. real' \in [Repos -> Nat] BY <2>1 DEF AppInv, CallTypes
  <2> QED BY <2>1, <2>2 DEF AppInv, CallTypes, PoolIsKeyed, TokenFits, InHand
<1> QED BY <1>1, <1>2

\* app.go: the invariant holds at all times.
LEMMA AppInvariance == AppSpec => []AppInv
<1>1. AppInv /\ [AppNext]_appVars => AppInv'
  <2> SUFFICES ASSUME AppInv, [AppNext]_appVars PROVE AppInv' OBVIOUS
  <2>1. CASE UNCHANGED appVars
    BY <2>1 DEF appVars, AppInv, CallTypes, PoolIsKeyed, TokenFits, InHand
  <2> QED BY <2>1, CallerInv, WorldInv DEF AppNext
<1> QED BY <1>1, AppInitInv, PTL DEF AppSpec

\* app.go, token: "no token we mint carries more than its job requires": with a
\* cache keyed by permissions and repository, a goroutine only ever holds a token
\* for what it asked for, however many share the cache.
THEOREM TokenFitsAlways == AppSpec => []TokenFits
<1>1. AppInv => TokenFits BY DEF AppInv
<1> QED BY <1>1, AppInvariance, PTL

\* app.go, token: "refreshed two minutes early, so a token never expires mid-clone",
\* for every lifetime, provided that a clone takes no longer than the margin.
THEOREM NoTokenExpiresInUse ==
  ASSUME MaxUse <= Margin
  PROVE  AppSpec => []NeverExpiresInUse
<1>1. AppInv => NeverExpiresInUse
  <2> SUFFICES ASSUME AppInv, NEW c \in Callers, NEW tok \in call[c].tok, call[c].pc = "use"
               PROVE  now < tok.expires
    BY DEF NeverExpiresInUse
  <2>1. /\ call[c].since \in Nat /\ now \in Nat /\ tok.expires \in Nat
    BY DEF AppInv, CallTypes, Calls, Tokens
  <2>2. call[c].since + Margin < tok.expires /\ now <= call[c].since + MaxUse
    BY DEF AppInv, InHand
  <2> QED BY <2>1, <2>2, AppAssumption
<1> QED BY <1>1, AppInvariance, PTL

-----------------------------------------------------------------------------
(* Commit statuses: late, repeated and lost reports never claim an outcome     *)
(* that a job did not have.                                                    *)

\* The outcome that a state claims: a claim once true stays true, because a job
\* that has ended never changes again.
Holds(j, state) == /\ state = "success" => status[j] = "SUCCESS"
                   /\ state = "failure" => status[j] = "FAILED"

Statuses == {"NONE", "QUEUED", "ASSIGNED", "RUNNING", "SUCCESS", "FAILED", "CANCELLED"}

ReportType == [job : Jobs, what : Int, state : {"pending", "success", "failure"},
               pc : {"spawn", "token", "post"}, tries : Int, left : Int]

StatusInv == /\ status \in [Jobs -> Statuses] /\ started \in [Jobs -> Int]
             /\ \A p \in reports : p \in ReportType /\ Holds(p.job, p.state)
             /\ \/ shown.state = "none"
                \/ shown.job \in Jobs /\ Holds(shown.job, shown.state)

\* jobs.go: no handler changes a job that has ended.
LEMMA EndedStays ==
  ASSUME StatusInv, NEW j \in Jobs, Life(j)
  PROVE  /\ status' \in [Jobs -> Statuses]
         /\ \A k \in Jobs : status[k] \in {"SUCCESS", "FAILED"} => status'[k] = status[k]
<1>1. \/ status' = [status EXCEPT ![j] = "QUEUED"]
      \/ status' = [status EXCEPT ![j] = "ASSIGNED"]
      \/ status' = [status EXCEPT ![j] = "RUNNING"]
      \/ status' = [status EXCEPT ![j] = "SUCCESS"]
      \/ status' = [status EXCEPT ![j] = "FAILED"]
      \/ status' = [status EXCEPT ![j] = "CANCELLED"]
  BY DEF Life, Queued, Started, Result, Unreported, Submit, Start, Succeed, Fail, Hand,
         TakeBack, Cancel
<1>2. status[j] \notin {"SUCCESS", "FAILED"}
  BY DEF Life, Queued, Started, Result, Unreported, Submit, Start, Succeed, Fail, Hand,
         TakeBack, Cancel, Active
<1> QED BY <1>1, <1>2 DEF StatusInv, Statuses

\* jobs.go, webhook.go: a handler that changes a job keeps the invariant: it
\* reports an outcome only with the change that brings it about.
LEMMA LifeInv ==
  ASSUME StatusInv, NEW j \in Jobs, Life(j)
  PROVE  StatusInv'
<1>1. /\ status' \in [Jobs -> Statuses]
      /\ \A k \in Jobs : \A s : Holds(k, s) => Holds(k, s)'
  BY EndedStays DEF Holds
<1>2. UNCHANGED shown BY DEF Life
<1>3. PICK w \in Int, s \in {"pending", "success", "failure"} :
        /\ reports' \subseteq reports \cup {Report(j, w, s)} /\ started' \in [Jobs -> Int]
        /\ s = "success" => status'[j] = "SUCCESS"
        /\ s = "failure" => status'[j] = "FAILED"
  <2>0. status \in [Jobs -> Statuses] /\ started \in [Jobs -> Int] BY DEF StatusInv
  <2>1. CASE Queued(j) BY <2>0, <2>1 DEF Queued
  <2>2. CASE Started(j)
    <3>1. started' \in [Jobs -> Int] /\ started'[j] \in Int BY <2>0, <2>2 DEF Started
    <3> QED BY <2>2, <3>1 DEF Started
  <2>3. CASE Result(j)
    <3>1. CASE Succeed(j) /\ reports' = reports \cup {Report(j, 9, "success")}
      <4>1. status'[j] = "SUCCESS" BY <2>0, <3>1 DEF Succeed
      <4> QED BY <2>0, <2>3, <3>1, <4>1 DEF Result
    <3>2. CASE Fail(j) /\ reports' = reports \cup {Report(j, 9, "failure")}
      <4>1. status'[j] = "FAILED" BY <2>0, <3>2 DEF Fail
      <4> QED BY <2>0, <2>3, <3>2, <4>1 DEF Result
    <3> QED BY <2>3, <3>1, <3>2 DEF Result
  <2>4. CASE Unreported(j) BY <2>0, <2>4 DEF Unreported
  <2> QED BY <2>1, <2>2, <2>3, <2>4 DEF Life
<1>4. LET p == Report(j, w, s) IN p \in ReportType /\ p.job = j /\ p.state = s
  BY DEF Report, ReportType, Budget
<1>5. ASSUME NEW p \in reports' PROVE p \in ReportType /\ Holds(p.job, p.state)'
  <2>1. CASE p \in reports
    <3>1. p \in ReportType /\ Holds(p.job, p.state) BY <2>1 DEF StatusInv
    <3>2. p.job \in Jobs BY <3>1 DEF ReportType
    <3> QED BY <1>1, <3>1, <3>2
  <2>2. CASE p = Report(j, w, s)
    <3>1. p \in ReportType /\ p.job = j /\ p.state = s BY <1>4, <2>2
    <3> QED BY <1>3, <3>1 DEF Holds
  <2> QED BY <1>3, <2>1, <2>2
<1>6. shown.state = "none" \/ (shown.job \in Jobs /\ Holds(shown.job, shown.state)')
  BY <1>1, <1>2 DEF StatusInv
<1> QED BY <1>1, <1>2, <1>3, <1>5, <1>6 DEF StatusInv

\* client.go, send; server.go, report: what a goroutine makes of a report is a
\* report of the same state for the same job, if it is one at all.
LEMMA StillSame ==
  ASSUME NEW p \in ReportType, NEW cost \in Int, Holds(p.job, p.state)
  PROVE  \A q \in {[p EXCEPT !.pc = "token"], [p EXCEPT !.pc = "post", !.tries = 0],
                   [p EXCEPT !.tries = @ + 1, !.left = @ - cost]} :
           q \in ReportType /\ Holds(q.job, q.state)
<1> DEFINE Same(q) == q \in ReportType /\ q.job = p.job /\ q.state = p.state
           a == [p EXCEPT !.pc = "token"]
           b == [p EXCEPT !.pc = "post"]
           c == [p EXCEPT !.tries = @ + 1]
<1>1. Same(a) /\ Same(b) BY DEF ReportType
<1>2. Same(c) BY DEF ReportType
<1> HIDE DEF b, c
<1>3. Same([b EXCEPT !.tries = 0]) BY <1>1 DEF ReportType
<1>4. p.left - cost \in Int BY DEF ReportType
<1>5. Same([c EXCEPT !.left = p.left - cost]) BY <1>2, <1>4 DEF ReportType
<1> USE DEF b, c
<1>6. /\ Same([p EXCEPT !.pc = "token"])
      /\ Same([p EXCEPT !.pc = "post", !.tries = 0])
      /\ Same([p EXCEPT !.tries = @ + 1, !.left = @ - cost])
  BY <1>1, <1>3, <1>5
<1> QED BY ONLY <1>6, Holds(p.job, p.state)

\* client.go, send; server.go, report: the steps of the reporting goroutines keep
\* the invariant.
LEMMA ReportInv ==
  ASSUME StatusInv, NEW p \in reports,
         ReportStep(p) \/ SpawnFails(p) \/ RequestFails(p) \/ AnswerLost(p)
  PROVE  StatusInv'
<1>1. UNCHANGED <<status, started>>
  BY DEF ReportStep, Spawn, GetToken, Post, SpawnFails, RequestFails, AnswerLost, jobVars
<1>2. \E q : /\ reports' \subseteq reports \cup {q}
             /\ \/ q = p
                \/ q = [p EXCEPT !.pc = "token"]
                \/ q = [p EXCEPT !.pc = "post", !.tries = 0]
                \/ \E cost \in Int : q = [p EXCEPT !.tries = @ + 1, !.left = @ - cost]
  <2>0. HangCost \in Int /\ 0 \in Int BY DEF HangCost
  <2>1. CASE Spawn(p) BY <2>1 DEF Spawn, Becomes
  <2>2. CASE GetToken(p) BY <2>2 DEF GetToken, Becomes
  <2>3. CASE Post(p) \/ SpawnFails(p) BY <2>3 DEF Post, SpawnFails, Drops
  <2>4. CASE RequestFails(p) \/ AnswerLost(p)
    <3>1. Retry(p, 0) \/ Retry(p, HangCost) \/ Drops(p)
      BY <2>4 DEF RequestFails, AnswerLost
    <3>2. ASSUME NEW cost \in Int, Retry(p, cost)
          PROVE  \/ Drops(p)
                 \/ Becomes(p, [p EXCEPT !.tries = @ + 1, !.left = @ - cost])
      BY <3>2 DEF Retry
    <3> QED BY <2>0, <3>1, <3>2 DEF Drops, Becomes
  <2> QED BY <2>1, <2>2, <2>3, <2>4 DEF ReportStep
<1>3. \A q \in reports' : q \in ReportType /\ Holds(q.job, q.state)
  <2>1. p \in ReportType /\ Holds(p.job, p.state) BY DEF StatusInv
  <2>2. 0 \in Int OBVIOUS
  <2> QED BY <1>2, <2>1, <2>2, StillSame DEF StatusInv
<1>4. \/ UNCHANGED shown
      \/ shown' = [job |-> p.job, state |-> p.state]
  BY DEF ReportStep, Spawn, GetToken, Post, SpawnFails, RequestFails, AnswerLost, Accepted
<1>5. p.job \in Jobs /\ Holds(p.job, p.state) BY DEF StatusInv, ReportType
<1>6. shown'.state = "none" \/ (shown'.job \in Jobs /\ Holds(shown'.job, shown'.state))
  BY <1>4, <1>5 DEF StatusInv
<1> QED BY <1>1, <1>3, <1>6 DEF StatusInv, Holds

\* server.go, report; jobs.go: the invariant holds at all times, whatever fails.
LEMMA StatusInvariance == StatusSpec => []StatusInv
<1>1. StatusInit => StatusInv
  <2> SUFFICES ASSUME StatusInit PROVE StatusInv OBVIOUS
  <2>1. status \in [Jobs -> Statuses] /\ started \in [Jobs -> Int] BY DEF StatusInit, Init, Statuses
  <2>2. shown.state = "none" /\ reports = {} BY DEF StatusInit
  <2> QED BY <2>1, <2>2 DEF StatusInv
<1>2. StatusInv /\ [StatusNext]_statusVars => StatusInv'
  <2> SUFFICES ASSUME StatusInv, [StatusNext]_statusVars PROVE StatusInv' OBVIOUS
  <2>1. CASE UNCHANGED statusVars
    BY <2>1 DEF statusVars, jobVars, StatusInv, Holds
  <2>2. CASE ApiDies
    BY <2>2 DEF ApiDies, jobVars, StatusInv, Holds
  <2> QED BY <2>1, <2>2, LifeInv, ReportInv DEF StatusNext
<1> QED BY <1>1, <1>2, PTL DEF StatusSpec

\* jobs.go, handleJobResult: GitHub never shows success or failure for a job that
\* did not end that way, for any number of jobs, goroutines, retries and failures,
\* in whatever order the goroutines post.
THEOREM NoFalseOutcomeAlways == StatusSpec => []NoFalseOutcome
<1>1. StatusInv => NoFalseOutcome
  BY DEF StatusInv, Holds, NoFalseOutcome, Outcome
<1> QED BY <1>1, StatusInvariance, PTL
=============================================================================
