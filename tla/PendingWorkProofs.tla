------------------------- MODULE PendingWorkProofs -------------------------
(***************************************************************************)
(* Proofs about PendingWork, for any contents, images and number of        *)
(* changes.                                                                *)
(***************************************************************************)
EXTENDS PendingWork, TLAPS

USE DEF APACHE, JOBS

----------------------------------------------------------------------------
(* The inductive invariant: what holds at each step of a hook.             *)

\* TypeOK is inductive with this: job workers that are to be restarted are configured.
KeptJobsAreConfigured == pc = "restart" /\ JOBS \in hook.kept => runner # NONE

TypeInv == TypeOK /\ KeptJobsAreConfigured

\* Nothing fails that the code has no answer to: a bundle that cannot be restored, a
\* refresh that is cut off, and a death between a change and its marker.
FailuresAreAnswered ==
    ~Has("restore-failure") /\ ~Has("refresh-cut-off") /\ ~Has("unmarked-crash")

\* The files that a hook has passed are those it was asked for.
FilesPassed ==
    /\ pc \notin {"idle", "bundle"} => bundle = want.trust
    /\ pc \notin {"idle", "bundle", "refresh", "trusted", "certificate"} => cert = want.tls
    /\ pc \notin {"idle", "bundle", "refresh", "trusted", "certificate", "key"} =>
          key = KeyFor(want.tls)
    /\ pc \in {"secured", "runner", "runner-written", "settings", "settings-written", "cache",
               "services", "restart", "clear"} => site = (want.tls # NONE)
    /\ pc \in {"runner-written", "settings", "settings-written", "cache",
               "services", "restart", "clear"} => runner = want.runner
    /\ pc \in {"settings-written", "cache", "services", "restart", "clear"} =>
          settings = want.settings

\* The store is made from the bundle, or from the one that a failure would restore.
StoreFollows == store = IF pc = "refresh" THEN hook.previous ELSE bundle

\* A cache that nothing marks for a rebuild is current, save right after the settings
\* changed; one that the hook rebuilt is.
CacheFollows ==
    /\ pc # "settings-written" =>
          \/ cache = [image |-> image, settings |-> settings]
          \/ rebuild \/ recorded # image \/ settings = NONE
    /\ pc \in {"services", "restart", "clear"} => cache = [image |-> image, settings |-> settings]
    /\ hook.rebuilt => pc \in {"services", "restart", "clear"}

\* Job workers are marked, save right after their files changed, or will be stopped.
JobsOwed ==
    JOBS \in running =>
        \/ loaded.jobs = Current.jobs
        \/ JOBS \in restarts
        \/ runner = NONE
        \/ pc \in {"trusted", "runner-written"}

\* Apache is marked, save while a hook remembers that its files changed, or these do not
\* fit each other.
ApacheOwed ==
    APACHE \in running =>
        \/ loaded.apache = Current.apache
        \/ APACHE \in restarts
        \/ ~TlsFits
        \/ pc \in {"key", "site", "secured"} /\ hook.changed

\* What the last steps find: whatever owes a restart ran before and is restarted.
RestartsDone ==
    /\ pc \in {"restart", "clear"} => APACHE \in running
    /\ pc = "restart" =>
          \A s \in running : loaded[s] = Current[s] \/ s \in restarts \intersect hook.kept
    /\ pc = "clear" => \A s \in running : loaded[s] = Current[s]

WorkInv ==
    /\ FilesPassed
    /\ StoreFollows
    /\ CacheFollows
    /\ JobsOwed
    /\ ApacheOwed
    /\ RestartsDone

IndInv == TypeInv /\ WorkInv

----------------------------------------------------------------------------
(* Types.                                                                  *)

\* The private key of what is assigned is a key, or none.
LEMMA KeyForTyped == \A c \in Issued : KeyFor(c) \in Keys \union {NONE}
BY CertificatesAssumption DEF Issued, KeyFor

\* What a service reads when it starts has its type; job workers need a configuration.
LEMMA LoadTyped ==
    ASSUME TypeOK, NEW S, JOBS \in S => runner # NONE
    PROVE  Load(S) \in [apache : TlsFiles \union {NONE},
                        jobs : [store : Content, runner : Versions] \union {NONE}]
<1>1. Current.apache \in TlsFiles
  BY DEF TypeOK, Current, TlsFiles
<1>2. JOBS \in S => Current.jobs \in [store : Content, runner : Versions]
  BY DEF TypeOK, Current, Content
<1>3. QED
  BY <1>1, <1>2 DEF Load, TypeOK

\* A hook that is over leaves nothing behind but the version of its rebuild.
LEMMA EndTyped ==
    ASSUME TypeOK, Flush \/ Abort
    PROVE  /\ pc' = "idle" /\ hook' = NoHook
           /\ pc' \in Steps /\ hook' \in Hooks
           /\ recorded' \in Images \union {NONE}
<1>1. NoHook \in Hooks
  BY DEF NoHook, Hooks, Content
<1>2. "idle" \in Steps
  BY DEF Steps
<1>3. QED
  BY <1>1, <1>2 DEF Flush, Abort, Remember, TypeOK

\* The steps that change the trust store and the TLS material.
LEMMA FirstStepsTyped ==
    ASSUME TypeInv,
           \/ Begin \/ InstallBundle \/ KeepBundle \/ RefreshTrustStore \/ RequestJobRestart
           \/ WriteCertificate \/ WriteKey \/ EnableSite \/ RequestWebRestart
    PROVE  TypeInv'
<1> USE DEF TypeInv, TypeOK, KeptJobsAreConfigured, Step, Remember, Wants, Hooks,
            given, files, markers, localisation, services
<1>1. CASE Begin
  BY <1>1 DEF Begin, Steps
<1>2. CASE InstallBundle
  BY <1>2 DEF InstallBundle, Steps
<1>3. CASE KeepBundle
  BY <1>3 DEF KeepBundle, Steps
<1>4. CASE RefreshTrustStore
  BY <1>4 DEF RefreshTrustStore, Steps
<1>5. CASE RequestJobRestart
  BY <1>5 DEF RequestJobRestart, Steps, Services
<1>6. CASE WriteCertificate
  BY <1>6 DEF WriteCertificate, Steps
<1>7. CASE WriteKey
  BY <1>7, KeyForTyped DEF WriteKey, Steps
<1>8. CASE EnableSite
  BY <1>8 DEF EnableSite, Steps
<1>9. CASE RequestWebRestart
  BY <1>9 DEF RequestWebRestart, Steps, Services
<1>10. QED
  BY <1>1, <1>2, <1>3, <1>4, <1>5, <1>6, <1>7, <1>8, <1>9

\* The steps that change the settings, the cache and the services.
LEMMA LastStepsTyped ==
    ASSUME TypeInv,
           \/ WriteRunnerConfig \/ RequestRunnerRestart \/ WriteSettings \/ RecordSettingsChange
           \/ RebuildCache \/ KeepCache \/ ReconcileServices \/ RestartPending \/ ClearRestarts
    PROVE  TypeInv'
<1> USE DEF TypeInv, TypeOK, KeptJobsAreConfigured, Step, Remember, Wants, Hooks,
            given, files, markers, localisation, services
<1>1. CASE WriteRunnerConfig
  BY <1>1 DEF WriteRunnerConfig, Steps
<1>2. CASE RequestRunnerRestart
  BY <1>2 DEF RequestRunnerRestart, Steps, Services
<1>3. CASE WriteSettings
  BY <1>3 DEF WriteSettings, Steps, Content
<1>4. CASE RecordSettingsChange
  BY <1>4 DEF RecordSettingsChange, Steps
<1>5. CASE RebuildCache
  BY <1>5 DEF RebuildCache, Steps
<1>6. CASE KeepCache
  BY <1>6 DEF KeepCache, Steps
<1>7. CASE ReconcileServices
  <2>1. /\ running' \subseteq Services
        /\ JOBS \in running' => runner # NONE
    BY <1>7 DEF ReconcileServices, Services
  <2>2. loaded' \in [apache : TlsFiles \union {NONE},
                     jobs : [store : Content, runner : Versions] \union {NONE}]
    BY <1>7, <2>1, LoadTyped DEF ReconcileServices
  <2>3. /\ pc' = "restart" /\ pc' \in Steps
        /\ hook' = [hook EXCEPT !.kept = running \intersect running']
        /\ hook' \in Hooks
    BY <1>7, <2>1 DEF ReconcileServices, Steps
  <2>4. QED
    BY <1>7, <2>1, <2>2, <2>3 DEF ReconcileServices
<1>8. CASE RestartPending
  <2>1. loaded' \in [apache : TlsFiles \union {NONE},
                     jobs : [store : Content, runner : Versions] \union {NONE}]
    BY <1>8, LoadTyped DEF RestartPending
  <2>2. QED
    BY <1>8, <2>1 DEF RestartPending, Steps
<1>9. CASE ClearRestarts
  BY <1>9, EndTyped DEF ClearRestarts
<1>10. QED
  BY <1>1, <1>2, <1>3, <1>4, <1>5, <1>6, <1>7, <1>8, <1>9

\* Failures, and what happens around the hook.
LEMMA SurroundingsTyped ==
    ASSUME TypeInv, Failure \/ StopWorkload \/ Change \/ PodRestart
    PROVE  TypeInv'
<1> USE DEF TypeInv, TypeOK, KeptJobsAreConfigured,
            given, files, markers, localisation, services
<1>1. CASE RefreshFails
  <2>1. bundle' \in Content /\ store' \in Content
    BY <1>1 DEF RefreshFails, Hooks
  <2>2. QED
    BY <1>1, <2>1, EndTyped DEF RefreshFails, StopJobsPerhaps
<1>2. CASE SiteFails
  BY <1>2, EndTyped DEF SiteFails, StopJobsPerhaps
<1>3. CASE RebuildFails
  BY <1>3, EndTyped DEF RebuildFails, StopJobsPerhaps
<1>4. CASE ServicesFail
  <2>1. PICK stopped \in SUBSET running, started \in SUBSET Services :
            /\ JOBS \in started => runner # NONE
            /\ running' = (running \ stopped) \union started
            /\ loaded' = Load(started)
    BY <1>4 DEF ServicesFail
  <2>2. loaded' \in [apache : TlsFiles \union {NONE},
                     jobs : [store : Content, runner : Versions] \union {NONE}]
    BY <2>1, LoadTyped
  <2>3. QED
    BY <1>4, <2>1, <2>2, EndTyped DEF ServicesFail
<1>5. CASE EndWithStatus
  BY <1>5, EndTyped DEF EndWithStatus, StopJobsPerhaps
<1>6. CASE HookError
  BY <1>6, EndTyped DEF HookError, StopJobsPerhaps
<1>7. CASE StopWorkload
  BY <1>7 DEF StopWorkload
<1>8. CASE Change
  <2>1. want' \in Wants
    BY <1>8 DEF Change, Wants, Content
  <2>2. changes' \in 0..MaxChanges
    BY <1>8, ChangesAssumption DEF Change
  <2>3. QED
    BY <1>8, <2>1, <2>2 DEF Change
<1>9. CASE PodRestart
  <2>1. changes' \in 0..MaxChanges
    BY <1>9, ChangesAssumption DEF PodRestart
  <2>2. NONE \in Content /\ NONE \in Issued
    BY DEF Content, Issued
  <2>3. QED
    BY <1>9, <2>1, <2>2, EndTyped DEF PodRestart, NotLoaded
<1>10. QED
  BY <1>1, <1>2, <1>3, <1>4, <1>5, <1>6, <1>7, <1>8, <1>9 DEF Failure

\* A unit before its first hook.
LEMMA InitTyped == Init => TypeInv
<1> SUFFICES ASSUME Init PROVE TypeInv
  OBVIOUS
<1>1. NoHook \in Hooks
  BY DEF NoHook, Hooks, Content
<1>2. NoCache \in [image : Images \union {NONE}, settings : Content]
  BY DEF NoCache, Content
<1>3. NotLoaded \in [apache : TlsFiles \union {NONE},
                    jobs : [store : Content, runner : Versions] \union {NONE}]
  BY DEF NotLoaded
<1>4. 0 \in 0..MaxChanges
  BY ChangesAssumption
<1>5. pc \in Steps /\ NONE \in Content /\ NONE \in Issued
  BY DEF Init, Steps, Content, Issued
<1>6. QED
  BY <1>1, <1>2, <1>3, <1>4, <1>5 DEF Init, TypeInv, TypeOK, KeptJobsAreConfigured

\* Every step preserves the types.
LEMMA NextTyped == TypeInv /\ [Next]_vars => TypeInv'
<1> SUFFICES ASSUME TypeInv, [Next]_vars PROVE TypeInv'
  OBVIOUS
<1>1. CASE UNCHANGED vars
  BY <1>1 DEF vars, given, files, markers, localisation, services, TypeInv, TypeOK,
              KeptJobsAreConfigured
<1>2. CASE Next
  BY <1>2, FirstStepsTyped, LastStepsTyped, SurroundingsTyped DEF Next, Hook
<1>3. QED
  BY <1>1, <1>2

\* Every variable keeps its type; in particular job workers never run without a
\* configuration to read.
THEOREM TypeCorrect == Spec => []TypeOK
<1>1. Spec => []TypeInv
  BY InitTyped, NextTyped, PTL DEF Spec
<1>2. TypeInv => TypeOK
  BY DEF TypeInv
<1>3. QED
  BY <1>1, <1>2, PTL

----------------------------------------------------------------------------
(* The invariant is preserved.                                             *)

\* A unit before its first hook runs nothing.
LEMMA InitWork == Init => IndInv
<1> SUFFICES ASSUME Init PROVE IndInv
  OBVIOUS
<1>1. WorkInv
  BY DEF Init, WorkInv, FilesPassed, StoreFollows, CacheFollows, JobsOwed, ApacheOwed,
         RestartsDone, NoHook
<1>2. QED
  BY <1>1, InitTyped DEF IndInv

\* The trust store: a bundle that is installed is not in the store yet; a store that is
\* refreshed is not marked yet.
LEMMA TrustWork ==
    ASSUME IndInv, Begin \/ InstallBundle \/ KeepBundle \/ RefreshTrustStore \/ RequestJobRestart
    PROVE  WorkInv'
<1> USE DEF IndInv, TypeInv, TypeOK, WorkInv, FilesPassed, StoreFollows, CacheFollows, JobsOwed,
            ApacheOwed, TlsFits, RestartsDone, Current, Step, Remember, Hooks, Content,
            given, files, markers, localisation, services
<1>1. CASE Begin
  BY <1>1 DEF Begin
<1>2. CASE InstallBundle
  BY <1>2 DEF InstallBundle
<1>3. CASE KeepBundle
  BY <1>3 DEF KeepBundle
<1>4. CASE RefreshTrustStore
  BY <1>4 DEF RefreshTrustStore
<1>5. CASE RequestJobRestart
  BY <1>5 DEF RequestJobRestart
<1>6. QED
  BY <1>1, <1>2, <1>3, <1>4, <1>5

\* TLS: what changes is remembered by the hook until the marker is written.
LEMMA TlsWork ==
    ASSUME IndInv, WriteCertificate \/ WriteKey \/ EnableSite \/ RequestWebRestart
    PROVE  WorkInv'
<1> USE DEF IndInv, TypeInv, TypeOK, WorkInv, FilesPassed, StoreFollows, CacheFollows, JobsOwed,
            ApacheOwed, TlsFits, RestartsDone, Current, Step, Remember, Hooks, Content,
            given, files, markers, localisation, services
<1>1. CASE WriteCertificate
  BY <1>1 DEF WriteCertificate
<1>2. CASE WriteKey
  BY <1>2 DEF WriteKey
<1>3. CASE EnableSite
  BY <1>3 DEF EnableSite
<1>4. CASE RequestWebRestart
  BY <1>4 DEF RequestWebRestart
<1>5. QED
  BY <1>1, <1>2, <1>3, <1>4

\* Job-runner configuration, settings and cache: settings that change owe a rebuild.
LEMMA SettingsWork ==
    ASSUME IndInv,
           \/ WriteRunnerConfig \/ RequestRunnerRestart \/ WriteSettings \/ RecordSettingsChange
           \/ RebuildCache \/ KeepCache
    PROVE  WorkInv'
<1> USE DEF IndInv, TypeInv, TypeOK, WorkInv, FilesPassed, StoreFollows, CacheFollows, JobsOwed,
            ApacheOwed, TlsFits, RestartsDone, Current, Step, Remember, Hooks, Content, Wants,
            given, files, markers, localisation, services
<1>1. CASE WriteRunnerConfig
  BY <1>1 DEF WriteRunnerConfig
<1>2. CASE RequestRunnerRestart
  BY <1>2 DEF RequestRunnerRestart
<1>3. CASE WriteSettings
  BY <1>3, VersionsAssumption DEF WriteSettings
<1>4. CASE RecordSettingsChange
  BY <1>4 DEF RecordSettingsChange
<1>5. CASE RebuildCache
  BY <1>5 DEF RebuildCache
<1>6. CASE KeepCache
  BY <1>6, VersionsAssumption DEF KeepCache, RebuildPending
<1>7. QED
  BY <1>1, <1>2, <1>3, <1>4, <1>5, <1>6

\* What fits is read as it is by a service that starts; the others keep what they read.
LEMMA LoadReads ==
    ASSUME NEW S
    PROVE  \A s \in Services : Load(S)[s] = IF s \in S THEN Current[s] ELSE loaded[s]
BY DEF Load, Current, Services

\* Services: what owes a restart ran before, and is restarted before the marker goes.
LEMMA ServicesWork ==
    ASSUME IndInv, ReconcileServices \/ RestartPending \/ ClearRestarts
    PROVE  WorkInv'
<1> USE DEF IndInv, TypeInv, TypeOK, WorkInv, FilesPassed, StoreFollows, CacheFollows,
            Step, Remember, Services, given, files, markers, localisation, services
<1>1. CASE ReconcileServices
  <2>1. /\ pc = "services" /\ pc' = "restart"
        /\ APACHE \in running'
        /\ JOBS \in running' => runner # NONE
        /\ loaded' = Load(running' \ running)
        /\ hook' = [hook EXCEPT !.kept = running \intersect running']
        /\ UNCHANGED <<given, files, markers, localisation>>
    BY <1>1 DEF ReconcileServices
  <2>2. FilesPassed' /\ StoreFollows' /\ CacheFollows'
    BY <2>1 DEF Hooks
  <2>3. Current' = Current
    BY <2>1 DEF Current
  <2>4. hook'.kept = running \intersect running'
    BY <2>1 DEF Hooks
  <2>5. TlsFits
    BY <2>1 DEF TlsFits
  <2>6. \A s \in running : loaded[s] = Current[s] \/ s \in restarts \/ (s = JOBS /\ runner = NONE)
    BY <2>1, <2>5 DEF JobsOwed, ApacheOwed, Current
  <2>7. \A s \in running' : loaded'[s] = Current'[s] \/ s \in restarts' \intersect hook'.kept
    <3> SUFFICES ASSUME NEW s \in running'
                 PROVE  loaded'[s] = Current'[s] \/ s \in restarts' \intersect hook'.kept
      OBVIOUS
    <3>1. s \in Services /\ restarts' = restarts
      BY <1>1, <2>1 DEF ReconcileServices
    <3>2. loaded'[s] = IF s \in running' \ running THEN Current[s] ELSE loaded[s]
      BY <2>1, <3>1, LoadReads
    <3>3. QED
      BY <2>1, <2>3, <2>4, <2>6, <3>1, <3>2
  <2>8. QED
    BY <2>1, <2>2, <2>3, <2>5, <2>7 DEF RestartsDone, JobsOwed, ApacheOwed, TlsFits, Current
<1>2. CASE RestartPending
  <2>1. /\ pc = "restart" /\ pc' = "clear"
        /\ loaded' = Load(restarts \intersect hook.kept)
        /\ UNCHANGED <<given, files, markers, localisation, running, hook>>
    BY <1>2 DEF RestartPending
  <2>2. FilesPassed' /\ StoreFollows' /\ CacheFollows'
    BY <2>1
  <2>3. Current' = Current
    BY <2>1 DEF Current
  <2>4. \A s \in running' : loaded'[s] = Current'[s]
    <3> SUFFICES ASSUME NEW s \in running' PROVE loaded'[s] = Current'[s]
      OBVIOUS
    <3>1. s \in Services /\ s \in running
      BY <2>1
    <3>2. loaded'[s] = IF s \in restarts \intersect hook.kept THEN Current[s] ELSE loaded[s]
      BY <2>1, <3>1, LoadReads
    <3>3. loaded[s] = Current[s] \/ s \in restarts \intersect hook.kept
      BY <2>1, <3>1 DEF RestartsDone
    <3>4. QED
      BY <2>3, <3>2, <3>3
  <2>5. TlsFits
    BY <2>1 DEF TlsFits
  <2>6. QED
    BY <2>1, <2>2, <2>3, <2>4, <2>5 DEF RestartsDone, JobsOwed, ApacheOwed, TlsFits, Current
<1>3. CASE ClearRestarts
  <2>1. /\ pc = "clear" /\ pc' = "idle" /\ hook' = NoHook
        /\ recorded' = IF hook.rebuilt THEN image ELSE recorded
        /\ UNCHANGED <<given, files, rebuild, cache, services>>
    BY <1>3 DEF ClearRestarts, Flush
  <2>2. FilesPassed' /\ StoreFollows' /\ CacheFollows'
    BY <2>1 DEF NoHook
  <2>3. QED
    BY <2>1, <2>2 DEF RestartsDone, JobsOwed, ApacheOwed, TlsFits, Current
<1>4. QED
  BY <1>1, <1>2, <1>3

\* A hook that ends between recorded changes, or with a site that does not fit its
\* certificate, leaves nothing that the next one could miss.
LEMMA EndWork ==
    ASSUME IndInv, Flush \/ Abort, StopJobsPerhaps, rebuild' \in {rebuild, TRUE},
           UNCHANGED <<given, files, restarts, cache>>,
           ~Unrecorded \/ (pc = "site" /\ site # (want.tls # NONE))
    PROVE  WorkInv'
<1>1. /\ pc' = "idle" /\ hook' = NoHook
      /\ recorded' \in {recorded, IF hook.rebuilt THEN image ELSE recorded}
  BY DEF Flush, Abort, Remember
<1>2. running' \subseteq running /\ loaded' = loaded
  BY DEF StopJobsPerhaps
<1> USE <1>1, <1>2 DEF IndInv, TypeInv, TypeOK, WorkInv, Unrecorded, given, files
<1>3. FilesPassed' /\ StoreFollows'
  BY DEF FilesPassed, StoreFollows
<1>4. CacheFollows'
  BY DEF CacheFollows, NoHook
<1>5. JobsOwed' /\ ApacheOwed' /\ RestartsDone'
  BY DEF JobsOwed, ApacheOwed, TlsFits, RestartsDone, Current, FilesPassed
<1>6. QED
  BY <1>3, <1>4, <1>5

\* Failures that the code answers, and what happens around the hook.
LEMMA SurroundingsWork ==
    ASSUME FailuresAreAnswered, IndInv, Failure \/ StopWorkload \/ Change \/ PodRestart
    PROVE  WorkInv'
<1> USE DEF Unrecorded, given, files, markers, localisation, services
<1>1. CASE RefreshFails
  <2>1. /\ pc = "refresh" /\ pc' = "idle" /\ hook' = NoHook
        /\ bundle' = hook.previous /\ store' \in {store, bundle'}
        /\ recorded' = IF hook.rebuilt THEN image ELSE recorded
        /\ running' \subseteq running /\ loaded' = loaded
        /\ UNCHANGED <<given, cert, key, site, runner, settings, markers, cache>>
    BY <1>1 DEF RefreshFails, FailuresAreAnswered, Flush, Remember, StopJobsPerhaps
  <2>2. store = hook.previous /\ ~hook.rebuilt
    BY <2>1 DEF IndInv, WorkInv, StoreFollows, CacheFollows
  <2>3. QED
    BY <2>1, <2>2 DEF IndInv, WorkInv, FilesPassed, StoreFollows, CacheFollows, JobsOwed,
                      ApacheOwed, TlsFits, RestartsDone, Current, NoHook
<1>2. CASE SiteFails
  <2>1. /\ Flush \/ Abort
        /\ StopJobsPerhaps
        /\ rebuild' \in {rebuild, TRUE}
        /\ UNCHANGED <<given, files, restarts, cache>>
        /\ ~Unrecorded \/ (pc = "site" /\ site # (want.tls # NONE))
    BY <1>2 DEF SiteFails
  <2>2. QED
    BY <2>1, EndWork
<1>3. CASE RebuildFails
  <2>1. /\ Flush \/ Abort
        /\ StopJobsPerhaps
        /\ rebuild' \in {rebuild, TRUE}
        /\ UNCHANGED <<given, files, restarts, cache>>
        /\ ~Unrecorded \/ (pc = "site" /\ site # (want.tls # NONE))
    BY <1>3 DEF RebuildFails
  <2>2. QED
    BY <2>1, EndWork
<1>4. CASE ServicesFail
  <2>1. PICK stopped \in SUBSET running, started \in SUBSET Services :
            /\ JOBS \in started => runner # NONE
            /\ running' = (running \ stopped) \union started
            /\ loaded' = Load(started)
    BY <1>4 DEF ServicesFail
  <2>2. /\ pc \in {"services", "restart"} /\ pc' = "idle" /\ hook' = NoHook
        /\ UNCHANGED <<given, files, markers, cache, recorded>>
    BY <1>4 DEF ServicesFail, Abort, Remember
  <2>3. TlsFits
    BY <2>2 DEF IndInv, WorkInv, FilesPassed, TlsFits
  <2>4. FilesPassed' /\ StoreFollows' /\ CacheFollows' /\ RestartsDone'
    BY <2>2 DEF IndInv, WorkInv, FilesPassed, StoreFollows, CacheFollows, RestartsDone, NoHook
  <2>5. JobsOwed' /\ ApacheOwed'
    <3>1. Current' = Current
      BY <2>2 DEF Current
    <3>2. /\ loaded'.jobs = IF JOBS \in started THEN Current.jobs ELSE loaded.jobs
          /\ loaded'.apache = IF APACHE \in started THEN Current.apache ELSE loaded.apache
      BY <2>1 DEF Load
    <3>3. QED
      BY <2>1, <2>2, <2>3, <3>1, <3>2 DEF IndInv, WorkInv, JobsOwed, ApacheOwed, Current
  <2>6. QED
    BY <2>4, <2>5 DEF WorkInv
<1>5. CASE EndWithStatus
  <2>1. /\ Flush \/ Abort
        /\ StopJobsPerhaps
        /\ rebuild' \in {rebuild, TRUE}
        /\ UNCHANGED <<given, files, restarts, cache>>
        /\ ~Unrecorded \/ (pc = "site" /\ site # (want.tls # NONE))
    BY <1>5 DEF EndWithStatus
  <2>2. QED
    BY <2>1, EndWork
<1>6. CASE HookError
  <2>1. /\ Flush \/ Abort
        /\ StopJobsPerhaps
        /\ rebuild' \in {rebuild, TRUE}
        /\ UNCHANGED <<given, files, restarts, cache>>
        /\ ~Unrecorded \/ (pc = "site" /\ site # (want.tls # NONE))
    BY <1>6 DEF HookError, FailuresAreAnswered
  <2>2. QED
    BY <2>1, EndWork
<1>7. CASE StopWorkload
  BY <1>7 DEF StopWorkload, IndInv, WorkInv, FilesPassed, StoreFollows, CacheFollows, JobsOwed,
              ApacheOwed, RestartsDone
<1>8. CASE Change
  BY <1>8 DEF Change, IndInv, WorkInv, FilesPassed, StoreFollows, CacheFollows, JobsOwed,
              ApacheOwed, TlsFits, RestartsDone, Current
<1>9. CASE PodRestart
  BY <1>9 DEF PodRestart, Abort, Remember, WorkInv, FilesPassed, StoreFollows, CacheFollows,
              JobsOwed, ApacheOwed, RestartsDone, NoHook
<1>10. QED
  BY <1>1, <1>2, <1>3, <1>4, <1>5, <1>6, <1>7, <1>8, <1>9 DEF Failure

\* Every step preserves the invariant when the failures are answered.
LEMMA NextWork == FailuresAreAnswered => (IndInv /\ [Next]_vars => IndInv')
<1> SUFFICES ASSUME FailuresAreAnswered, IndInv, [Next]_vars PROVE IndInv'
  OBVIOUS
<1>1. TypeInv'
  BY NextTyped DEF IndInv
<1>2. CASE UNCHANGED vars
  <2>1. WorkInv'
    BY <1>2 DEF vars, given, files, markers, localisation, services, IndInv, WorkInv,
                FilesPassed, StoreFollows, CacheFollows, JobsOwed, ApacheOwed, TlsFits,
                RestartsDone, Current
  <2>2. QED
    BY <1>1, <2>1 DEF IndInv
<1>3. CASE Next
  <2>1. WorkInv'
    BY <1>3, TrustWork, TlsWork, SettingsWork, ServicesWork, SurroundingsWork DEF Next, Hook
  <2>2. QED
    BY <1>1, <2>1 DEF IndInv
<1>4. QED
  BY <1>2, <1>3

\* The invariant holds of every unit whose failures the code answers.
THEOREM WorkInvariant ==
    ASSUME FailuresAreAnswered
    PROVE  Spec => []IndInv
<1>1. IndInv /\ [Next]_vars => IndInv'
  BY NextWork
<1>2. QED
  BY InitWork, <1>1, PTL DEF Spec

\* A service that runs on files that have changed is marked, or cannot be missed.
THEOREM RestartsAreMarked ==
    ASSUME FailuresAreAnswered
    PROVE  Spec => []RestartsAreOwed
<1>1. IndInv => RestartsAreOwed
  <2> SUFFICES ASSUME IndInv, pc = "idle", NEW s \in running
               PROVE  \/ loaded[s] = Current[s]
                      \/ s \in restarts
                      \/ s = APACHE /\ ~TlsFits
                      \/ s = JOBS /\ runner = NONE
    BY DEF RestartsAreOwed
  <2>1. s \in {APACHE, JOBS}
    BY DEF IndInv, TypeInv, TypeOK, Services
  <2>2. CASE s = APACHE
    BY <2>2 DEF IndInv, WorkInv, ApacheOwed, TlsFits, Current
  <2>3. CASE s = JOBS
    BY <2>3 DEF IndInv, WorkInv, JobsOwed
  <2>4. QED
    BY <2>1, <2>2, <2>3
<1>2. QED
  BY <1>1, WorkInvariant, PTL

\* A localisation cache that is not current is due to be rebuilt.
THEOREM RebuildIsMarked ==
    ASSUME FailuresAreAnswered
    PROVE  Spec => []RebuildIsOwed
<1>1. IndInv => RebuildIsOwed
  BY DEF IndInv, WorkInv, CacheFollows, RebuildIsOwed
<1>2. QED
  BY <1>1, WorkInvariant, PTL

\* The system trust store is made from the bundle that is on disk.
THEOREM TrustStoreFollows ==
    ASSUME FailuresAreAnswered
    PROVE  Spec => []TrustStoreHoldsBundle
<1>1. IndInv => TrustStoreHoldsBundle
  BY DEF IndInv, WorkInv, StoreFollows, TrustStoreHoldsBundle
<1>2. QED
  BY <1>1, WorkInvariant, PTL

\* A reconciliation that reaches its end leaves files, cache and services as asked for.
THEOREM ReconciliationIsComplete ==
    ASSUME FailuresAreAnswered
    PROVE  Spec => []ReconciledWorkloadIsCurrent
<1>1. IndInv => ReconciledWorkloadIsCurrent
  BY DEF IndInv, WorkInv, FilesPassed, StoreFollows, CacheFollows, RestartsDone,
         ReconciledWorkloadIsCurrent
<1>2. QED
  BY <1>1, WorkInvariant, PTL
=============================================================================
