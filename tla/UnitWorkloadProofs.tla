------------------------- MODULE UnitWorkloadProofs -------------------------
(***************************************************************************)
(* Theorems about UnitWorkload for whatever options may be asked for, any  *)
(* sequence of changes of them, and any number of hooks that die and pods  *)
(* that are replaced.                                                      *)
(***************************************************************************)
EXTENDS UnitWorkload, TLAPS

(***************************************************************************)
(* The steps of the hook, from its end to its beginning: the invariants    *)
(* say what holds from a step on, and after a hook that ended well.        *)
(***************************************************************************)
FromClient == {"client", "end"}
FromLocal == {"local", "services"} \union FromClient
FromLate == {"late"} \union FromLocal
FromCheck == {"check", "auth"} \union FromLate
FromShellbox == {"shellbox"} \union FromCheck
FromShellboxKey == {"shellbox-key"} \union FromShellbox
FromGitClear == {"git-clear"} \union FromShellboxKey
FromGitService == {"git-service"} \union FromGitClear

(***************************************************************************)
(* The assets of a repository that is no longer configured.  That they are *)
(* not served is not inductive: git-sync may check out at any moment.      *)
(***************************************************************************)
GitSyncSleeps ==
    seen.repo = NONE /\ (pc \in FromGitClear \/ Active) => gitRunning \in {STOPPED, SLEEP}

NothingIsServed ==
    seen.repo = NONE /\ (pc \in FromShellboxKey \/ Active) => assets = NONE

AssetsInv == GitSyncSleeps /\ NothingIsServed

LEMMA AssetsStep == AssetsInv /\ [Next]_vars => AssetsInv'
<1> SUFFICES ASSUME AssetsInv, [Next]_vars PROVE AssetsInv'
  OBVIOUS
<1> USE DEF AssetsInv, GitSyncSleeps, NothingIsServed, Active, FromClient, FromLocal, FromLate,
            FromCheck, FromShellbox, FromShellboxKey, FromGitClear
<1>1. CASE UNCHANGED vars
  BY <1>1 DEF vars, hookVars, gitSyncVars
<1>2. CASE Begin \/ ConfigureIngress \/ IngressEnds \/ SshKeyInvalid
  BY <1>2 DEF Begin, ConfigureIngress, IngressEnds, SshKeyInvalid, Ends, EndsWithin, gitSyncVars
<1>3. CASE GitSyncSsh \/ GitSyncRefuses
  BY <1>3 DEF GitSyncSsh, GitSyncRefuses, Step, Ends, EndsWithin
<1>4. CASE GitSyncService
  <2>1. pc' = "git-clear" /\ seen' = seen
    BY <1>4 DEF GitSyncService, Step
  <2>2. seen.repo = NONE => gitRunning' \in {STOPPED, SLEEP}
    BY <1>4 DEF GitSyncService, ConfigureService, ReconcileGitSync, PebbleLayer, GitSyncCommand,
                Replanned
  <2>3. QED
    BY <2>1, <2>2
<1>5. CASE GitSyncClear
  BY <1>5 DEF GitSyncClear, Step, ClearAssets
<1>6. CASE ShellboxKey \/ ShellboxServices \/ WriteFiles \/ PushSaml \/ PushLocalSettings
           \/ ReconcileServices
  BY <1>6 DEF ShellboxKey, ShellboxServices, WriteFiles, PushSaml, PushLocalSettings,
              ReconcileServices, Step, gitSyncVars
<1>7. CASE WorkloadKeyInvalid \/ WorkloadInactive \/ WorkloadWaits \/ PushLateSettings
  BY <1>7 DEF WorkloadKeyInvalid, WorkloadInactive, WorkloadWaits, PushLateSettings, Step, Ends,
              EndsWithin, gitSyncVars
<1>8. CASE UpdateClientConfig \/ ApiFails \/ Finish
  BY <1>8 DEF UpdateClientConfig, ApiFails, Finish, Ends, EndsWithin, gitSyncVars
<1>9. CASE Change \/ Register \/ Dies \/ PhpFpmRestarts
  BY <1>9 DEF Change, Register, Dies, PhpFpmRestarts, hookVars, gitSyncVars
<1>10. CASE PodReplaced
  BY <1>10 DEF PodReplaced, GitSyncReplaced
<1>11. CASE GitSyncs
  BY <1>11 DEF GitSyncs, Sync, hookVars
<1>12. QED
  BY <1>1, <1>2, <1>3, <1>4, <1>5, <1>6, <1>7, <1>8, <1>9, <1>10, <1>11 DEF Next, Reconcile

\* When a hook has ended well for a configuration without repository, no assets are served, and
\* no later check-out of git-sync brings them back before the next hook.
THEOREM AssetsWithdrawn == Spec => []AssetsAreWithdrawn
<1>1. Init => AssetsInv
  BY DEF Init, AssetsInv, GitSyncSleeps, NothingIsServed, Active, FromClient, FromLocal, FromLate,
         FromCheck, FromShellbox, FromShellboxKey, FromGitClear
<1>2. AssetsInv => AssetsAreWithdrawn
  BY DEF AssetsInv, NothingIsServed, AssetsAreWithdrawn
<1>3. QED
  BY <1>1, <1>2, AssetsStep, PTL DEF Spec

(***************************************************************************)
(* The key of Shellbox.  The property is not inductive: php-fpm may be     *)
(* restarted at any moment, and then reads a file that hooks that died may *)
(* have written.  A key file that php-fpm has not read is there only as    *)
(* long as the unit has no secret, so that the next hook writes another    *)
(* key and restarts it.                                                    *)
(***************************************************************************)
KeysTyped ==
    /\ secret \in Nat /\ pending \in Nat /\ issued \in Nat /\ keyFile \in Nat /\ phpFpm \in Nat
    /\ secret <= issued /\ pending <= issued /\ keyFile <= issued

\* A hook adds a secret only to a unit that has none.
AdditionIsFirst == pending # NoKey => secret = NoKey /\ pc \in FromShellbox

\* What is in the container while no hook works on it.
SecretIsWritten ==
    secret # NoKey => keyFile \in {NoKey, secret} /\ phpFpm \in {NoKey, keyFile}

\* The key that the hook knows is in the file, then in php-fpm, then in the settings.
KeyIsWritten == pc \in FromShellbox => KnownKey # NoKey /\ keyFile = KnownKey
ChangeIsNoticed == pc = "shellbox" => keyChanged \/ phpFpm \in {NoKey, keyFile}
KeyIsRead == pc \in FromCheck => phpFpm = keyFile
KeyIsRendered == pc \in FromLocal => late.shellbox = KnownKey
KeyIsKept ==
    Active => secret # NoKey /\ keyFile = secret /\ phpFpm = secret /\ late.shellbox = secret

KeyInv ==
    /\ KeysTyped
    /\ AdditionIsFirst
    /\ SecretIsWritten
    /\ KeyIsWritten
    /\ ChangeIsNoticed
    /\ KeyIsRead
    /\ KeyIsRendered
    /\ KeyIsKept

\* The steps of the hook that do not touch the keys.
KeepsKeys == shellboxVars' = shellboxVars /\ keyChanged' = keyChanged

\* A hook ends: its secret is kept, with whatever status.
LEMMA EndsKeepKeys ==
    ASSUME KeyInv, NEW from \in {"ingress", "git-ssh"} \union FromCheck, NEW with,
           EndsWithin(from, with), late' = late \/ from = "late",
           with = "active" => from = "end"
    PROVE  KeyInv'
<1> USE KeysAssumption DEF KeyInv, KnownKey, FromClient, FromLocal, FromLate, FromCheck,
        FromShellbox
<1>1. /\ pc = from /\ pc' = "idle" /\ status' = with
      /\ secret' = KnownKey /\ pending' = NoKey
      /\ issued' = issued /\ keyFile' = keyFile /\ phpFpm' = phpFpm /\ keyChanged' = keyChanged
  BY DEF EndsWithin, CommitSecret
<1>2. KeysTyped'
  BY <1>1 DEF KeysTyped
<1>3. AdditionIsFirst' /\ KeyIsWritten' /\ ChangeIsNoticed' /\ KeyIsRead' /\ KeyIsRendered'
  BY <1>1 DEF AdditionIsFirst, KeyIsWritten, ChangeIsNoticed, KeyIsRead, KeyIsRendered
<1>4. SecretIsWritten'
  BY <1>1 DEF SecretIsWritten, AdditionIsFirst, KeyIsWritten, KeyIsRead
<1>5. KeyIsKept'
  BY <1>1 DEF KeyIsKept, Active, KeyIsWritten, KeyIsRead, KeyIsRendered
<1>6. QED
  BY <1>2, <1>3, <1>4, <1>5

LEMMA KeyStep == KeyInv /\ [Next]_vars => KeyInv'
<1> SUFFICES ASSUME KeyInv, [Next]_vars PROVE KeyInv'
  OBVIOUS
<1> USE KeysAssumption
    DEF KeyInv, FromClient, FromLocal, FromLate, FromCheck, FromShellbox
<1>1. ASSUME KeepsKeys, late' = late,
             \/ pc' = pc /\ status' = status
             \/ pc = "idle" /\ pc' = "ingress"
             \/ pc \notin FromShellbox /\ pc' \notin FromShellbox \union {"idle"}
             \/ pc = "check" /\ pc' = "auth"
             \/ pc = "auth" /\ pc' = "late"
             \/ pc \in FromLocal /\ pc' \in FromLocal
      PROVE  KeyInv'
  BY <1>1 DEF KeepsKeys, shellboxVars, KnownKey, KeysTyped, AdditionIsFirst, SecretIsWritten,
              KeyIsWritten, ChangeIsNoticed, KeyIsRead, KeyIsRendered, KeyIsKept, Active
<1>2. CASE UNCHANGED vars
  BY <1>1, <1>2 DEF vars, hookVars, shellboxVars, workloadVars, KeepsKeys
<1>3. CASE Begin
  <2>1. /\ shellboxVars' = shellboxVars /\ keyChanged' = FALSE /\ late' = late
        /\ pc = "idle" /\ pc' = "ingress"
    BY <1>3 DEF Begin, workloadVars
  <2>2. QED
    BY <2>1 DEF shellboxVars, KnownKey, KeysTyped, AdditionIsFirst, SecretIsWritten,
              KeyIsWritten, ChangeIsNoticed, KeyIsRead, KeyIsRendered, KeyIsKept, Active
<1>4. CASE ConfigureIngress \/ GitSyncSsh \/ GitSyncService \/ GitSyncClear
  BY <1>1, <1>4 DEF ConfigureIngress, GitSyncSsh, GitSyncService, GitSyncClear, Step, workloadVars,
                    KeepsKeys
<1>5. CASE WriteFiles \/ PushSaml \/ PushLocalSettings \/ ReconcileServices \/ UpdateClientConfig
  BY <1>1, <1>5 DEF WriteFiles, PushSaml, PushLocalSettings, ReconcileServices,
                    UpdateClientConfig, Step, workloadVars, KeepsKeys
<1>6. CASE Change \/ Register \/ GitSyncs
  BY <1>1, <1>6 DEF Change, Register, GitSyncs, hookVars, workloadVars, KeepsKeys
<1>7. CASE IngressEnds \/ SshKeyInvalid \/ GitSyncRefuses
  BY <1>7, EndsKeepKeys DEF IngressEnds, SshKeyInvalid, GitSyncRefuses, Ends, workloadVars
<1>8. CASE WorkloadKeyInvalid \/ WorkloadInactive \/ WorkloadWaits \/ ApiFails \/ Finish
  BY <1>8, EndsKeepKeys DEF WorkloadKeyInvalid, WorkloadInactive, WorkloadWaits, ApiFails, Finish,
                            Ends, workloadVars
<1>9. CASE PushLateSettings /\ Deferred(seen)
  BY <1>9, EndsKeepKeys DEF PushLateSettings, Ends
<1>10. CASE PushLateSettings /\ ~Deferred(seen)
  <2>1. /\ shellboxVars' = shellboxVars /\ pc = "late" /\ pc' = "local"
        /\ late' = LateSettings(seen, KnownKey)
    BY <1>10 DEF PushLateSettings, Step
  <2>2. late'.shellbox = KnownKey
    BY <2>1 DEF LateSettings
  <2>3. QED
    BY <2>1, <2>2
       DEF shellboxVars, KnownKey, KeysTyped, AdditionIsFirst, SecretIsWritten, KeyIsWritten,
           ChangeIsNoticed, KeyIsRead, KeyIsRendered, KeyIsKept, Active
<1>11. CASE ShellboxKey
  <2>1. /\ pc = "shellbox-key" /\ pc' = "shellbox"
        /\ secret' = secret /\ phpFpm' = phpFpm
        /\ keyChanged' = (keyFile' # keyFile)
    BY <1>11 DEF ShellboxKey, WriteKey
  <2>2. pending = NoKey
    BY <2>1 DEF AdditionIsFirst
  <2>3. CASE secret # NoKey
    <3>1. keyFile' = secret /\ pending' = NoKey /\ issued' = issued
      BY <1>11, <2>2, <2>3 DEF ShellboxKey, WriteKey, GenerateKey, AuthenticationKey, KnownKey
    <3>2. QED
      BY <2>1, <2>2, <2>3, <3>1
         DEF KnownKey, KeysTyped, AdditionIsFirst, SecretIsWritten, KeyIsWritten,
             ChangeIsNoticed, KeyIsRead, KeyIsRendered, KeyIsKept, Active
  <2>4. CASE secret = NoKey
    <3>1. keyFile' = issued + 1 /\ pending' = issued + 1 /\ issued' = issued + 1
      BY <1>11, <2>2, <2>4 DEF ShellboxKey, WriteKey, GenerateKey, AuthenticationKey, KnownKey
    <3>2. keyChanged'
      <4>1. keyFile' # keyFile
        BY <3>1 DEF KeysTyped
      <4>2. QED
        BY <2>1, <4>1
    <3>3. QED
      BY <2>1, <2>2, <2>4, <3>1, <3>2
         DEF KnownKey, KeysTyped, AdditionIsFirst, SecretIsWritten, KeyIsWritten,
             ChangeIsNoticed, KeyIsRead, KeyIsRendered, KeyIsKept, Active
  <2>5. QED
    BY <2>3, <2>4
<1>12. CASE ShellboxServices
  <2>1. /\ pc = "shellbox" /\ pc' = "check" /\ late' = late
        /\ secret' = secret /\ pending' = pending /\ issued' = issued /\ keyFile' = keyFile
    BY <1>12 DEF ShellboxServices, Step, StartShellbox, workloadVars
  <2>2. phpFpm' = keyFile
    BY <1>12, <2>1 DEF ShellboxServices, StartShellbox, ChangeIsNoticed
  <2>3. QED
    BY <2>1, <2>2
       DEF KnownKey, KeysTyped, AdditionIsFirst, SecretIsWritten, KeyIsWritten,
           ChangeIsNoticed, KeyIsRead, KeyIsRendered, KeyIsKept, Active
<1>13. CASE PhpFpmRestarts
  <2>1. /\ pc' = pc /\ status' = status /\ late' = late /\ keyChanged' = keyChanged
        /\ secret' = secret /\ pending' = pending /\ issued' = issued /\ keyFile' = keyFile
        /\ phpFpm' = keyFile
    BY <1>13 DEF PhpFpmRestarts, RestartShellbox, hookVars, workloadVars
  <2>2. QED
    BY <2>1
       DEF KnownKey, KeysTyped, AdditionIsFirst, SecretIsWritten, KeyIsWritten,
           ChangeIsNoticed, KeyIsRead, KeyIsRendered, KeyIsKept, Active
<1>14. CASE Dies \/ PodReplaced
  <2>1. /\ pc' = "idle" /\ status' = "error"
        /\ pending' = NoKey /\ secret' = secret /\ issued' = issued
        /\ \/ keyFile' = keyFile /\ phpFpm' = phpFpm
           \/ keyFile' = NoKey /\ phpFpm' = NoKey
    BY <1>14 DEF Dies, PodReplaced, DiscardSecret, ShellboxReplaced
  <2>2. QED
    BY <2>1
       DEF KnownKey, KeysTyped, AdditionIsFirst, SecretIsWritten, KeyIsWritten,
           ChangeIsNoticed, KeyIsRead, KeyIsRendered, KeyIsKept, Active
<1>15. QED
  BY <1>2, <1>3, <1>4, <1>5, <1>6, <1>7, <1>8, <1>9, <1>10, <1>11, <1>12, <1>13, <1>14
     DEF Next, Reconcile

LEMMA KeyInitial == Init => KeyInv
BY KeysAssumption
   DEF Init, ShellboxInit, KeyInv, KnownKey, KeysTyped, AdditionIsFirst, SecretIsWritten,
       KeyIsWritten, ChangeIsNoticed, KeyIsRead, KeyIsRendered, KeyIsKept, Active, FromClient,
       FromLocal, FromLate, FromCheck, FromShellbox

\* After a hook that ended well, MediaWiki, php-fpm and the unit's secret have the same key,
\* whatever hooks died before, and php-fpm may restart without losing it.
THEOREM ShellboxAgrees == Spec => []ShellboxKeysAgree
<1>1. KeyInv => ShellboxKeysAgree
  BY DEF KeyInv, KeyIsKept, ShellboxKeysAgree
<1>2. QED
  BY <1>1, KeyInitial, KeyStep, PTL DEF Spec

(***************************************************************************)
(* What the settings rely on.                                              *)
(***************************************************************************)
ConfigsTyped ==
    /\ want \in Configs
    /\ \A f \in OptionNames \ {"oauth"} : seen[f] \in Options[f]

ConfigIsLoaded == pc \in FromGitService \/ Settled => ConfigIsValid(seen)

SamlIsPushed ==
    (pc \in FromLate \/ Settled) /\ SamlWritten(seen) => samlFile = SamlConfig(seen)

SettingsArePushed ==
    pc \in FromLocal \/ Settled => \E key \in Nat : late = LateSettings(seen, key)

TunnelRuns ==
    pc \in FromClient \/ Active =>
        \E running : tunnelRunning = Replanned(TunnelService(MailTunnel(seen)), running)

ContainersFollow ==
    /\ ConfigIsLoaded
    /\ SamlIsPushed
    /\ SettingsArePushed
    /\ TunnelRuns

SettingsInv == ConfigsTyped /\ ContainersFollow

\* What a hook reads has the options' values, save OAuth's, whose relation data is its own.
LEMMA ConfigsStep ==
    ASSUME ConfigsTyped, [Next]_vars
    PROVE  ConfigsTyped'
<1> USE DEF ConfigsTyped
<1>1. CASE want' = want /\ seen' = seen
  BY <1>1
<1>2. CASE Begin
  <2>1. want' = want /\ seen' = Found(want)
    BY <1>2 DEF Begin
  <2>2. ASSUME NEW f \in OptionNames \ {"oauth"}
        PROVE  seen'[f] \in Options[f]
    <3>1. DOMAIN want = OptionNames /\ want[f] \in Options[f]
      BY <2>2, OptionsAssumption DEF Configs
    <3>2. seen'[f] = want[f]
      BY <2>1, <2>2, <3>1 DEF Found
    <3>3. QED
      BY <3>1, <3>2
  <2>3. QED
    BY <2>1, <2>2
<1>3. CASE Change
  <2>1. PICK g \in DOMAIN Options : \E v \in Options[g] : want' = [want EXCEPT ![g] = v]
    BY <1>3 DEF Change
  <2>2. want' \in Configs
    BY <2>1 DEF Configs
  <2>3. QED
    BY <1>3, <2>2 DEF Change
<1>4. QED
  <2>1. (want' = want /\ seen' = seen) \/ Begin \/ Change
    BY DEF vars, hookVars, Next, Reconcile, ConfigureIngress, IngressEnds, SshKeyInvalid,
           GitSyncSsh, GitSyncRefuses, GitSyncService, GitSyncClear, ShellboxKey,
           ShellboxServices, WorkloadKeyInvalid, WorkloadInactive, WorkloadWaits, WriteFiles,
           PushSaml, PushLateSettings, PushLocalSettings, ReconcileServices, UpdateClientConfig,
           Finish, Register, ApiFails, Dies, PodReplaced, GitSyncs, PhpFpmRestarts, Step, Ends,
           EndsWithin
  <2>2. QED
    BY <2>1, <1>1, <1>2, <1>3

\* The steps of the hook, in their order, and what happens around it keep the rest.
LEMMA ContainersStep ==
    ASSUME KeysTyped, SettingsInv, [Next]_vars
    PROVE  ContainersFollow'
<1> USE DEF ContainersFollow, FromClient, FromLocal, FromLate, FromCheck, FromShellbox, FromShellboxKey,
            FromGitClear, FromGitService, Active, Settled
<1>1. ASSUME seen' = seen, samlFile' = samlFile, late' = late, tunnelRunning' = tunnelRunning,
             \/ pc' = pc /\ status' = status
             \/ pc' \in FromGitService /\ pc \in FromGitService
                /\ (pc' \in FromLate => pc \in FromLate)
                /\ (pc' \in FromLocal => pc \in FromLocal)
                /\ (pc' \in FromClient => pc \in FromClient)
             \/ pc' \notin FromGitService /\ pc' # "idle"
             \/ pc' = "idle" /\ status' \notin {"active", "degraded"}
             \/ pc' = "idle" /\ pc = "end"
      PROVE  ContainersFollow'
  BY <1>1 DEF SettingsInv, ContainersFollow, ConfigIsLoaded, SamlIsPushed, SettingsArePushed, TunnelRuns
<1>2. CASE UNCHANGED vars \/ Change \/ Register \/ GitSyncs \/ PhpFpmRestarts
  BY <1>1, <1>2 DEF vars, Change, Register, GitSyncs, PhpFpmRestarts, hookVars, workloadVars
<1>3. CASE Begin
  <2>1. pc' = "ingress"
    BY <1>3 DEF Begin
  <2>2. QED
    BY <2>1 DEF ConfigIsLoaded, SamlIsPushed, SettingsArePushed, TunnelRuns
<1>4. CASE ConfigureIngress \/ IngressEnds \/ SshKeyInvalid \/ GitSyncRefuses
  BY <1>1, <1>4 DEF ConfigureIngress, IngressEnds, SshKeyInvalid, GitSyncRefuses, Ends, EndsWithin,
                    workloadVars
<1>5. CASE GitSyncSsh
  <2>1. pc' = "git-service" /\ seen' = seen /\ ConfigIsValid(seen)
    BY <1>5 DEF GitSyncSsh, Step, SshKeyIsUsable
  <2>2. QED
    BY <2>1 DEF ConfigIsLoaded, SamlIsPushed, SettingsArePushed, TunnelRuns, ConfigIsValid
<1>6. CASE GitSyncService \/ GitSyncClear \/ ShellboxKey \/ ShellboxServices \/ WriteFiles
           \/ PushLocalSettings \/ UpdateClientConfig
  BY <1>1, <1>6 DEF GitSyncService, GitSyncClear, ShellboxKey, ShellboxServices, WriteFiles,
                    PushLocalSettings, UpdateClientConfig, Step, workloadVars
<1>7. CASE WorkloadKeyInvalid \/ WorkloadWaits \/ ApiFails \/ Finish
  BY <1>1, <1>7 DEF WorkloadKeyInvalid, WorkloadWaits, ApiFails, Finish, Ends, EndsWithin,
                    workloadVars
<1>8. CASE WorkloadInactive \/ Dies \/ PodReplaced
  <2>1. pc' = "idle" /\ status' \notin {"active", "degraded"}
    BY <1>8 DEF WorkloadInactive, Ends, EndsWithin, Dies, PodReplaced
  <2>2. QED
    BY <2>1 DEF ConfigIsLoaded, SamlIsPushed, SettingsArePushed, TunnelRuns
<1>9. CASE PushSaml
  <2>1. pc = "auth" /\ pc' = "late" /\ seen' = seen
    BY <1>9 DEF PushSaml, Step
  <2>2. SamlWritten(seen) => samlFile' = SamlConfig(seen)
    BY <1>9 DEF PushSaml, SamlWritten
  <2>3. ConfigIsLoaded' /\ SettingsArePushed' /\ TunnelRuns'
    BY <2>1 DEF SettingsInv, ContainersFollow, ConfigIsLoaded, SettingsArePushed, TunnelRuns
  <2>4. SamlIsPushed'
    BY <2>1, <2>2 DEF SamlIsPushed
  <2>5. QED
    BY <2>3, <2>4
<1>10. CASE PushLateSettings
  <2>1. /\ pc = "late" /\ seen' = seen /\ samlFile' = samlFile
        /\ late' = LateSettings(seen, KnownKey)
        /\ pc' = "local" \/ (pc' = "idle" /\ status' = "degraded")
    BY <1>10 DEF PushLateSettings, Step, Ends, EndsWithin
  <2>2. KnownKey \in Nat
    BY DEF KeysTyped, KnownKey
  <2>3. ConfigIsLoaded' /\ SamlIsPushed' /\ TunnelRuns'
    BY <2>1 DEF SettingsInv, ContainersFollow, ConfigIsLoaded, SamlIsPushed, TunnelRuns
  <2>4. SettingsArePushed'
    BY <2>1, <2>2 DEF SettingsArePushed
  <2>5. QED
    BY <2>3, <2>4
<1>11. CASE ReconcileServices
  <2>1. /\ pc = "services" /\ pc' = "client" /\ seen' = seen /\ samlFile' = samlFile
        /\ late' = late
        /\ tunnelRunning' = Replanned(TunnelService(MailTunnel(seen)), tunnelRunning)
    BY <1>11 DEF ReconcileServices, Step, PlanTunnel
  <2>2. ConfigIsLoaded' /\ SamlIsPushed' /\ SettingsArePushed'
    BY <2>1 DEF SettingsInv, ContainersFollow, ConfigIsLoaded, SamlIsPushed, SettingsArePushed
  <2>3. TunnelRuns'
    BY <2>1 DEF TunnelRuns
  <2>4. QED
    BY <2>2, <2>3
<1>12. QED
  BY <1>2, <1>3, <1>4, <1>5, <1>6, <1>7, <1>8, <1>9, <1>10, <1>11 DEF Next, Reconcile

LEMMA SettingsStep == KeysTyped /\ SettingsInv /\ [Next]_vars => SettingsInv'
BY ConfigsStep, ContainersStep DEF SettingsInv

\* Mail that is sent to the local port finds a tunnel to the relay; when it is not, none listens.
LEMMA TunnelServesMail ==
    ASSUME NEW c, NEW running
    PROVE  LET started == Replanned(TunnelService(MailTunnel(c)), running)
           IN  IF Mail(c).via = "tunnel"
               THEN started = [proxy |-> ProxyOf(c.proxy), to |-> Mail(c).to]
               ELSE started \in {STOPPED, SLEEP}
<1>1. CASE MailTunnel(c) = NONE
  <2>1. Mail(c).via # "tunnel"
    BY <1>1 DEF Mail
  <2>2. QED
    BY <1>1, <2>1 DEF Replanned, TunnelService
<1>2. CASE MailTunnel(c) # NONE
  <2>1. c.smtp \notin {NONE, BAD} /\ MailTunnel(c) = [proxy |-> ProxyOf(c.proxy), to |-> c.smtp]
    BY <1>2 DEF MailTunnel, TunnelCommand, ConnectCommand
  <2>2. Mail(c).via = "tunnel" /\ Mail(c).to = c.smtp
    BY <1>2, <2>1 DEF Mail
  <2>3. Replanned(TunnelService(MailTunnel(c)), running) = MailTunnel(c)
    BY <1>2 DEF Replanned, TunnelService
  <2>4. QED
    BY <2>1, <2>2, <2>3
<1>3. QED
  BY <1>1, <1>2

\* SimpleSAMLphp's file, when it is written, is none of the things that stand for no file.
LEMMA SamlConfigIsThere ==
    ASSUME ConfigsTyped, ConfigIsValid(seen), SamlWritten(seen)
    PROVE  SamlConfig(seen) # NONE
<1>1. seen.saml \in Options.saml /\ seen.valkey \in Options.valkey
      /\ seen.proxy \in Options.proxy /\ seen.origin \in Options.origin \ {BAD}
  BY DEF ConfigsTyped, OptionNames, ConfigIsValid
<1>2. Valkey(seen) \in Options.valkey \union {NONE}
  BY <1>1 DEF Valkey
<1>3. SamlConfig(seen) \in SamlConfigs
  BY <1>1, <1>2 DEF SamlConfig, SamlConfigs
<1>4. QED
  BY <1>3, OptionsAssumption

\* What the settings rely on is there: the tunnel that mail takes, and the SimpleSAMLphp
\* configuration with the session store that MediaWiki uses, also when an error is deferred.
THEOREM SettingsServed == Spec => []SettingsAreServed
<1>1. Init => KeyInv
  BY KeyInitial
<1>2. Init => SettingsInv
  <2>1. Init => ConfigsTyped
    BY DeployedAssumption, OptionsAssumption DEF Init, ConfigsTyped, Configs
  <2>2. QED
    BY <2>1 DEF Init, SettingsInv, ContainersFollow, ConfigIsLoaded, SamlIsPushed, SettingsArePushed, TunnelRuns,
                Active, Settled, FromClient, FromLocal, FromLate, FromCheck, FromShellbox,
                FromShellboxKey, FromGitClear, FromGitService
<1>3. KeyInv => KeysTyped
  BY DEF KeyInv
<1>4. SettingsInv => SettingsAreServed
  <2> SUFFICES ASSUME SettingsInv PROVE SettingsAreServed
    OBVIOUS
  <2>1. ASSUME Active PROVE MailIsRouted
    <3>1. PICK key \in Nat : late = LateSettings(seen, key)
      BY <2>1 DEF Active, Settled, SettingsInv, ContainersFollow, SettingsArePushed
    <3>2. late.mail = Mail(seen)
      BY <3>1 DEF LateSettings
    <3>3. PICK running : tunnelRunning = Replanned(TunnelService(MailTunnel(seen)), running)
      BY <2>1 DEF SettingsInv, ContainersFollow, TunnelRuns
    <3>4. QED
      BY <3>2, <3>3, TunnelServesMail DEF MailIsRouted
  <2>2. ASSUME Settled, late # NONE, "SimpleSAMLphp" \in late.auth
        PROVE  samlFile # NONE /\ samlFile.store = late.cache /\ samlFile.idp = seen.saml
    <3>1. PICK key \in Nat : late = LateSettings(seen, key)
      BY <2>2 DEF SettingsInv, ContainersFollow, SettingsArePushed
    <3>2. late.auth = AuthExtensions(seen) /\ late.cache = Valkey(seen)
      BY <3>1 DEF LateSettings
    <3>3. SamlWritten(seen)
      BY <2>2, <3>2 DEF AuthExtensions
    <3>4. samlFile = SamlConfig(seen)
      BY <2>2, <3>3 DEF SettingsInv, ContainersFollow, SamlIsPushed
    <3>5. samlFile # NONE
      BY <2>2, <3>3, <3>4, SamlConfigIsThere DEF SettingsInv, ContainersFollow, ConfigIsLoaded
    <3>6. QED
      BY <3>2, <3>4, <3>5 DEF SamlConfig
  <2>3. QED
    BY <2>1, <2>2 DEF SettingsAreServed, SamlIsConfigured
<1>5. QED
  BY <1>1, <1>2, <1>3, <1>4, KeyStep, SettingsStep, PTL DEF Spec
=============================================================================
