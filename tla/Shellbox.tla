------------------------------ MODULE Shellbox ------------------------------
(***************************************************************************)
(* The Shellbox sidecar and the authentication key that this unit shares   *)
(* with it.  The key is generated in the hook that first needs it; Juju    *)
(* keeps the secret only if that hook ends well, while the key file stays. *)
(***************************************************************************)
EXTENDS Naturals

CONSTANTS NoKey, MaxKeys \* bound: how many keys are generated
ASSUME KeysAssumption == MaxKeys \in Nat /\ NoKey = 0

VARIABLES
    secret,   \* the key in the unit's secret
    pending,  \* the secret that the running hook has added
    issued,   \* how many keys have been generated
    keyFile,  \* the key in /etc/shellbox/key.conf
    phpFpm    \* the key that the running php-fpm has read; NoKey if it does not run

shellboxVars == <<secret, pending, issued, keyFile, phpFpm>>
Keys == 0..MaxKeys

\* php-fpm is not among the services that the image starts.
ShellboxInit ==
    /\ secret = NoKey /\ pending = NoKey /\ issued = 0
    /\ keyFile = NoKey /\ phpFpm = NoKey
ShellboxReplaced == keyFile' = NoKey /\ phpFpm' = NoKey

\* unit_secret_value: the hook sees its own addition.
KnownKey == IF pending # NoKey THEN pending ELSE secret
AuthenticationKey == IF KnownKey # NoKey THEN KnownKey ELSE issued + 1
GenerateKey ==
    IF KnownKey # NoKey THEN UNCHANGED <<pending, issued>>
    ELSE /\ issued < MaxKeys
         /\ issued' = issued + 1
         /\ pending' = issued + 1

\* Whether the file written next differs is known only to this hook.
WriteKey ==
    /\ GenerateKey
    /\ keyFile' = AuthenticationKey
    /\ UNCHANGED <<secret, phpFpm>>

\* Mutant: replan is left to start php-fpm, and leaves it alone when it runs.
ReplanOnly(keyChanged) ==
    /\ phpFpm' = IF phpFpm = NoKey THEN keyFile ELSE phpFpm
    /\ UNCHANGED <<secret, pending, issued, keyFile>>

\* A changed key restarts php-fpm; replan starts it if it does not run.
StartShellbox(keyChanged) ==
    /\ phpFpm' = IF keyChanged \/ phpFpm = NoKey THEN keyFile ELSE phpFpm
    /\ UNCHANGED <<secret, pending, issued, keyFile>>

\* Pebble restarts php-fpm when its check keeps failing.
RestartShellbox ==
    /\ phpFpm # NoKey
    /\ phpFpm' = keyFile
    /\ UNCHANGED <<secret, pending, issued, keyFile>>

CommitSecret == secret' = KnownKey /\ pending' = NoKey /\ UNCHANGED <<issued, keyFile, phpFpm>>
DiscardSecret == pending' = NoKey /\ UNCHANGED <<secret, issued>>

=============================================================================
