-------------------------- MODULE ComposerAgreement --------------------------
(***************************************************************************)
(* What the synchronisation of Composer packages promises, without files,  *)
(* hooks or failures: a unit that sets out for a configuration ends up     *)
(* with packages that fit it, or gives up.  Either it resolves them        *)
(* itself, or it looks at what is published and takes exactly that.  Only  *)
(* the leader publishes, and only what it is ready to run with itself.     *)
(***************************************************************************)
CONSTANTS
    Units, Configs,
    Fits,   \* the locks that resolve the dependencies of each configuration
    Bare,   \* configurations without dependencies, for which a unit need not follow
    None

VARIABLES
    leader,
    published,  \* a configuration with its lock, or None
    plan,       \* what a unit set out for: a configuration, the lock that it follows or None,
                \* and whether it leads
    ready       \* the configuration and the lock that a unit is ready to run with, or None

vars == <<leader, published, plan, ready>>

Init ==
    /\ leader \in Units
    /\ published = None
    /\ plan = [u \in Units |-> None]
    /\ ready = [u \in Units |-> None]

Begin(u, config, follows, leads) ==
    /\ plan[u] = None
    /\ plan' = [plan EXCEPT ![u] = [config |-> config, follows |-> follows, leads |-> leads]]
    /\ UNCHANGED <<leader, published, ready>>

Resolve(u) == \E config \in Configs, leads \in {FALSE, u = leader} : Begin(u, config, None, leads)

Follow(u) == published # None /\ Begin(u, published.config, published.lock, FALSE)

Prepare(u) ==
    /\ plan[u] # None
    /\ ready[u] = None
    /\ \E lock \in Fits[plan[u].config] :
          /\ plan[u].follows \in {None, lock} \/ plan[u].config \in Bare
          /\ ready' = [ready EXCEPT ![u] = [config |-> plan[u].config, lock |-> lock]]
    /\ UNCHANGED <<leader, published, plan>>

\* The unit is done, or gives up.
Leave(u) ==
    /\ plan[u] # None
    /\ plan' = [plan EXCEPT ![u] = None]
    /\ ready' = [ready EXCEPT ![u] = None]
    /\ UNCHANGED leader

Publish(u) ==
    /\ u = leader
    /\ ready[u] # None
    /\ plan[u].leads
    /\ published' = ready[u]
    /\ Leave(u)

Elect(u) ==
    /\ u # leader
    /\ leader' = u
    /\ UNCHANGED <<published, plan, ready>>

Next ==
    \E u \in Units :
        \/ Resolve(u) \/ Follow(u) \/ Prepare(u) \/ Publish(u) \/ Elect(u)
        \/ Leave(u) /\ UNCHANGED published

Spec == Init /\ [][Next]_vars
=============================================================================
