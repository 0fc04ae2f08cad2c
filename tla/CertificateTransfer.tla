------------------------- MODULE CertificateTransfer -------------------------
(***************************************************************************)
(* The charm library certificate_transfer, both ends.  In version 1 of the *)
(* interface the provider writes the certificates to its application's     *)
(* databag, in version 0 its leader writes them to its unit's.  Which one  *)
(* is used depends on the version that the requirer's leader has published.*)
(***************************************************************************)
EXTENDS FiniteSets

\* _get_relation_data of the provider, whose leader is unit p; bags holds the units' databags.
ProviderRead(version, app, bags, p) == IF version = 1 THEN app ELSE bags[p]

\* _set_relation_data: version 0 does not write an empty set.
AppAfter(version, app, certificates) == IF version = 1 THEN certificates ELSE app
BagsAfter(version, bags, p, certificates) ==
    IF version = 1 \/ certificates = {} THEN bags ELSE [bags EXCEPT ![p] = certificates]

\* add_certificates, remove_certificate and remove_all_certificates.
Operations(certificates) ==
    [added : {{c} : c \in certificates}, removed : {{}}]
        \union [added : {{}}, removed : {{c} : c \in certificates} \union {certificates}]

\* _get_relation_data of the requirer: what it reads and which remote units it has yet to look
\* at.  It takes one out of the relation's set of units, which lives as long as the hook.
Readings(app, bags, units) ==
    IF app # {} \/ units = {} THEN {[found |-> app, units |-> units]}
    ELSE {[found |-> bags[q], units |-> units \ {q}] : q \in units}

\* get_all_certificates in the handler of the relation's own event, whose result is not used, and
\* then in the reconciliation.
SecondReadings(app, bags, units) ==
    UNION {Readings(app, bags, r.units) : r \in Readings(app, bags, units)}

=============================================================================
