------------------------------ MODULE Frontends ------------------------------
(***************************************************************************)
(* Gateways as HAProxy sees them: the frontends of the wanted              *)
(* configuration (k8s/gate/haproxy/frontends.go), and the certificates and *)
(* crt-lists their binds use, on disk and in the running process           *)
(* (k8s/gate/tree/certificate_builder.go, references_manager.go,           *)
(* k8s/gate/haproxy/certificates.go, storage/cert.go, crt-list.go).        *)
(*                                                                         *)
(* A batch builds the tree (GateTree), writes the certificates, and then   *)
(* computes the frontends and sends the runtime commands.  The reload that *)
(* a batch asks for is taken to be over when the next batch starts; what   *)
(* happens if it is not is the subject of ConfSync.                        *)
(***************************************************************************)
EXTENDS GateTree

CONSTANT StartupFrontends  \* frontends of the file found at startup

VARIABLES frontends,  \* Configuration.structured.Frontends: name -> bind
          owned,      \* FrontendsOwnedbyGateway.current: gateway -> names
          firstSync,  \* FirstSync.flag
          referenced, \* ReferencedSecrets: the pairs <<secret, listener key>>
          certs,      \* certificate files: path -> content
          crtLists,   \* crt-list files: listener key -> secrets
          loaded      \* the process: its certificates and crt-lists

frontVars == <<frontends, owned, firstSync>>
certVars  == <<referenced, certs, crtLists, loaded>>
servingVars == <<gateVars, frontVars, certVars>>
-----------------------------------------------------------------------------
(* A listener's key names its frontend and its crt-list.                   *)
ListenerKeys(g, names) == {g} \X names

(* The maps a frontend looks a request up in, in this order, until one has *)
(* an answer: by the server name if TLS passes through, else by host and   *)
(* path, or by the path alone                                              *)
Lookup(map, how, by) == [map |-> map, how |-> how, by |-> by]

(* A variant of RoutingRules: prefixes are looked up by the path alone.    *)
RoutingRulesNoBase(l) ==
    <<Lookup("path_exact", "map", "base"), Lookup("path_exact", "map", "path"),
      Lookup("path_prefix", "map_beg", "path"), Lookup("domain_wildcard_path_exact", "map_end", "base"),
      Lookup("path_regex", "map_reg", "path"), Lookup("path_regex", "map_reg", "base")>>

RoutingRules(l) ==
    IF l.mode = "Passthrough"
    THEN <<Lookup("sni", "map", "sni"), Lookup("domain_wildcard_sni", "map_end", "sni")>>
    ELSE <<Lookup("path_exact", "map", "base"), Lookup("path_exact", "map", "path"),
           Lookup("path_prefix", "map_beg", "base"), Lookup("path_prefix", "map_beg", "path"),
           Lookup("domain_wildcard_path_exact", "map_end", "base"),
           Lookup("path_regex", "map_reg", "path"), Lookup("path_regex", "map_reg", "base")>>

(* bindParams: TLS that ends here needs the crt-list of the listener       *)
bindParams(l) == [port |-> l.port, crtList |-> l.mode = "Terminate"]

newFrontend(l) == [bind |-> bindParams(l), routing |-> RoutingRules(l),
                   mode |-> IF l.protocol \in {"HTTP", "HTTPS"} THEN "http" ELSE ""]

(* upsertFrontends: the valid listeners of a valid gateway                 *)
UpsertedFrontends(t, g) ==
    LET node == t.gateways[g]
    IN  IF node.in = "managed" /\ node.status = Upserted /\ node.valid
        THEN ListenerKeys(g, {n \in DOMAIN node.listeners : node.listeners[n].valid})
        ELSE {}

(* The listeners whose frontends processGateways deletes: those that are   *)
(* not valid, and all of a gateway that is not valid, deleted or unmanaged *)
DeletedFrontends(t, g) ==
    LET node == t.gateways[g]
    IN  CASE node.in = "managed" /\ node.status = Untouched -> {}
          [] node.in = "managed" /\ node.status = Upserted /\ node.valid ->
               ListenerKeys(g, {n \in DOMAIN node.listeners : ~ node.listeners[n].valid})
          [] OTHER -> ListenerKeys(g, DOMAIN node.spec.listeners)

(* byUpdatedGateways: both upserting and deleting register the gateway     *)
byUpdatedGateways(t) ==
    LET registered == {g \in DOMAIN t.gateways :
                         UpsertedFrontends(t, g) \cup DeletedFrontends(t, g) # {}}
    IN  [g \in registered |-> UpsertedFrontends(t, g)]

OwnedBy(g) == IF g \in DOMAIN owned THEN owned[g] ELSE {}

(* A variant of cleanupFrontendsForGateways: a listener that is gone from  *)
(* the spec keeps its frontend.                                            *)
cleanupNothing(updated) == {}

(* cleanupFrontendsForGateways                                             *)
cleanupFrontendsForGateways(updated) == UNION {OwnedBy(g) \ updated[g] : g \in DOMAIN updated}

(* cleanupAfterFirstSync: what the first batch did not upsert goes         *)
cleanupAfterFirstSync(upserted) == IF firstSync THEN DOMAIN frontends \ upserted ELSE {}

processGateways(t) ==
    LET updated  == byUpdatedGateways(t)
        upserted == UNION {updated[g] : g \in DOMAIN updated}
        removed  == UNION {UNION {DeletedFrontends(t, g) : g \in DOMAIN updated},
                           cleanupFrontendsForGateways(updated),
                           cleanupAfterFirstSync(upserted)}
    IN  /\ frontends' = Override(Without(frontends, removed),
                          [fe \in upserted |-> newFrontend(t.gateways[fe[1]].listeners[fe[2]].spec)])
        /\ owned' = Override(owned, updated)
        /\ firstSync' = FALSE
-----------------------------------------------------------------------------
(* References to secrets, of every gateway of the store; they are only     *)
(* collected again if a gateway was updated.                               *)
buildSecretReferences ==
    {ref \in Secrets \X UNION {ListenerKeys(g, DOMAIN store[g].listeners) : g \in Gateways \cap DOMAIN store} :
        ref[1] \in store[ref[2][1]].listeners[ref[2][2]].certs}

UpdateReferences == IF Gateways \cap updates # {} THEN buildSecretReferences ELSE referenced

ReferencedSecrets(refs)   == {ref[1] : ref \in refs}
ReferencedListeners(refs) == {ref[2] : ref \in refs}
SecretsOf(refs, key)      == {ref[1] : ref \in {x \in refs : x[2] = key}}

LiveSecrets(t) == {s \in DOMAIN t.secrets : t.secrets[s].status # Deleted}

(* NewCertificateData: a secret has key pairs of some types.  The last one *)
(* in this order is the certificate; it is an error to have none.          *)
KeyTypes    == <<"tls", "rsa", "ecdsa", "dsa">>
PairsOf(s)  == {i \in 1..4 : KeyTypes[i] \in DOMAIN store[s]}
KeyPair(s)  == KeyTypes[CHOOSE i \in PairsOf(s) : \A j \in PairsOf(s) : j <= i]
WithPair(S) == {s \in S : PairsOf(s) # {}}

(* CertPath is where crt-lists look for a certificate, and what is deleted *)
(* with it.  Its own path is another one if its pair is not of type tls:   *)
(* the full path and the type, below the directory of CertPath.            *)
CertPath(s)  == <<s, "tls">>
CertPaths(S) == {CertPath(s) : s \in S}
DataPath(s)  == <<s, KeyPair(s)>>
DataPaths(S) == {DataPath(s) : s \in S}

(* The certificates of secrets, by their own paths                         *)
CertificateData(S) == [path \in DataPaths(S) |-> store[path[1]][path[2]]]

(* WriteOnDisk creates the directory of CertPath and no other: a file of   *)
(* another path is not written.                                            *)
Writable(S) == {s \in S : DataPath(s) = CertPath(s)}

(* The certificate files to write and to delete: secrets newly referenced, *)
(* no longer referenced, and still referenced but updated.  A certificate  *)
(* counts as created if it is newly referenced or its secret is new.       *)
handleNewReferencedSecrets(t, now) ==
    WithPair((ReferencedSecrets(now) \ ReferencedSecrets(referenced)) \cap LiveSecrets(t))

handleDeReferencedSecrets(now) == ReferencedSecrets(referenced) \ ReferencedSecrets(now)

SameSecrets(now) == ReferencedSecrets(referenced) \cap ReferencedSecrets(now) \cap updates

(* A variant of handleUpdatedSecrets: only secrets that are new are        *)
(* written.                                                                *)
handleNewSecrets(now) == WithPair((SameSecrets(now) \cap DOMAIN store) \ LiveSecrets(tree))

handleUpdatedSecrets(now) == WithPair(SameSecrets(now) \cap DOMAIN store)

CertsCreated(t, now) == handleNewReferencedSecrets(t, now)
                          \cup (handleUpdatedSecrets(now) \ LiveSecrets(tree))
CertsUpdated(now)    == handleUpdatedSecrets(now) \cap LiveSecrets(tree)
CertsWritten(t, now) == CertsCreated(t, now) \cup CertsUpdated(now)
CertsDeleted(now)    == handleDeReferencedSecrets(now) \cup (SameSecrets(now) \ DOMAIN store)

(* crt-lists: listeners that start to refer to secrets, possibly to none   *)
(* that exists, that stop to, and that still do                            *)
keepOnlyExistingSecrets(t, S) == S \cap LiveSecrets(t)

CrtListsCreated(now) == ReferencedListeners(now) \ ReferencedListeners(referenced)

(* A variant of handleUpdatedCrtList: deleted secrets are not noticed.     *)
handleUpsertedCrtList(t, now) ==
    {key \in ReferencedListeners(now) \cap ReferencedListeners(referenced) :
        LET was == SecretsOf(referenced, key)
            is  == SecretsOf(now, key)
        IN  \/ keepOnlyExistingSecrets(t, is \ was) # {}
            \/ \E s \in (is \cap was) \cap DOMAIN t.secrets : t.secrets[s].status = Upserted
            \/ was \ is # {}}

handleUpdatedCrtList(t, now) ==
    {key \in ReferencedListeners(now) \cap ReferencedListeners(referenced) :
        LET was == SecretsOf(referenced, key)
            is  == SecretsOf(now, key)
        IN  \/ keepOnlyExistingSecrets(t, is \ was) # {}
            \/ \E s \in (is \cap was) \cap DOMAIN t.secrets : t.secrets[s].status # Untouched
            \/ was \ is # {}}

CrtListContent(t, now, key) == keepOnlyExistingSecrets(t, SecretsOf(now, key))

CrtListsEmptied(t, now) == {key \in handleUpdatedCrtList(t, now) : CrtListContent(t, now, key) = {}}

CrtListsDeleted(t, now) == (ReferencedListeners(referenced) \ ReferencedListeners(now))
                             \cup CrtListsEmptied(t, now)

(* ensureCertificatesStorage: errors are ignored, also the one of a        *)
(* certificate that could not be written                                   *)
ensureCertificatesStorage(t, now) ==
    LET written == CrtListsCreated(now) \cup handleUpdatedCrtList(t, now)
    IN  /\ certs' = Override(Without(certs, CertPaths(CertsDeleted(now))),
                             CertificateData(Writable(CertsWritten(t, now))))
        /\ crtLists' = Without(Override(crtLists, [key \in written |-> CrtListContent(t, now, key)]),
                               CrtListsDeleted(t, now))
        /\ referenced' = now
-----------------------------------------------------------------------------
(* What a process that starts loads; it does not start if a crt-list names *)
(* a file that is not there.                                               *)
Disk(c, l) == [certs |-> c, crtLists |-> l]
Loadable(c, l) == \A key \in DOMAIN l : CertPaths(l[key]) \subseteq DOMAIN c

(* A variant of runtimeCertificatesPrechecks: deleted crt-lists are left   *)
(* to the runtime commands.                                                *)
runtimeCreatedPrechecks(t, now) == CrtListsCreated(now) # {}

(* runtimeCertificatesPrechecks: crt-lists cannot be created or deleted    *)
(* through the runtime socket                                              *)
runtimeCertificatesPrechecks(t, now) ==
    CrtListsCreated(now) # {} \/ CrtListsDeleted(t, now) # {}

(* The runtime commands on process p: the process they lead to, or none if *)
(* one is refused.  HAProxy refuses to create a certificate it has, to     *)
(* update or delete one it has not, to put one it has not on a crt-list,   *)
(* to change a crt-list it has not, and to delete a certificate that a     *)
(* crt-list still names.                                                   *)
SetCerts(p, S) == [p EXCEPT !.certs = Override(@, CertificateData(S))]

runtimeCreateCert(p, S) == IF DataPaths(S) \cap DOMAIN p.certs = {} THEN {SetCerts(p, S)} ELSE {}

runtimeUpdateCert(p, S) == IF DataPaths(S) \subseteq DOMAIN p.certs THEN {SetCerts(p, S)} ELSE {}

runtimeUpdateCrtList(p, t, now, keys) ==
    LET contents == [key \in keys |-> CrtListContent(t, now, key)]
    IN  IF /\ keys \subseteq DOMAIN p.crtLists
           /\ \A key \in keys : CertPaths(contents[key]) \subseteq DOMAIN p.certs
        THEN {[p EXCEPT !.crtLists = Override(@, contents)]} ELSE {}

runtimeDeleteCert(p, S) ==
    IF CertPaths(S) \subseteq DOMAIN p.certs /\ \A key \in DOMAIN p.crtLists : p.crtLists[key] \cap S = {}
    THEN {[p EXCEPT !.certs = Without(@, CertPaths(S))]} ELSE {}

(* executeRuntimeCertCommands: certificates are created and updated, then  *)
(* crt-lists updated, then certificates deleted                            *)
executeRuntimeCertCommands(t, now) ==
    LET created == runtimeCreateCert(loaded, CertsCreated(t, now))
        updated == UNION {runtimeUpdateCert(p, CertsUpdated(now)) : p \in created}
        listed  == UNION {runtimeUpdateCrtList(p, t, now, handleUpdatedCrtList(t, now)) : p \in updated}
    IN  UNION {runtimeDeleteCert(p, CertsDeleted(now)) : p \in listed}

(* What a refused command may leave behind                                 *)
Interrupted(t, now) ==
    {[certs |-> Without(SetCerts(loaded, S).certs, CertPaths(D)), crtLists |->
        Override(loaded.crtLists, [key \in L |-> CrtListContent(t, now, key)])] :
        S \in SUBSET CertsWritten(t, now), D \in SUBSET CertsDeleted(now),
        L \in SUBSET (handleUpdatedCrtList(t, now) \cap DOMAIN loaded.crtLists)}

(* processCertificates: a command that is refused, for these reasons or    *)
(* any other, asks for a reload, and so may anything else in the batch; a  *)
(* reload that fails leaves the process as it is.                          *)
processCertificates(t, now) ==
    LET reloaded == IF Loadable(certs', crtLists') THEN {Disk(certs', crtLists')} ELSE Interrupted(t, now)
        updated  == IF runtimeCertificatesPrechecks(t, now) THEN {} ELSE executeRuntimeCertCommands(t, now)
    IN  loaded' \in reloaded \cup updated
-----------------------------------------------------------------------------
FrontendsInit ==
        /\ GateInit
        /\ frontends = [fe \in StartupFrontends |->
                            [bind |-> [port |-> 0, crtList |-> FALSE], routing |-> <<>>, mode |-> "http"]]
        /\ owned = <<>> /\ firstSync = TRUE
        /\ referenced = {} /\ certs = <<>> /\ crtLists = <<>>
        /\ loaded = Disk(<<>>, <<>>)

(* HandleEventBatch: the tree and its certificates, then ComputeDiffs      *)
HandleEventBatch == /\ Batch
                    /\ ensureCertificatesStorage(tree', UpdateReferences)
                    /\ processGateways(tree')
                    /\ processCertificates(tree', UpdateReferences)

FrontendsNext == \/ Input /\ UNCHANGED <<frontVars, certVars>>
                 \/ HandleEventBatch

FrontendsSpec == FrontendsInit /\ [][FrontendsNext]_servingVars
-----------------------------------------------------------------------------
(* Frontends                                                               *)

(* A port is bound by one frontend: of two listeners with the same port,   *)
(* of one gateway or of two, gateway_builder.go accepts neither, and the   *)
(* frontends they had are deleted in the batch that finds the conflict.    *)
NoPortServedTwice ==
    ~ firstSync => \A fe, other \in DOMAIN frontends :
                      frontends[fe].bind.port = frontends[other].bind.port => fe = other

(* The wanted configuration has exactly the frontends of the valid         *)
(* listeners of the valid gateways, as they are now: whatever a gateway    *)
(* loses (a listener, its class, its validity, itself) is cleaned up, and  *)
(* what the configuration file held at startup is gone after one batch.    *)
FrontendsExact ==
    ~ firstSync =>
        LET valid == {g \in LiveGateways(tree) : tree.gateways[g].valid}
            keys  == UNION {ListenerKeys(g, {n \in DOMAIN tree.gateways[g].listeners :
                                               tree.gateways[g].listeners[n].valid}) : g \in valid}
        IN  frontends = [fe \in keys |-> newFrontend(tree.gateways[fe[1]].spec.listeners[fe[2]])]

WantedSecrets == ReferencedSecrets(buildSecretReferences) \cap DOMAIN store

(* Between batches the certificate files are those of secrets that exist   *)
(* and that a listener refers to.  A secret of these whose only key pair   *)
(* is of type tls has its file, with the current content.  One with a pair *)
(* of another type, or with none, has no file or the last one written for  *)
(* it: its own file is in a directory that does not exist.                 *)
CertificateFilesExact ==
    updates = {} => /\ DOMAIN certs \subseteq CertPaths(WantedSecrets)
                    /\ \A s \in Writable(WithPair(WantedSecrets)) :
                          CertPath(s) \in DOMAIN certs /\ certs[CertPath(s)] = store[s]["tls"]

(* Between batches the crt-list of a listener names the secrets the        *)
(* listener refers to and that exist; no file is the same as none.         *)
CrtListsExact ==
    updates = {} =>
        \A key \in DOMAIN crtLists \cup ReferencedListeners(buildSecretReferences) :
            (IF key \in DOMAIN crtLists THEN crtLists[key] ELSE {}) =
                SecretsOf(buildSecretReferences, key) \cap DOMAIN store

(* A batch that finds the process with the certificates and crt-lists on   *)
(* disk leaves it with those on disk, with or without a reload, unless the *)
(* process could not start with them.                                      *)
ProcessFollowsDisk ==
    [][loaded = Disk(certs, crtLists) /\ Loadable(certs', crtLists')
         => loaded' = Disk(certs', crtLists')]_servingVars
=============================================================================
