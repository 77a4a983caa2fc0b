------------------------------ MODULE MCStorage ------------------------------
(***************************************************************************)
(* Webhook deliveries, the two object collectors and the registry on small *)
(* instances, one part to a behaviour: the parts share no state, so a run  *)
(* explores each of them alone and nothing is lost.                        *)
(***************************************************************************)
EXTENDS Webhooks, BlobStore, LfsStore, Registry, TLC

CONSTANT StorageParts    \* the parts a run explores

VARIABLE storagePart     \* the part this behaviour is of, or "none"

ASSUME StoragePartsAssumption == StorageParts \subseteq {"hooks", "blobs", "lfs", "registry"}

storageVars == <<storagePart, hookVars, blobVars, lfsVars, registryVars>>

InHooks(A) ==
    storagePart = "hooks" /\ A /\ UNCHANGED <<storagePart, blobVars, lfsVars, registryVars>>
InBlobs(A) ==
    storagePart = "blobs" /\ A /\ UNCHANGED <<storagePart, hookVars, lfsVars, registryVars>>
InLfs(A) ==
    storagePart = "lfs" /\ A /\ UNCHANGED <<storagePart, hookVars, blobVars, registryVars>>
InRegistry(A) ==
    storagePart = "registry" /\ A /\ UNCHANGED <<storagePart, hookVars, blobVars, lfsVars>>

\* A bound on the tables a run starts from: the names are those of the
\* repositories, each has its own, and the requests pending cross.
OwnNames ==
    /\ \A r \in Repos : Exists(r) => place[r][2] = r
    /\ \A i \in DOMAIN request :
        request[i].to[2] = request[i].from[2]
            /\ \E j \in DOMAIN request : request[j].from[1] = request[i].to[1]

StorageInit ==
    /\ storagePart \in StorageParts /\ HookInit /\ BlobInit /\ LfsInit
    /\ IF storagePart = "registry" THEN RegistryInit /\ OwnNames ELSE EmptyTables

StorageNext ==
    InHooks(HookNext) \/ InBlobs(BlobNext) \/ InLfs(LfsNext) \/ InRegistry(RegistryNext)

\* The sets of actors and objects of the parts are drawn from the same pairs of
\* names, each of which may be exchanged.
Interchangeable ==
    Permutations(BlobRefs) \cup Permutations(Shas) \cup Permutations(LfsRepos)

\* The variables of the part that runs keep their types.
StorageTypeOK ==
    /\ storagePart = "hooks" => HookTypeOK
    /\ storagePart = "blobs" => BlobTypeOK
    /\ storagePart = "lfs" => LfsTypeOK
    /\ storagePart = "registry" => RegistryTypeOK

=============================================================================
