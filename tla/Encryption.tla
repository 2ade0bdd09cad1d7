----------------------------- MODULE Encryption -----------------------------
(***************************************************************************)
(* EncryptionService in the processes of one deployment, which start and   *)
(* are started again one by one, each with the configuration of its time,  *)
(* over ciphertexts they keep in one place.  Keys are derived from the     *)
(* master key and a version; AES-GCM opens a ciphertext with the key that  *)
(* sealed it and with no other.                                            *)
(***************************************************************************)
EXTENDS Integers

CONSTANTS
    Process,        \* processes of the deployment
    Datum,          \* places a ciphertext is kept in
    Master,         \* values of ENCRYPTION_MASTER_KEY
    MaxVersions,    \* bound: ENCRYPTION_KEY_VERSIONS
    Nothing         \* no ciphertext yet

ASSUME EncryptionAssumption ==
    /\ MaxVersions \in Nat \ {0}
    /\ Nothing \notin [master : Master, version : Int, label : Int, upTo : Int]

VARIABLES
    config,         \* each process: its configuration
    stored,         \* each place: the ciphertext, and what sealed it
    thrown          \* each process: whether its last call threw

encryptionVars == <<config, stored, thrown>>

KeyVersion == 1..MaxVersions

\* The count is a number when it is the default or was converted, and the string
\* the environment holds otherwise.
Config == [master : Master, versions : KeyVersion, type : {"number", "string"}]

\* master and version: the key that sealed it.  label: its keyVersion.
\* upTo: history, the versions known to the process that sealed it.
Ciphertext == [master : Master, version : KeyVersion, label : KeyVersion, upTo : KeyVersion]

EncryptionTypeOK ==
    /\ config \in [Process -> Config]
    /\ stored \in [Datum -> Ciphertext \cup {Nothing}]
    /\ thrown \in [Process -> BOOLEAN]

EncryptionInit ==
    /\ \E m \in Master :
           config = [p \in Process |-> [master |-> m, versions |-> 1, type |-> "number"]]
    /\ stored = [d \in Datum |-> Nothing]
    /\ thrown = [p \in Process |-> FALSE]

\* initializeKeys(): one key for each version up to the count, which the loop
\* compares as a number whatever its type.
Keys(p) == 1..config[p].versions

\* getCurrentKey(): k.version === currentKeyVersion, which no string is.
CurrentKeys(p) == {v \in Keys(p) : config[p].type = "number" /\ v = config[p].versions}

\* getKeyByVersion(), then createDecipheriv and final(): the key exists and its tag fits.
Opens(p, c) ==
    /\ c.label \in Keys(p)
    /\ c.version = c.label
    /\ c.master = config[p].master

\* Mutant: the new ciphertext keeps the key version of the old one.
SealedAsBefore(p, v, d) ==
    [master |-> config[p].master, version |-> v, upTo |-> config[p].versions,
     label |-> IF stored[d] = Nothing THEN v ELSE stored[d].label]

\* What encrypt() returns, for the place d, under the key of version v.
Sealed(p, v, d) ==
    [master |-> config[p].master, version |-> v, upTo |-> config[p].versions, label |-> v]

Throws(p) ==
    /\ thrown' = [thrown EXCEPT ![p] = TRUE]
    /\ UNCHANGED <<config, stored>>

Returns(p) == thrown' = [thrown EXCEPT ![p] = FALSE]

\* encrypt(): refuses an empty text, and needs the current key.
Encrypt(p, d, empty) ==
    IF empty \/ CurrentKeys(p) = {}
    THEN Throws(p)
    ELSE /\ \E v \in CurrentKeys(p) : stored' = [stored EXCEPT ![d] = Sealed(p, v, d)]
         /\ Returns(p)
         /\ UNCHANGED config

Decrypt(p, d) ==
    /\ stored[d] # Nothing
    /\ IF Opens(p, stored[d])
       THEN Returns(p) /\ UNCHANGED <<config, stored>>
       ELSE Throws(p)

\* reEncrypt(): decrypt(), then encrypt(), either of which may throw; what was
\* stored then stays.
ReEncrypt(p, d) ==
    /\ stored[d] # Nothing
    /\ IF Opens(p, stored[d]) THEN Encrypt(p, d, FALSE) ELSE Throws(p)

\* A process goes, and another one starts in its place: initializeKeys().
StartAnew(p, c) ==
    /\ config' = [config EXCEPT ![p] = c]
    /\ Returns(p)
    /\ UNCHANGED stored

EncryptionNext ==
    \E p \in Process :
        \/ \E d \in Datum :
               \/ \E empty \in BOOLEAN : Encrypt(p, d, empty)
               \/ Decrypt(p, d)
               \/ ReEncrypt(p, d)
        \/ \E c \in Config : StartAnew(p, c)

EncryptionSpec == EncryptionInit /\ [][EncryptionNext]_encryptionVars

-----------------------------------------------------------------------------
\* Whatever the order in which processes are started again, encrypt and encrypt
\* anew, a process that cannot open a ciphertext was given another master key, or
\* fewer versions, than the process that sealed it: rotating keys by itself never
\* makes data unreadable (encrypt, decrypt, reEncrypt, initializeKeys).
UnreadableHasCause ==
    \A p \in Process, d \in Datum :
        stored[d] # Nothing /\ ~ Opens(p, stored[d]) =>
            \/ config[p].master # stored[d].master
            \/ config[p].versions < stored[d].upTo

-----------------------------------------------------------------------------
(* The inductive invariant: a ciphertext names the key that sealed it, one *)
(* of those its process knew.                                              *)

LabelsTrue ==
    \A d \in Datum :
        stored[d] # Nothing =>
            stored[d].label = stored[d].version /\ stored[d].version <= stored[d].upTo

EncryptionIInv == EncryptionTypeOK /\ LabelsTrue

=============================================================================
