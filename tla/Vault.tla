--------------------------------- MODULE Vault ---------------------------------
(***************************************************************************)
(* vault/secrets.py: one encrypted file, opened by several SecretsManagers    *)
(* (the agent's, and the one a wallet command makes for itself).  A secret is *)
(* readable only under the key it was encrypted with: the master key and a    *)
(* salt.  A v2 file carries its salt in a header of 16 bytes; the salt     *)
(* of a v1 file is in salt.bin or is the static one, which is longer.         *)
(* Every call is synchronous, and the file is only ever replaced whole.       *)
(***************************************************************************)
EXTENDS Naturals, FiniteSets

CONSTANTS Names,      \* names of secrets
          Keys,       \* master keys an operator may configure
          Managers,   \* SecretsManager objects
          Random,     \* salts token_bytes may return, and the one in salt.bin
          Static,     \* _LEGACY_SALT
          StaticHead, \* its first 16 bytes, all a v2 header has room for
          NoSession   \* a manager that is not open, or whose vault has no key

ASSUME VaultAssumption ==
    /\ {Static, StaticHead} \cap Random = {} /\ Static # StaticHead
    /\ NoSession \notin [key : Keys, salt : Random \cup {Static, StaticHead}]

Salts == Random \cup {Static, StaticHead}
Sessions == [key : Keys, salt : Salts]

VARIABLES
    format,     \* secrets.enc: none, v1 or v2
    header,     \* the salt a reader finds in the header of a v2 file
    sealed,     \* the key and salt it is encrypted under, NoSession when there is no file
    body,       \* the names in it
    saltBin,    \* salt.bin: its content, or nothing
    session,    \* a manager's _fernet: the key and the salt it was derived from
    promised    \* the names set, and not deleted, by calls that returned

fileVars == <<format, header, sealed, body>>
vaultVars == <<fileVars, saltBin, session, promised>>

VaultTypeOK ==
    /\ format \in {"none", "v1", "v2"} /\ header \in Salts
    /\ sealed \in Sessions \cup {NoSession} /\ body \subseteq Names
    /\ saltBin \subseteq Random
    /\ session \in [Managers -> Sessions \cup {NoSession}]
    /\ promised \subseteq Names

\* No vault yet; one of the static-salt era; or one of the salt.bin era.
VaultInit ==
    /\ \/ /\ format = "none" /\ sealed = NoSession
          /\ body = {} /\ saltBin = {}
       \/ \E key \in Keys, salt \in {Static} \cup Random :
            /\ format = "v1" /\ sealed = [key |-> key, salt |-> salt]
            /\ body = Names /\ saltBin = {salt} \ {Static}
    /\ promised = body
    /\ header = Static
    /\ session = [m \in Managers |-> NoSession]

Exists == sealed # NoSession

\* token_bytes: a salt that nothing uses
InUse(key, salt) == [key |-> key, salt |-> salt] \in {sealed} \cup {session[m] : m \in Managers}
Drawn == {salt \in Random \ saltBin : \A key \in Keys : ~InUse(key, salt)}

\* _locate_legacy_salt: salt.bin may be there and not be readable
LegacySalts == saltBin \cup {Static}

Opens(m, key, salt) == session' = [session EXCEPT ![m] = [key |-> key, salt |-> salt]]

\* unlink() of salt.bin is best effort.
CleanupSaltFile == saltBin' \in {saltBin, {}}

\* _save: a v2 file, whose header has room for 16 bytes of salt
HeaderOf(salt) == IF salt = Static THEN StaticHead ELSE salt
Save(under, content) ==
    /\ format' = "v2" /\ header' = HeaderOf(under.salt)
    /\ sealed' = under /\ body' = content

\* _open_or_init_vault, by what is found on disk
OpenFresh(m, key) ==
    /\ ~Exists
    /\ \E salt \in Drawn : Opens(m, key, salt)
    /\ CleanupSaltFile
    /\ UNCHANGED <<fileVars, promised>>

OpenUnreadable(m, key) ==
    /\ Exists
    /\ \E salt \in Drawn : Opens(m, key, salt)
    /\ UNCHANGED <<fileVars, saltBin, promised>>

OpenV2(m, key) ==
    /\ format = "v2"
    /\ Opens(m, key, header)
    /\ CleanupSaltFile
    /\ UNCHANGED <<fileVars, promised>>

\* The v1 blob does not decrypt: the file is left alone.
OpenWrongKey(m, key) ==
    /\ format = "v1"
    /\ \E salt \in LegacySalts : sealed # [key |-> key, salt |-> salt] /\ Opens(m, key, salt)
    /\ UNCHANGED <<fileVars, saltBin, promised>>

Decrypts(key) == format = "v1" /\ sealed.key = key /\ sealed.salt \in LegacySalts

\* _migrate_to_v2 re-encrypts under a drawn salt, and replaces the file.
Migrate(m, key) ==
    /\ Decrypts(key)
    /\ \E salt \in Drawn : Save([key |-> key, salt |-> salt], body) /\ Opens(m, key, salt)
    /\ CleanupSaltFile
    /\ UNCHANGED promised

\* The write failed: the manager goes on under the legacy salt, located once more.
MutantMigrateFails(m, key) ==      \* the clean-up runs whether or not the write succeeded
    /\ Decrypts(key)
    /\ \E salt \in LegacySalts : Opens(m, key, salt)
    /\ saltBin' = {} /\ UNCHANGED <<fileVars, promised>>
MigrateFails(m, key) ==
    /\ Decrypts(key)
    /\ \E salt \in LegacySalts : Opens(m, key, salt)
    /\ UNCHANGED <<fileVars, saltBin, promised>>

\* __init__ without a key is refused once there is a file, and gives no session before.
VaultOpen(m, key) ==
    /\ session[m] = NoSession
    /\ \/ OpenFresh(m, key) \/ OpenUnreadable(m, key) \/ OpenV2(m, key)
       \/ OpenWrongKey(m, key) \/ Migrate(m, key) \/ MigrateFails(m, key)

\* _load: an existing file must decrypt, or the call raises before anything is written
Loads(m) == session[m] # NoSession /\ sealed \in {NoSession, session[m]}

SetSecret(m, name) ==
    /\ Loads(m)
    /\ Save(session[m], body \cup {name})
    /\ promised' = promised \cup {name}
    /\ UNCHANGED <<saltBin, session>>

DeleteSecret(m, name) ==
    /\ Loads(m) /\ name \in body
    /\ Save(session[m], body \ {name})
    /\ promised' = promised \ {name}
    /\ UNCHANGED <<saltBin, session>>

\* The manager goes away, with the process or with the command that made it.
VaultClose(m) ==
    /\ session[m] # NoSession
    /\ session' = [session EXCEPT ![m] = NoSession]
    /\ UNCHANGED <<fileVars, saltBin, promised>>

VaultNext ==
    \E m \in Managers :
        \/ \E key \in Keys : VaultOpen(m, key)
        \/ \E name \in Names : SetSecret(m, name) \/ DeleteSecret(m, name)
        \/ VaultClose(m)

VaultSpec == VaultInit /\ [][VaultNext]_vaultVars

(***************************************************************************)
(* Properties                                                              *)
(***************************************************************************)
\* The next manager with the file's own key derives the salt it is sealed under.
Findable == sealed.salt \in IF format = "v2" THEN {header} ELSE LegacySalts

\* A manager that outlived a failed migration wrote the file under the static salt, and
\* the header kept its first bytes: only that manager can still read the file.
Clipped == format = "v2" /\ sealed.salt = Static

\* Whatever fails, and with whatever keys the vault is opened, a secret that was stored
\* and not deleted is in the file, and a manager with the file's own key can decrypt it
\* once it reads what is on disk; but for a file clipped after a failed migration.
SecretsKept == promised = body /\ (Exists => Findable \/ Clipped)
===============================================================================
