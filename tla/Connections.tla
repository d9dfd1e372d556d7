---------------------------- MODULE Connections ----------------------------
(***************************************************************************)
(* The stored connections of one operator (cockpit/connections): a form     *)
(* saves credentials, which are encrypted field by field under a versioned  *)
(* key, and then probes them and reflects the verdict in the status.  The   *)
(* command line re-encrypts the rows under the next key (key_rotation.py).  *)
(*                                                                          *)
(* Forms are handled in threads, so that two saves and a rotation overlap:  *)
(* each reads a row, and later writes the columns that it changed.  All     *)
(* keys derive from one root secret, and any version can be decrypted.      *)
(***************************************************************************)
EXTENDS Naturals, FiniteSets

CONSTANTS
    Service,     \* kinds of connections; one row of each
    Field,       \* their secret fields
    SecretsOf,   \* secret_fields of each service
    Merging,     \* services that re-encrypt their whole configuration on a save
    Credential,  \* CREDENTIAL_TYPES, which a rotation re-encrypts; the others are for webhooks
    Value,       \* what the operator may type
    Good,        \* the values that a probe accepts
    LooksEncrypted,  \* the values that is_encrypted takes for ciphertexts
    Saver,       \* threads
    MaxSaves,    \* bound on saves and deletions
    MaxKey       \* bound on key versions

ASSUME ConnectionsAssumption ==
    /\ SecretsOf \in [Service -> SUBSET Field] /\ Merging \subseteq Service
    /\ Credential \subseteq Service /\ Good \subseteq Value /\ LooksEncrypted \subseteq Value
    /\ MaxSaves \in Nat /\ MaxKey \in Nat \ {0}

VARIABLES
    row,       \* the connection of each service, or Absent
    saver,     \* what each thread is in the middle of
    rotation,  \* the rows that a rotation has read, by service
    key,       \* KAI_CREDENTIAL_KEY_VERSION
    saves,     \* saves and deletions so far; the number names a version of a configuration
    wanted,    \* history variable: the value of each field that was saved last
    verdict,   \* history variable: what the last probe said of the present configuration
    overtaken  \* history variable: services with a write or a verdict based on an old row

connectionVars == <<row, saver, rotation, key, saves, wanted, verdict, overtaken>>

Missing == [key |-> 0, value |-> "missing"]
Kept == "kept"   \* an empty field of the form
Absent == [id |-> 0]
AtRest == [st |-> "idle"]
NoRotation == [st |-> "idle"]

-----------------------------------------------------------------------------
(* Encryption: a stored secret has the version of its key, 0 if it is stored as it came. *)

IsEncrypted(x) == x.key > 0 \/ x.value \in LooksEncrypted
Encrypt(x, k) == IF x = Missing \/ IsEncrypted(x) THEN x ELSE [x EXCEPT !.key = k]

\* decrypt raises for a value that merely looks encrypted
Decryptable(config) == \A f \in DOMAIN config : ~(config[f].key = 0 /\ IsEncrypted(config[f]))
Decrypt(x) == [x EXCEPT !.key = 0]

EncryptConfig(config, k) == [f \in DOMAIN config |-> Encrypt(config[f], k)]
DecryptConfig(config) == [f \in DOMAIN config |-> Decrypt(config[f])]

\* Faulty variant: an empty field of the form erases the secret
MergedOver(s, old, form) ==
    [f \in SecretsOf[s] |-> IF form[f] = Kept THEN Missing ELSE [key |-> 0, value |-> form[f]]]

\* an empty field of the form keeps the stored secret
Merged(s, old, form) ==
    [f \in SecretsOf[s] |-> IF form[f] = Kept THEN old[f] ELSE [key |-> 0, value |-> form[f]]]

\* the configuration to store
NewConfig(s, old, form) ==
    IF s \in Merging /\ \E f \in SecretsOf[s] : form[f] # Kept
    THEN EncryptConfig(Merged(s, DecryptConfig(old), form), key)
    ELSE EncryptConfig(Merged(s, old, form), key)

-----------------------------------------------------------------------------
(* Saving.                                                                  *)

Config(s) == IF row[s] = Absent THEN [f \in SecretsOf[s] |-> Missing] ELSE row[s].config

\* save up to its commit; a configuration that cannot be decrypted cannot be merged
BeginSave(w, s) ==
    /\ saver[w] = AtRest /\ saves < MaxSaves
    /\ \E form \in [SecretsOf[s] -> Value \cup {Kept}] :
        /\ s \in Merging /\ (\E f \in SecretsOf[s] : form[f] # Kept) => Decryptable(Config(s))
        /\ saver' = [saver EXCEPT ![w] = [st |-> "saving", service |-> s, seen |-> row[s],
                                          form |-> form, config |-> NewConfig(s, Config(s), form)]]
    /\ UNCHANGED <<row, rotation, key, saves, wanted, verdict, overtaken>>

\* the row that a thread has read is still there
SameRow(a, b) == a.id = b.id

\* the commit, by which the operator's choice counts as saved; it fails when the row has
\* appeared or disappeared meanwhile
CommitSave(w) ==
    /\ saver[w].st = "saving" /\ saves < MaxSaves
    /\ LET s == saver[w].service
           seen == saver[w].seen
           n == saves + 1
           new == [id |-> IF seen = Absent THEN n ELSE seen.id, version |-> n,
                   config |-> saver[w].config,
                   status |-> IF seen = Absent THEN "disconnected" ELSE row[s].status]
       IN  IF ~SameRow(seen, row[s])
           THEN /\ saver' = [saver EXCEPT ![w] = AtRest]
                /\ UNCHANGED <<row, saves, wanted, verdict, overtaken>>
           ELSE /\ saves' = n
                /\ row' = [row EXCEPT ![s] = new]
                /\ wanted' = [wanted EXCEPT ![s] = [f \in SecretsOf[s] |->
                        IF saver[w].form[f] = Kept THEN @[f] ELSE saver[w].form[f]]]
                /\ verdict' = [verdict EXCEPT ![s] = "none"]
                /\ overtaken' = IF seen # Absent /\ seen.version # row[s].version
                                THEN overtaken \cup {s} ELSE overtaken
                /\ saver' = [saver EXCEPT ![w] = IF Decryptable(new.config)
                        THEN [st |-> "probing", service |-> s, seen |-> new] ELSE AtRest]
    /\ UNCHANGED <<rotation, key>>

\* verify_conn, probe, probe_url and run_smtp_probe_with_timeout: secrets alone do not decide,
\* and some SMTP servers need none
ProbeOutcome(config) ==
    {"rejected", "transient"} \cup
    {v \in {"ok"} : \A f \in DOMAIN config : config[f].value \in Good \cup {Missing.value}}

\* Faulty variant: every failure keeps the status
StatusKept(old, v) == IF v = "ok" THEN "connected" ELSE old

\* reflect_probe_status: a transient failure keeps a connection connected
StatusAfter(old, v) ==
    IF v = "ok" \/ (v = "transient" /\ old = "connected") THEN "connected" ELSE "disconnected"

\* the probe and reflect_probe_status, which writes a status that differs from the one that
\* the thread has read; the row may be gone
ProbeAndReflect(w) ==
    /\ saver[w].st = "probing"
    /\ LET s == saver[w].service
           seen == saver[w].seen
       IN  \E v \in ProbeOutcome(seen.config) :
             /\ IF SameRow(seen, row[s])
                THEN /\ row' = IF StatusAfter(seen.status, v) = seen.status THEN row
                               ELSE [row EXCEPT ![s].status = StatusAfter(seen.status, v)]
                     /\ verdict' = IF seen.version = row[s].version
                                   THEN [verdict EXCEPT ![s] = v] ELSE verdict
                     /\ overtaken' = IF seen.version = row[s].version THEN overtaken
                                     ELSE overtaken \cup {s}
                ELSE UNCHANGED <<row, verdict, overtaken>>
    /\ saver' = [saver EXCEPT ![w] = AtRest]
    /\ UNCHANGED <<rotation, key, saves, wanted>>

\* delete
DeleteConnection(s) ==
    /\ row[s] # Absent /\ saves < MaxSaves
    /\ saves' = saves + 1
    /\ row' = [row EXCEPT ![s] = Absent]
    /\ wanted' = [wanted EXCEPT ![s] = [f \in SecretsOf[s] |-> "missing"]]
    /\ verdict' = [verdict EXCEPT ![s] = "none"]
    /\ overtaken' = overtaken \ {s}
    /\ UNCHANGED <<saver, rotation, key>>

-----------------------------------------------------------------------------
(* Key rotation, in a process of its own.                                   *)

Present == {s \in Credential : row[s] # Absent}

\* rotate_credential_key up to its commit; one undecryptable row ends it
BeginRotation ==
    /\ rotation = NoRotation /\ key < MaxKey
    /\ \A s \in Present : Decryptable(row[s].config)
    /\ rotation' = [st |-> "rotating", seen |-> [s \in Present |-> row[s]]]
    /\ UNCHANGED <<row, saver, key, saves, wanted, verdict, overtaken>>

\* the commit of all rows, or of none when one of them is gone, and update_env_file, which
\* finds no file in a container: then the old version stays the active one
FinishRotation ==
    /\ rotation.st = "rotating"
    /\ LET seen == rotation.seen
           rotated(s) == EncryptConfig(DecryptConfig(seen[s].config), key + 1)
           late == {s \in DOMAIN seen : seen[s].version # row[s].version}
       IN  IF \E s \in DOMAIN seen : ~SameRow(seen[s], row[s])
           THEN UNCHANGED <<row, key, overtaken>>
           ELSE /\ row' = [s \in Service |-> IF s \in DOMAIN seen
                                             THEN [row[s] EXCEPT !.config = rotated(s)] ELSE row[s]]
                /\ key' \in {key, key + 1}
                /\ overtaken' = overtaken \cup late
    /\ rotation' = NoRotation
    /\ UNCHANGED <<saver, saves, wanted, verdict>>

-----------------------------------------------------------------------------
ConnectionInit ==
    /\ row = [s \in Service |-> Absent]
    /\ saver = [w \in Saver |-> AtRest]
    /\ rotation = NoRotation /\ key = 1 /\ saves = 0
    /\ wanted = [s \in Service |-> [f \in SecretsOf[s] |-> "missing"]]
    /\ verdict = [s \in Service |-> "none"]
    /\ overtaken = {}

ConnectionNext ==
    \/ \E w \in Saver, s \in Service : BeginSave(w, s)
    \/ \E w \in Saver : CommitSave(w) \/ ProbeAndReflect(w)
    \/ \E s \in Service : DeleteConnection(s)
    \/ BeginRotation \/ FinishRotation

ConnectionSpec == ConnectionInit /\ [][ConnectionNext]_connectionVars

-----------------------------------------------------------------------------
(* Properties.                                                              *)

\* Through partial forms, deletions and rotations, interrupted or not, a row holds of each
\* secret what the operator saved last; only a save or rotation that started from an older
\* row loses one.
SecretsSurvive ==
    \A s \in Service \ overtaken : row[s] # Absent =>
        \A f \in SecretsOf[s] : row[s].config[f].value = wanted[s][f]

\* The status agrees with what the last probe said of the configuration that is stored,
\* unless the verdict on an older one came late or a failure was transient.
StatusIsOfConfig ==
    \A s \in Service \ overtaken : row[s] # Absent =>
        /\ verdict[s] = "ok" => row[s].status = "connected"
        /\ verdict[s] = "rejected" => row[s].status = "disconnected"
=============================================================================
