--------------------------- MODULE CockpitProofs ---------------------------
(***************************************************************************)
(* Logins and connections, for any users, requests, tokens, windows and     *)
(* limits, and for any services, secrets, threads and key versions.         *)
(***************************************************************************)
EXTENDS OperatorLogin, Connections, SequenceTheorems, FiniteSetTheorems, WellFoundedInduction,
        TLAPS

-----------------------------------------------------------------------------
(* Connections: types.                                                      *)

Secrets == [key : Nat, value : Value \cup {Missing.value}]
Configs(s) == [SecretsOf[s] -> Secrets]
Forms(s) == [SecretsOf[s] -> Value \cup {Kept}]
Status == {"connected", "disconnected"}
Rows(s) == [id : Nat \ {0}, version : Nat, config : Configs(s), status : Status]

Saving(s) ==
    [st : {"saving"}, service : {s}, seen : Rows(s) \cup {Absent}, form : Forms(s),
     config : Configs(s)]
Probing(s) == [st : {"probing"}, service : {s}, seen : Rows(s)]

RowsTyped ==
    /\ DOMAIN row = Service
    /\ \A s \in Service : row[s] = Absent \/ row[s] \in Rows(s)
SaversTyped ==
    /\ DOMAIN saver = Saver
    /\ \A w \in Saver : \/ saver[w] = AtRest
                        \/ \E s \in Service : saver[w] \in Saving(s) \/ saver[w] \in Probing(s)
RotationTyped ==
    \/ rotation = NoRotation
    \/ /\ rotation.st = "rotating" /\ DOMAIN rotation.seen \subseteq Service
       /\ \A s \in DOMAIN rotation.seen : rotation.seen[s] \in Rows(s)
HistoryTyped ==
    /\ key \in Nat /\ saves \in Nat
    /\ DOMAIN wanted = Service /\ DOMAIN verdict = Service
    /\ \A s \in Service : wanted[s] \in [SecretsOf[s] -> Value \cup {Missing.value}]
ConnectionTypes == RowsTyped /\ SaversTyped /\ RotationTyped /\ HistoryTyped

-----------------------------------------------------------------------------
(* Connections: the inductive invariant.                                    *)

SameValues(s, c, d) == \A f \in SecretsOf[s] : c[f].value = d[f].value

\* a version names one set of values, as long as nobody wrote from an older row
Known(s, seen) ==
    /\ seen.version <= saves
    /\ s \notin overtaken /\ row[s] # Absent /\ row[s].version = seen.version
           => SameValues(s, seen.config, row[s].config)

\* what a save will write: a secret that was kept has the value that the thread has seen
Merges(s, op) ==
    \A f \in SecretsOf[s] :
        op.config[f].value = IF op.form[f] # Kept THEN op.form[f]
                             ELSE IF op.seen = Absent THEN Missing.value
                             ELSE op.seen.config[f].value

StoredInv ==
    \A s \in Service :
        /\ row[s] = Absent => \A f \in SecretsOf[s] : wanted[s][f] = Missing.value
        /\ row[s] # Absent => row[s].version <= saves

SavesInv ==
    \A w \in Saver : saver[w].st = "saving" =>
        /\ saver[w].seen # Absent => Known(saver[w].service, saver[w].seen)
        /\ Merges(saver[w].service, saver[w])

RotationInv ==
    rotation.st = "rotating" => \A s \in DOMAIN rotation.seen : Known(s, rotation.seen[s])

\* the thread that will reflect a verdict on the present row knows its status
Reflects(s, seen) ==
    /\ seen.version <= saves
    /\ s \notin overtaken /\ row[s] # Absent /\ row[s].version = seen.version
           => row[s].status = seen.status
ProbesInv ==
    \A w \in Saver : saver[w].st = "probing" =>
        /\ Reflects(saver[w].service, saver[w].seen)
        /\ \A v \in Saver \ {w} : saver[v].st = "probing" =>
               saver[v].seen.version # saver[w].seen.version

ConnectionInv ==
    /\ ConnectionTypes /\ StoredInv /\ SavesInv /\ RotationInv /\ ProbesInv
    /\ SecretsSurvive /\ StatusIsOfConfig

-----------------------------------------------------------------------------
(* Encryption.                                                              *)

\* neither encryption nor decryption changes a value
LEMMA CryptKeepsValues ==
    ASSUME NEW x \in Secrets, NEW k \in Nat
    PROVE  /\ Encrypt(x, k) \in Secrets /\ Encrypt(x, k).value = x.value
           /\ Decrypt(x) \in Secrets /\ Decrypt(x).value = x.value
BY DEF Encrypt, Decrypt, Secrets

\* nor does that of a configuration
LEMMA CryptKeepsConfigs ==
    ASSUME NEW s \in Service, NEW c \in Configs(s), NEW k \in Nat
    PROVE  /\ EncryptConfig(c, k) \in Configs(s) /\ SameValues(s, EncryptConfig(c, k), c)
           /\ DecryptConfig(c) \in Configs(s) /\ SameValues(s, DecryptConfig(c), c)
BY CryptKeepsValues DEF EncryptConfig, DecryptConfig, Configs, SameValues

\* a merge keeps the values of the fields that the form leaves empty
LEMMA MergedValues ==
    ASSUME NEW s \in Service, NEW old \in Configs(s), NEW form \in Forms(s)
    PROVE  /\ Merged(s, old, form) \in Configs(s)
           /\ \A f \in SecretsOf[s] : Merged(s, old, form)[f].value =
                  IF form[f] # Kept THEN form[f] ELSE old[f].value
BY DEF Merged, Configs, Forms, Secrets

\* and so does the configuration that is stored, merged in clear or encrypted
LEMMA NewConfigValues ==
    ASSUME NEW s \in Service, NEW old \in Configs(s), NEW form \in Forms(s), key \in Nat
    PROVE  /\ NewConfig(s, old, form) \in Configs(s)
           /\ \A f \in SecretsOf[s] : NewConfig(s, old, form)[f].value =
                  IF form[f] # Kept THEN form[f] ELSE old[f].value
<1>1. PICK clear \in Configs(s) : clear = DecryptConfig(old) /\ SameValues(s, clear, old)
  BY CryptKeepsConfigs, key \in Nat
<1>2. PICK base : base \in Configs(s) /\ SameValues(s, base, old)
                  /\ NewConfig(s, old, form) = EncryptConfig(Merged(s, base, form), key)
  BY <1>1 DEF NewConfig, SameValues
<1>3. PICK merged \in Configs(s) :
        /\ merged = Merged(s, base, form)
        /\ \A f \in SecretsOf[s] :
               merged[f].value = IF form[f] # Kept THEN form[f] ELSE base[f].value
  BY <1>2, MergedValues
<1>4. EncryptConfig(merged, key) \in Configs(s)
      /\ SameValues(s, EncryptConfig(merged, key), merged)
  BY CryptKeepsConfigs, key \in Nat
<1> QED
  BY <1>2, <1>3, <1>4 DEF SameValues

\* the configuration of a service without a row misses every secret
LEMMA ConfigTyped ==
    ASSUME NEW s \in Service, row[s] = Absent \/ row[s] \in Rows(s)
    PROVE  Config(s) \in Configs(s)
BY DEF Config, Configs, Rows, Secrets, Missing

\* a row is there
LEMMA RowPresent ==
    ASSUME NEW s \in Service, NEW r \in Rows(s) PROVE r # Absent /\ r.id # Absent.id
BY DEF Rows, Absent

-----------------------------------------------------------------------------
(* Connections: the threads.                                                *)

\* the states of a thread tell its steps apart
LEMMA SaverCases ==
    ASSUME SaversTyped, NEW w \in Saver
    PROVE  /\ saver[w].st = "saving" => \E s \in Service : saver[w] \in Saving(s)
           /\ saver[w].st = "probing" => \E s \in Service : saver[w] \in Probing(s)
BY DEF SaversTyped, Saving, Probing, AtRest

\* a save writes a row of its service
LEMMA CommittedRow ==
    ASSUME NEW s \in Service, NEW op \in Saving(s), saves \in Nat, NEW old,
           old = Absent \/ old \in Rows(s), SameRow(op.seen, old)
    PROVE  [id |-> IF op.seen = Absent THEN saves + 1 ELSE op.seen.id, version |-> saves + 1,
            config |-> op.config,
            status |-> IF op.seen = Absent THEN "disconnected" ELSE old.status] \in Rows(s)
<1>1. op.seen # Absent => op.seen \in Rows(s)
  BY DEF Saving
<1>2. op.seen # Absent => old \in Rows(s)
  BY <1>1, RowPresent DEF SameRow
<1>3. op.seen # Absent => op.seen.id \in Nat \ {0} /\ old.status \in Status
  BY <1>1, <1>2 DEF Rows
<1>4. op.config \in Configs(s) /\ saves + 1 \in Nat \ {0}
  BY saves \in Nat DEF Saving
<1> QED
  BY <1>3, <1>4 DEF Rows, Status

-----------------------------------------------------------------------------
(* Connections: what the larger steps do.                                   *)

\* a save that finds its row as it was, or still finds none
Commits(w, s, op, new) ==
    /\ SameRow(op.seen, row[s])
    /\ new.version = saves + 1 /\ new.config = op.config
    /\ new.status = IF op.seen = Absent THEN "disconnected" ELSE row[s].status
    /\ saves' = saves + 1 /\ row' = [row EXCEPT ![s] = new]
    /\ wanted' = [wanted EXCEPT ![s] = [f \in SecretsOf[s] |->
           IF op.form[f] = Kept THEN wanted[s][f] ELSE op.form[f]]]
    /\ verdict' = [verdict EXCEPT ![s] = "none"]
    /\ overtaken' = IF op.seen # Absent /\ op.seen.version # row[s].version
                    THEN overtaken \cup {s} ELSE overtaken
    /\ saver' = [saver EXCEPT ![w] = IF Decryptable(new.config)
           THEN [st |-> "probing", service |-> s, seen |-> new] ELSE AtRest]
    /\ UNCHANGED <<rotation, key>>

\* a save that finds its row gone, or one where there was none
Refused(w) ==
    /\ saver' = [saver EXCEPT ![w] = AtRest]
    /\ UNCHANGED <<row, rotation, key, saves, wanted, verdict, overtaken>>

\* the two ends of a save
LEMMA CommitEffect ==
    ASSUME ConnectionTypes, NEW w \in Saver, CommitSave(w)
    PROVE  \E s \in Service : \E op \in Saving(s) :
               op = saver[w] /\ (Refused(w) \/ \E new \in Rows(s) : Commits(w, s, op, new))
<1>1. PICK s \in Service : saver[w] \in Saving(s)
  BY SaverCases DEF CommitSave, ConnectionTypes
<1>2. PICK op \in Saving(s) : op = saver[w]
  BY <1>1
<1>3. op.service = s
  BY DEF Saving
<1>4. CASE ~SameRow(op.seen, row[s])
  <2>1. Refused(w)
    BY <1>2, <1>3, <1>4 DEF CommitSave, Refused
  <2> QED
    BY <1>2, <2>1
<1>5. CASE SameRow(op.seen, row[s])
  <2>1. PICK new : new =
          [id |-> IF op.seen = Absent THEN saves + 1 ELSE op.seen.id, version |-> saves + 1,
           config |-> op.config,
           status |-> IF op.seen = Absent THEN "disconnected" ELSE row[s].status]
    OBVIOUS
  <2>2. new \in Rows(s)
    BY <1>5, <2>1, CommittedRow DEF ConnectionTypes, RowsTyped, HistoryTyped
  <2>3. Commits(w, s, op, new)
    BY <1>2, <1>3, <1>5, <2>1 DEF CommitSave, Commits, ConnectionTypes, HistoryTyped
  <2> QED
    BY <1>2, <2>2, <2>3
<1> QED
  BY <1>4, <1>5

\* a verdict on the row that a thread has read
Judges(w, s, seen, v) ==
    /\ saver[w] = [st |-> "probing", service |-> s, seen |-> seen]
    /\ IF SameRow(seen, row[s])
       THEN /\ row' = IF StatusAfter(seen.status, v) = seen.status THEN row
                      ELSE [row EXCEPT ![s].status = StatusAfter(seen.status, v)]
            /\ verdict' = IF seen.version = row[s].version
                          THEN [verdict EXCEPT ![s] = v] ELSE verdict
            /\ overtaken' = IF seen.version = row[s].version THEN overtaken
                            ELSE overtaken \cup {s}
       ELSE UNCHANGED <<row, verdict, overtaken>>
    /\ saver' = [saver EXCEPT ![w] = AtRest]
    /\ UNCHANGED <<rotation, key, saves, wanted>>

\* a probe gives one
LEMMA ProbeEffect ==
    ASSUME ConnectionTypes, NEW w \in Saver, ProbeAndReflect(w)
    PROVE  \E s \in Service : \E seen \in Rows(s) :
               \E v \in {"ok", "rejected", "transient"} : Judges(w, s, seen, v)
<1>1. PICK s \in Service : saver[w] \in Probing(s)
  BY SaverCases DEF ProbeAndReflect, ConnectionTypes
<1>2. PICK seen \in Rows(s) : saver[w] = [st |-> "probing", service |-> s, seen |-> seen]
  BY <1>1 DEF Probing
<1>3. PICK v \in ProbeOutcome(seen.config) : Judges(w, s, seen, v)
  BY <1>2 DEF ProbeAndReflect, Judges
<1>4. v \in {"ok", "rejected", "transient"}
  BY DEF ProbeOutcome
<1> QED
  BY <1>3, <1>4

\* what a rotation writes, when every row that it read is still there
Rotated(c) == EncryptConfig(DecryptConfig(c), key + 1)
Rotates(seen) ==
    /\ \A s \in DOMAIN seen : SameRow(seen[s], row[s])
    /\ row' = [s \in Service |-> IF s \in DOMAIN seen
                                 THEN [row[s] EXCEPT !.config = Rotated(seen[s].config)]
                                 ELSE row[s]]
    /\ key' \in {key, key + 1}
    /\ overtaken' = overtaken \cup {s \in DOMAIN seen : seen[s].version # row[s].version}

\* the two ends of a rotation
LEMMA RotationEffect ==
    ASSUME ConnectionTypes, FinishRotation
    PROVE  /\ rotation.st = "rotating" /\ DOMAIN rotation.seen \subseteq Service
           /\ \A s \in DOMAIN rotation.seen : rotation.seen[s] \in Rows(s)
           /\ UNCHANGED <<row, key, overtaken>> \/ Rotates(rotation.seen)
           /\ rotation' = NoRotation /\ UNCHANGED <<saver, saves, wanted, verdict>>
BY DEF FinishRotation, Rotates, Rotated, ConnectionTypes, RotationTyped, NoRotation

\* it leaves everything of a row but the keys of its secrets
LEMMA RotatedRow ==
    ASSUME ConnectionTypes, NEW s \in Service, NEW r \in Rows(s), SameRow(r, row[s])
    PROVE  /\ row[s] \in Rows(s)
           /\ [row[s] EXCEPT !.config = Rotated(r.config)] \in Rows(s)
           /\ SameValues(s, Rotated(r.config), r.config)
<1>1. row[s] \in Rows(s)
  BY RowPresent DEF ConnectionTypes, RowsTyped, SameRow
<1>2. PICK c \in Configs(s) : c = r.config
  BY DEF Rows
<1>3. PICK k \in Nat : k = key + 1
  BY DEF ConnectionTypes, HistoryTyped
<1>4. PICK d \in Configs(s) : d = DecryptConfig(c) /\ SameValues(s, d, c)
  BY <1>3, CryptKeepsConfigs
<1>5. EncryptConfig(d, k) \in Configs(s) /\ SameValues(s, EncryptConfig(d, k), d)
  BY CryptKeepsConfigs
<1>6. Rotated(r.config) = EncryptConfig(d, k)
  BY <1>2, <1>3, <1>4 DEF Rotated
<1>7. Rotated(r.config) \in Configs(s)
  BY <1>5, <1>6
<1>8. SameValues(s, Rotated(r.config), r.config)
  BY <1>2, <1>4, <1>5, <1>6 DEF SameValues
<1> QED
  BY <1>1, <1>7, <1>8 DEF Rows

-----------------------------------------------------------------------------
(* Connections: every step preserves the types.                             *)

\* the types hold at first, and every step keeps them
LEMMA ConnectionTypesInductive ==
    /\ ConnectionInit => ConnectionTypes
    /\ ConnectionTypes /\ [ConnectionNext]_connectionVars => ConnectionTypes'
<1> USE ConnectionsAssumption DEF ConnectionTypes
<1>1. ConnectionInit => ConnectionTypes
  BY DEF ConnectionInit, RowsTyped, SaversTyped, RotationTyped, HistoryTyped, Missing
<1>2. ASSUME ConnectionTypes, UNCHANGED connectionVars PROVE ConnectionTypes'
  BY <1>2 DEF connectionVars, RowsTyped, SaversTyped, RotationTyped, HistoryTyped
<1>3. ASSUME ConnectionTypes, NEW w \in Saver, NEW s \in Service, BeginSave(w, s)
      PROVE  ConnectionTypes'
  <2>1. PICK form \in Forms(s) :
          saver' = [saver EXCEPT ![w] =
              [st |-> "saving", service |-> s, seen |-> row[s],
               form |-> form, config |-> NewConfig(s, Config(s), form)]]
    BY <1>3 DEF BeginSave, Forms
  <2>2. PICK old \in Configs(s) : old = Config(s)
    BY <1>3, ConfigTyped DEF RowsTyped
  <2>3. NewConfig(s, old, form) \in Configs(s)
    BY <1>3, NewConfigValues DEF HistoryTyped
  <2>4. row[s] \in Rows(s) \cup {Absent}
    BY <1>3 DEF RowsTyped
  <2>5. [st |-> "saving", service |-> s, seen |-> row[s], form |-> form,
         config |-> NewConfig(s, Config(s), form)] \in Saving(s)
    BY <2>2, <2>3, <2>4 DEF Saving
  <2>6. SaversTyped'
    BY <1>3, <2>1, <2>5 DEF SaversTyped, Saving, Probing
  <2> QED
    BY <1>3, <2>6 DEF BeginSave, RowsTyped, RotationTyped, HistoryTyped
<1>4. ASSUME ConnectionTypes, NEW w \in Saver, CommitSave(w) PROVE ConnectionTypes'
  <2>1. PICK s \in Service : \E op \in Saving(s) :
          op = saver[w] /\ (Refused(w) \/ \E new \in Rows(s) : Commits(w, s, op, new))
    BY <1>4, CommitEffect
  <2>2. PICK op \in Saving(s) :
          op = saver[w] /\ (Refused(w) \/ \E new \in Rows(s) : Commits(w, s, op, new))
    BY <2>1
  <2>3. CASE Refused(w)
    BY <1>4, <2>3 DEF Refused, RowsTyped, SaversTyped, RotationTyped, HistoryTyped
  <2>4. ASSUME NEW new \in Rows(s), Commits(w, s, op, new) PROVE ConnectionTypes'
    <3>1. [st |-> "probing", service |-> s, seen |-> new] \in Probing(s)
      BY DEF Probing
    <3>2. SaversTyped'
      BY <1>4, <2>4, <3>1 DEF Commits, SaversTyped, Saving, Probing
    <3>3. RowsTyped'
      BY <1>4, <2>4 DEF Commits, RowsTyped
    <3>4. [f \in SecretsOf[s] |-> IF op.form[f] = Kept THEN wanted[s][f] ELSE op.form[f]]
              \in [SecretsOf[s] -> Value \cup {Missing.value}]
      BY <1>4 DEF HistoryTyped, Saving, Forms
    <3>5. HistoryTyped'
      BY <1>4, <2>4, <3>4 DEF Commits, HistoryTyped
    <3> QED
      BY <1>4, <2>4, <3>2, <3>3, <3>5 DEF Commits, RotationTyped
  <2> QED
    BY <2>2, <2>3, <2>4
<1>5. ASSUME ConnectionTypes, NEW w \in Saver, ProbeAndReflect(w) PROVE ConnectionTypes'
  <2>1. PICK s \in Service : \E seen \in Rows(s) :
          \E v \in {"ok", "rejected", "transient"} : Judges(w, s, seen, v)
    BY <1>5, ProbeEffect
  <2>2. PICK seen \in Rows(s), v \in {"ok", "rejected", "transient"} : Judges(w, s, seen, v)
    BY <2>1
  <2>3. SameRow(seen, row[s]) => row[s] \in Rows(s)
    BY <1>5, RowPresent DEF SameRow, RowsTyped
  <2>4. StatusAfter(seen.status, v) \in Status
    BY DEF StatusAfter, Status
  <2>5. RowsTyped'
    BY <1>5, <2>2, <2>3, <2>4 DEF Judges, RowsTyped, Rows
  <2>6. HistoryTyped'
    BY <1>5, <2>2 DEF Judges, HistoryTyped
  <2>7. SaversTyped'
    BY <1>5, <2>2 DEF Judges, SaversTyped
  <2> QED
    BY <1>5, <2>2, <2>5, <2>6, <2>7 DEF Judges, RotationTyped
<1>6. ASSUME ConnectionTypes, NEW s \in Service, DeleteConnection(s) PROVE ConnectionTypes'
  <2>1. [f \in SecretsOf[s] |-> "missing"] \in [SecretsOf[s] -> Value \cup {Missing.value}]
    BY DEF Missing
  <2> QED
    BY <1>6, <2>1 DEF DeleteConnection, RowsTyped, SaversTyped, RotationTyped, HistoryTyped
<1>7. ASSUME ConnectionTypes, BeginRotation PROVE ConnectionTypes'
  <2>1. RotationTyped'
    BY <1>7 DEF BeginRotation, RotationTyped, RowsTyped, Present
  <2> QED
    BY <1>7, <2>1 DEF BeginRotation, RowsTyped, SaversTyped, HistoryTyped
<1>8. ASSUME ConnectionTypes, FinishRotation PROVE ConnectionTypes'
  <2>1. RowsTyped'
    <3>1. CASE UNCHANGED row
      BY <1>8, <3>1 DEF RowsTyped
    <3>2. CASE Rotates(rotation.seen)
      <4>1. \A s \in DOMAIN rotation.seen : s \in Service /\ rotation.seen[s] \in Rows(s)
        BY <1>8, RotationEffect
      <4>2. \A s \in DOMAIN rotation.seen :
              [row[s] EXCEPT !.config = Rotated(rotation.seen[s].config)] \in Rows(s)
        BY <1>8, <3>2, <4>1, RotatedRow DEF Rotates
      <4> QED
        BY <1>8, <3>2, <4>2 DEF Rotates, RowsTyped
    <3> QED
      BY <1>8, <3>1, <3>2, RotationEffect
  <2>2. HistoryTyped'
    BY <1>8, RotationEffect DEF Rotates, HistoryTyped
  <2> QED
    BY <1>8, <2>1, <2>2, RotationEffect DEF RotationTyped, SaversTyped
<1> QED
  BY <1>1, <1>2, <1>3, <1>4, <1>5, <1>6, <1>7, <1>8 DEF ConnectionNext

-----------------------------------------------------------------------------
(* Connections: what every step leaves of the rows.                         *)

\* s is as it was, as far as anyone relies on it: deleted, overtaken, or of the same version
\* with the same secrets
Keeps(s) ==
    s \notin overtaken' /\ row'[s] # Absent =>
        /\ s \notin overtaken /\ row[s] # Absent /\ row'[s].version = row[s].version
        /\ SameValues(s, row'[s].config, row[s].config) /\ wanted'[s] = wanted[s]

\* the row stays, or stays away
RowLasts(s) ==
    /\ wanted'[s] = wanted[s]
    /\ row'[s] = Absent <=> row[s] = Absent
    /\ row[s] # Absent => row'[s].version = row[s].version

\* or is deleted
RowGoes(s) ==
    row'[s] = Absent /\ wanted'[s] = [f \in SecretsOf[s] |-> Missing.value]

\* so is a service whose row, history and overtaking a step leaves alone
LEMMA UntouchedKeeps ==
    ASSUME NEW s \in Service, row'[s] = row[s], wanted'[s] = wanted[s],
           s \in overtaken => s \in overtaken'
    PROVE  Keeps(s) /\ RowLasts(s)
BY DEF Keeps, RowLasts, SameValues

\* a verdict changes a status alone
LEMMA VerdictKeeps ==
    ASSUME ConnectionTypes, NEW w \in Saver, NEW s \in Service, NEW seen \in Rows(s), NEW v,
           Judges(w, s, seen, v), NEW t \in Service
    PROVE  Keeps(t) /\ RowLasts(t)
<1>1. SameRow(seen, row[s]) => row[s] \in Rows(s)
  BY RowPresent DEF SameRow, ConnectionTypes, RowsTyped
<1>2. CASE row' = row
  BY <1>2, UntouchedKeeps DEF Judges
<1>3. CASE row' # row
  <2>1. /\ row' = [row EXCEPT ![s].status = StatusAfter(seen.status, v)]
        /\ row[s] \in Rows(s) /\ row[s] # Absent
    BY <1>1, <1>3, RowPresent DEF Judges
  <2>2. DOMAIN row = Service
    BY DEF ConnectionTypes, RowsTyped
  <2>3. CASE t = s
    <3>1. /\ row'[s].config = row[s].config /\ row'[s].version = row[s].version
          /\ row'[s] # Absent
      BY <2>1, <2>2 DEF Rows, Absent
    <3>2. wanted' = wanted /\ overtaken \subseteq overtaken'
      BY DEF Judges
    <3> QED
      BY <2>1, <2>3, <3>1, <3>2 DEF Keeps, RowLasts, SameValues
  <2>4. CASE t # s
    <3>1. row'[t] = row[t] /\ wanted'[t] = wanted[t] /\ overtaken \subseteq overtaken'
      BY <2>1, <2>2, <2>4 DEF Judges
    <3> QED
      BY <3>1, UntouchedKeeps
  <2> QED
    BY <2>3, <2>4
<1> QED
  BY <1>2, <1>3

\* a rotation keeps the secrets of every row that it does not overtake
LEMMA RotationKeeps ==
    ASSUME ConnectionTypes, RotationInv, FinishRotation, NEW t \in Service
    PROVE  Keeps(t) /\ RowLasts(t)
<1>1. PICK seen : seen = rotation.seen
  OBVIOUS
<1>2. CASE UNCHANGED <<row, key, overtaken>>
  <2>1. wanted' = wanted
    BY DEF FinishRotation
  <2> QED
    BY <1>2, <2>1, UntouchedKeeps
<1>3. CASE Rotates(seen)
  <2>1. wanted' = wanted
    BY DEF FinishRotation
  <2>2. CASE t \notin DOMAIN seen
    <3>1. row'[t] = row[t] /\ overtaken \subseteq overtaken'
      BY <1>3, <2>2 DEF Rotates
    <3> QED
      BY <2>1, <3>1, UntouchedKeeps
  <2>3. CASE t \in DOMAIN seen
    <3>1. PICK r \in Rows(t) : r = seen[t] /\ SameRow(r, row[t]) /\ Known(t, r)
      BY <1>1, <1>3, <2>3, RotationEffect DEF Rotates, RotationInv
    <3>2. row[t] \in Rows(t) /\ SameValues(t, Rotated(r.config), r.config) /\ row[t] # Absent
      BY <3>1, RotatedRow, RowPresent
    <3>3. /\ row'[t].config = Rotated(r.config) /\ row'[t].version = row[t].version
          /\ row'[t] # Absent
      BY <1>3, <2>3, <3>1, <3>2 DEF Rotates, Rows, Absent
    <3>4. t \notin overtaken' => t \notin overtaken /\ r.version = row[t].version
      BY <1>3, <2>3, <3>1 DEF Rotates
    <3>5. t \notin overtaken' => SameValues(t, r.config, row[t].config)
      BY <3>1, <3>2, <3>4 DEF Known
    <3>6. t \notin overtaken' => SameValues(t, row'[t].config, row[t].config)
      BY <3>2, <3>3, <3>5 DEF SameValues
    <3>7. Keeps(t)
      BY <2>1, <3>2, <3>3, <3>4, <3>6 DEF Keeps
    <3> QED
      BY <2>1, <3>2, <3>3, <3>7 DEF RowLasts
  <2> QED
    BY <2>2, <2>3
<1> QED
  BY <1>1, <1>2, <1>3, RotationEffect

\* the steps that commit no save
QuietStep ==
    \/ UNCHANGED connectionVars
    \/ \E w \in Saver, s \in Service : BeginSave(w, s)
    \/ \E w \in Saver : Refused(w)
    \/ \E w \in Saver, s \in Service : \E seen \in Rows(s) :
           \E v \in {"ok", "rejected", "transient"} : Judges(w, s, seen, v)
    \/ \E s \in Service : DeleteConnection(s)
    \/ BeginRotation
    \/ FinishRotation

\* and the one that does
SavingStep ==
    \E w \in Saver, s \in Service : \E op \in Saving(s), new \in Rows(s) :
        op = saver[w] /\ Commits(w, s, op, new)

\* a step is quiet or commits a save
LEMMA StepCases ==
    ASSUME ConnectionTypes, [ConnectionNext]_connectionVars PROVE QuietStep \/ SavingStep
<1>1. CASE UNCHANGED connectionVars
  BY <1>1 DEF QuietStep
<1>2. ASSUME NEW w \in Saver, CommitSave(w) PROVE QuietStep \/ SavingStep
  <2>1. PICK s \in Service : \E op \in Saving(s) :
          op = saver[w] /\ (Refused(w) \/ \E new \in Rows(s) : Commits(w, s, op, new))
    BY <1>2, CommitEffect
  <2>2. CASE Refused(w)
    BY <2>2 DEF QuietStep
  <2>3. CASE \E op \in Saving(s), new \in Rows(s) : op = saver[w] /\ Commits(w, s, op, new)
    BY <2>3 DEF SavingStep
  <2> QED
    BY <2>1, <2>2, <2>3
<1>3. ASSUME NEW w \in Saver, ProbeAndReflect(w) PROVE QuietStep
  BY <1>3, ProbeEffect DEF QuietStep
<1> QED
  BY <1>1, <1>2, <1>3 DEF ConnectionNext, QuietStep

\* saves are counted
LEMMA QuietCount ==
    ASSUME ConnectionTypes, QuietStep
    PROVE  saves \in Nat /\ saves' \in Nat /\ saves <= saves'
<1>1. saves \in Nat
  BY DEF ConnectionTypes, HistoryTyped
<1>2. saves' = saves \/ saves' = saves + 1
  BY DEF QuietStep, connectionVars, BeginSave, Refused, Judges, DeleteConnection, BeginRotation,
         FinishRotation
<1> QED
  BY <1>1, <1>2

\* a quiet step keeps every row, or deletes it
LEMMA QuietKeeps ==
    ASSUME ConnectionTypes, RotationInv, QuietStep, NEW t \in Service
    PROVE  Keeps(t) /\ (RowLasts(t) \/ RowGoes(t))
<1>1. DOMAIN row = Service /\ DOMAIN wanted = Service
  BY DEF ConnectionTypes, HistoryTyped, RowsTyped
<1>2. ASSUME row' = row, wanted' = wanted, overtaken' = overtaken
      PROVE  Keeps(t) /\ (RowLasts(t) \/ RowGoes(t))
  BY <1>2, UntouchedKeeps
<1>3. ASSUME NEW s \in Service, DeleteConnection(s)
      PROVE  Keeps(t) /\ (RowLasts(t) \/ RowGoes(t))
  <2>1. CASE t = s
    BY <1>1, <1>3, <2>1 DEF DeleteConnection, Keeps, RowGoes, Missing
  <2>2. CASE t # s
    <3>1. row'[t] = row[t] /\ wanted'[t] = wanted[t] /\ (t \in overtaken => t \in overtaken')
      BY <1>1, <1>3, <2>2 DEF DeleteConnection
    <3> QED
      BY <3>1, UntouchedKeeps
  <2> QED
    BY <2>1, <2>2
<1>4. CASE FinishRotation
  BY <1>4, RotationKeeps
<1>5. ASSUME NEW w \in Saver, NEW s \in Service, NEW seen \in Rows(s),
             NEW v \in {"ok", "rejected", "transient"}, Judges(w, s, seen, v)
      PROVE  Keeps(t) /\ (RowLasts(t) \/ RowGoes(t))
  BY <1>5, VerdictKeeps
<1>6. ASSUME NEW w \in Saver, NEW s \in Service, BeginSave(w, s)
      PROVE  row' = row /\ wanted' = wanted /\ overtaken' = overtaken
  BY <1>6 DEF BeginSave
<1>7. ASSUME NEW w \in Saver, Refused(w)
      PROVE  row' = row /\ wanted' = wanted /\ overtaken' = overtaken
  BY <1>7 DEF Refused
<1>8. BeginRotation \/ UNCHANGED connectionVars
       => row' = row /\ wanted' = wanted /\ overtaken' = overtaken
  BY DEF BeginRotation, connectionVars
<1> QED
  BY <1>2, <1>3, <1>4, <1>5, <1>6, <1>7, <1>8 DEF QuietStep

-----------------------------------------------------------------------------
(* Connections: steps that commit no save preserve the invariant.           *)

\* what is known of a row that was read is known as long as the row is kept
LEMMA KnownLasts ==
    ASSUME NEW s \in Service, NEW seen, seen.version \in Nat, saves \in Nat, saves' \in Nat,
           saves <= saves', Known(s, seen), Keeps(s)
    PROVE  Known(s, seen)'
<1>1. seen.version <= saves'
  BY DEF Known
<1>2. ASSUME s \notin overtaken', row'[s] # Absent, row'[s].version = seen.version
      PROVE  SameValues(s, seen.config, row'[s].config)
  BY <1>2 DEF Known, Keeps, SameValues
<1> QED
  BY <1>1, <1>2 DEF Known, SameValues

\* a row that stays keeps its secrets; one that goes leaves nothing that is wanted
LEMMA QuietRows ==
    ASSUME ConnectionInv, QuietStep PROVE StoredInv' /\ SecretsSurvive'
<1>1. /\ saves \in Nat /\ saves' \in Nat /\ saves <= saves'
      /\ \A s \in Service : Keeps(s) /\ (RowLasts(s) \/ RowGoes(s))
  BY QuietCount, QuietKeeps DEF ConnectionInv
<1>2. ASSUME NEW s \in Service
      PROVE  /\ row'[s] = Absent => \A f \in SecretsOf[s] : wanted'[s][f] = Missing.value
             /\ row'[s] # Absent => row'[s].version <= saves'
  <2>1. row[s] # Absent => row[s].version \in Nat
    BY DEF ConnectionInv, ConnectionTypes, RowsTyped, Rows
  <2>2. CASE RowGoes(s)
    BY <2>2 DEF RowGoes
  <2>3. CASE RowLasts(s)
    <3>1. row'[s] = Absent => \A f \in SecretsOf[s] : wanted'[s][f] = Missing.value
      BY <2>3 DEF ConnectionInv, StoredInv, RowLasts
    <3>2. row'[s] # Absent => row'[s].version = row[s].version /\ row[s].version <= saves
      BY <2>3 DEF ConnectionInv, StoredInv, RowLasts
    <3> QED
      BY <1>1, <2>1, <2>3, <3>1, <3>2 DEF RowLasts
  <2> QED
    BY <1>1, <2>2, <2>3
<1>3. ASSUME NEW s \in Service \ overtaken', row'[s] # Absent, NEW f \in SecretsOf[s]
      PROVE  row'[s].config[f].value = wanted'[s][f]
  BY <1>1, <1>3 DEF ConnectionInv, SecretsSurvive, Keeps, SameValues
<1> QED
  BY <1>2, <1>3 DEF StoredInv, SecretsSurvive

\* a save begins with what is stored
LEMMA BegunSave ==
    ASSUME ConnectionInv, NEW w \in Saver, NEW s \in Service, BeginSave(w, s)
    PROVE  /\ saver'[w].service = s
           /\ saver'[w].seen # Absent => Known(s, saver[w].seen)'
           /\ Merges(s, saver'[w])
<1>1. PICK form \in Forms(s) :
        saver' = [saver EXCEPT ![w] =
            [st |-> "saving", service |-> s, seen |-> row[s],
             form |-> form, config |-> NewConfig(s, Config(s), form)]]
  BY DEF BeginSave, Forms
<1>2. /\ saver'[w].service = s /\ saver'[w].seen = row[s] /\ saver'[w].form = form
      /\ saver'[w].config = NewConfig(s, Config(s), form)
  BY <1>1 DEF ConnectionInv, ConnectionTypes, SaversTyped
<1>3. PICK old \in Configs(s) : old = Config(s)
  BY ConfigTyped DEF ConnectionInv, ConnectionTypes, RowsTyped
<1>4. \A f \in SecretsOf[s] : NewConfig(s, old, form)[f].value =
                                  IF form[f] # Kept THEN form[f] ELSE old[f].value
  BY NewConfigValues DEF ConnectionInv, ConnectionTypes, HistoryTyped
<1>5. \A f \in SecretsOf[s] :
          old[f].value = IF row[s] = Absent THEN Missing.value ELSE row[s].config[f].value
  BY <1>3 DEF Config
<1>6. Merges(s, saver'[w])
  BY <1>2, <1>3, <1>4, <1>5 DEF Merges
<1>7. ASSUME row[s] # Absent PROVE Known(s, saver[w].seen)'
  BY <1>2, <1>7 DEF BeginSave, Known, SameValues, ConnectionInv, StoredInv
<1> QED
  BY <1>2, <1>6, <1>7

\* what threads are about to write stays what the form and the row that they saw say
LEMMA QuietSaves ==
    ASSUME ConnectionInv, QuietStep PROVE SavesInv'
<1>1. /\ saves \in Nat /\ saves' \in Nat /\ saves <= saves'
      /\ \A s \in Service : Keeps(s)
  BY QuietCount, QuietKeeps DEF ConnectionInv
<1>2. ASSUME NEW v \in Saver, saver'[v].st = "saving"
      PROVE  saver'[v] = saver[v] \/ \E s \in Service : BeginSave(v, s)
  <2>1. DOMAIN saver = Saver /\ AtRest.st # "saving"
    BY DEF AtRest, ConnectionInv, ConnectionTypes, SaversTyped
  <2>2. ASSUME NEW w \in Saver, NEW s \in Service, BeginSave(w, s), v # w
        PROVE  saver'[v] = saver[v]
    BY <2>1, <2>2 DEF BeginSave
  <2>3. ASSUME NEW w \in Saver, saver' = [saver EXCEPT ![w] = AtRest]
        PROVE  saver'[v] = saver[v]
    BY <1>2, <2>1, <2>3
  <2>4. ASSUME NEW w \in Saver, Refused(w) \/ \E s \in Service : \E seen \in Rows(s) :
                   \E verd \in {"ok", "rejected", "transient"} : Judges(w, s, seen, verd)
        PROVE  saver'[v] = saver[v]
    BY <2>3, <2>4 DEF Refused, Judges
  <2>5. ASSUME \/ UNCHANGED connectionVars \/ BeginRotation \/ FinishRotation
               \/ \E s \in Service : DeleteConnection(s)
        PROVE  saver'[v] = saver[v]
    BY <2>5 DEF connectionVars, BeginRotation, FinishRotation, DeleteConnection
  <2> QED
    BY <2>2, <2>4, <2>5 DEF QuietStep
<1>3. ASSUME NEW v \in Saver, saver'[v].st = "saving", saver'[v] = saver[v]
      PROVE  /\ saver'[v].seen # Absent => Known(saver[v].service, saver[v].seen)'
             /\ Merges(saver'[v].service, saver'[v])
  <2>1. PICK s \in Service : saver[v] \in Saving(s)
    BY <1>3, SaverCases DEF ConnectionInv, ConnectionTypes
  <2>2. PICK op \in Saving(s) : op = saver[v] /\ op.service = s
    BY <2>1 DEF Saving
  <2>3. /\ op.seen # Absent => Known(s, op.seen)
        /\ Merges(s, op)
    BY <1>3, <2>2 DEF ConnectionInv, SavesInv
  <2>4. ASSUME op.seen # Absent PROVE Known(s, op.seen)'
    <3>1. op.seen.version \in Nat
      BY <2>4 DEF Saving, Rows
    <3> QED
      BY <1>1, <2>3, <2>4, <3>1, KnownLasts
  <2> QED
    BY <1>3, <2>2, <2>3, <2>4
<1>4. ASSUME NEW v \in Saver, saver'[v].st = "saving"
      PROVE  /\ saver'[v].seen # Absent => Known(saver[v].service, saver[v].seen)'
             /\ Merges(saver'[v].service, saver'[v])
  BY <1>2, <1>3, <1>4, BegunSave
<1> QED
  BY <1>4 DEF SavesInv

\* so do the rows that a rotation has read
LEMMA QuietRotation ==
    ASSUME ConnectionInv, QuietStep PROVE RotationInv'
<1>1. /\ saves \in Nat /\ saves' \in Nat /\ saves <= saves'
      /\ \A s \in Service : Keeps(s)
  BY QuietCount, QuietKeeps DEF ConnectionInv
<1>2. rotation' = rotation \/ rotation' = NoRotation \/ BeginRotation
  BY DEF QuietStep, connectionVars, BeginSave, Refused, Judges, DeleteConnection, FinishRotation
<1>3. ASSUME rotation' = rotation, rotation.st = "rotating", NEW s \in DOMAIN rotation.seen
      PROVE  Known(s, rotation.seen[s])'
  <2>1. PICK r : r = rotation.seen[s]
    OBVIOUS
  <2>2. s \in Service /\ r \in Rows(s) /\ Known(s, r)
    BY <1>3, <2>1 DEF ConnectionInv, RotationInv, ConnectionTypes, RotationTyped, NoRotation
  <2>3. r.version \in Nat
    BY <2>2 DEF Rows
  <2>4. Known(s, r)'
    BY <1>1, <2>2, <2>3, KnownLasts
  <2> QED
    BY <1>3, <2>1, <2>4
<1>4. ASSUME BeginRotation, NEW s \in DOMAIN rotation'.seen
      PROVE  Known(s, rotation.seen[s])'
  <2>1. /\ rotation'.seen = [t \in Present |-> row[t]]
        /\ row' = row /\ saves' = saves /\ overtaken' = overtaken
    BY <1>4 DEF BeginRotation
  <2>2. s \in Service /\ row[s] # Absent /\ rotation'.seen[s] = row[s]
    BY <1>4, <2>1, ConnectionsAssumption DEF Present
  <2> QED
    BY <2>1, <2>2 DEF Known, SameValues, ConnectionInv, StoredInv
<1> QED
  BY <1>2, <1>3, <1>4 DEF RotationInv, NoRotation

\* the status of a row changes by a verdict alone
StatusLasts(s) == row'[s] # Absent => row'[s].status = row[s].status /\ verdict'[s] = verdict[s]

\* a step that saves nothing keeps every status, but for the one that a verdict is written to
LEMMA QuietStatus ==
    ASSUME ConnectionInv, QuietStep, NEW s \in Service
    PROVE  \/ StatusLasts(s)
           \/ \E w \in Saver : \E seen \in Rows(s) :
                  \E v \in {"ok", "rejected", "transient"} : Judges(w, s, seen, v)
<1>1. DOMAIN row = Service /\ DOMAIN verdict = Service
  BY DEF ConnectionInv, ConnectionTypes, HistoryTyped, RowsTyped
<1>2. ASSUME row' = row, verdict' = verdict PROVE StatusLasts(s)
  BY <1>2 DEF StatusLasts
<1>3. ASSUME NEW t \in Service, DeleteConnection(t) PROVE StatusLasts(s)
  BY <1>1, <1>3 DEF DeleteConnection, StatusLasts
<1>4. ASSUME FinishRotation PROVE StatusLasts(s)
  <2>1. ConnectionTypes
    BY DEF ConnectionInv
  <2>2. verdict' = verdict
    BY <1>4 DEF FinishRotation
  <2>3. CASE row' = row
    BY <2>2, <2>3 DEF StatusLasts
  <2>4. CASE Rotates(rotation.seen)
    <3>1. CASE s \notin DOMAIN rotation.seen
      BY <2>2, <2>4, <3>1 DEF Rotates, StatusLasts
    <3>2. CASE s \in DOMAIN rotation.seen
      <4>1. rotation.seen[s] \in Rows(s) /\ SameRow(rotation.seen[s], row[s])
        BY <1>4, <2>1, <2>4, <3>2, RotationEffect DEF Rotates
      <4>2. row[s] \in Rows(s)
        BY <2>1, <4>1, RotatedRow
      <4> QED
        BY <2>2, <2>4, <3>2, <4>2 DEF Rotates, StatusLasts, Rows
    <3> QED
      BY <3>1, <3>2
  <2> QED
    BY <1>4, <2>1, <2>3, <2>4, RotationEffect
<1>5. ASSUME NEW w \in Saver, NEW t \in Service, NEW seen \in Rows(t),
             NEW v \in {"ok", "rejected", "transient"}, Judges(w, t, seen, v), t # s
      PROVE  StatusLasts(s)
  BY <1>1, <1>5 DEF Judges, StatusLasts
<1>6. ASSUME NEW w \in Saver, NEW t \in Service, BeginSave(w, t)
      PROVE  row' = row /\ verdict' = verdict
  BY <1>6 DEF BeginSave
<1>7. ASSUME NEW w \in Saver, Refused(w) PROVE row' = row /\ verdict' = verdict
  BY <1>7 DEF Refused
<1>8. BeginRotation \/ UNCHANGED connectionVars => row' = row /\ verdict' = verdict
  BY DEF BeginRotation, connectionVars
<1> QED
  BY <1>2, <1>3, <1>4, <1>5, <1>6, <1>7, <1>8 DEF QuietStep

\* whoever will reflect a verdict knows the status, and the status is that of the last verdict
LEMMA QuietVerdicts ==
    ASSUME ConnectionInv, QuietStep PROVE ProbesInv' /\ StatusIsOfConfig'
<1>1. /\ saves \in Nat /\ saves' \in Nat /\ saves <= saves'
      /\ \A s \in Service : Keeps(s)
      /\ DOMAIN saver = Saver /\ DOMAIN row = Service /\ DOMAIN verdict = Service
  BY QuietCount, QuietKeeps
  DEF ConnectionInv, ConnectionTypes, SaversTyped, RowsTyped, HistoryTyped
<1>2. ASSUME NEW v \in Saver, saver'[v].st = "probing"
      PROVE  saver'[v] = saver[v] /\ saver[v].st = "probing"
  <2>1. AtRest.st # "probing"
    BY DEF AtRest
  <2>2. ASSUME NEW w \in Saver, NEW s \in Service, BeginSave(w, s)
        PROVE  saver'[v] = saver[v]
    BY <1>1, <1>2, <2>2 DEF BeginSave
  <2>3. ASSUME NEW w \in Saver, saver' = [saver EXCEPT ![w] = AtRest]
        PROVE  saver'[v] = saver[v]
    BY <1>1, <1>2, <2>1, <2>3
  <2>4. ASSUME NEW w \in Saver, Refused(w) \/ \E s \in Service : \E seen \in Rows(s) :
                   \E verd \in {"ok", "rejected", "transient"} : Judges(w, s, seen, verd)
        PROVE  saver'[v] = saver[v]
    BY <2>3, <2>4 DEF Refused, Judges
  <2>5. ASSUME \/ UNCHANGED connectionVars \/ BeginRotation \/ FinishRotation
               \/ \E s \in Service : DeleteConnection(s)
        PROVE  saver'[v] = saver[v]
    BY <2>5 DEF connectionVars, BeginRotation, FinishRotation, DeleteConnection
  <2>6. saver'[v] = saver[v]
    BY <2>2, <2>4, <2>5 DEF QuietStep
  <2> QED
    BY <1>2, <2>6
\* another thread's verdict is on another version, or it overtakes the service
<1>3. ASSUME NEW v \in Saver, saver'[v].st = "probing"
      PROVE  Reflects(saver[v].service, saver[v].seen)'
  <2>1. PICK s \in Service : saver[v] \in Probing(s)
    BY <1>2, <1>3, SaverCases DEF ConnectionInv, ConnectionTypes
  <2>2. PICK seen \in Rows(s) : seen = saver[v].seen /\ saver[v].service = s
    BY <2>1 DEF Probing
  <2>3. Reflects(s, seen) /\ seen.version \in Nat
    BY <1>2, <1>3, <2>2 DEF ConnectionInv, ProbesInv, Rows
  <2>4. ASSUME s \notin overtaken', row'[s] # Absent, row'[s].version = seen.version
        PROVE  row'[s].status = seen.status
    <3>1. /\ s \notin overtaken /\ row[s] # Absent /\ row[s].version = seen.version
          /\ row[s].status = seen.status
      BY <1>1, <2>3, <2>4 DEF Keeps, Reflects
    <3>2. CASE StatusLasts(s)
      BY <2>4, <3>1, <3>2 DEF StatusLasts
    <3>3. ASSUME NEW w \in Saver, NEW old \in Rows(s),
                 NEW verd \in {"ok", "rejected", "transient"}, Judges(w, s, old, verd)
          PROVE  row' = row
      <4>1. w # v
        BY <1>1, <1>3, <3>3 DEF Judges, AtRest
      <4>2. old.version # seen.version
        BY <1>2, <1>3, <2>2, <3>3, <4>1 DEF ConnectionInv, ProbesInv, Judges
      <4> QED
        BY <2>4, <3>1, <3>3, <4>2 DEF Judges
    <3> QED
      BY <3>1, <3>2, <3>3, QuietStatus
  <2>5. seen.version <= saves'
    BY <1>1, <2>3 DEF Reflects
  <2>6. Reflects(s, seen)'
    BY <2>4, <2>5 DEF Reflects
  <2> QED
    BY <1>2, <1>3, <2>2, <2>6
<1>4. ASSUME NEW v \in Saver, NEW w \in Saver \ {v},
             saver'[v].st = "probing", saver'[w].st = "probing"
      PROVE  saver'[w].seen.version # saver'[v].seen.version
  BY <1>2, <1>4 DEF ConnectionInv, ProbesInv
<1>5. ProbesInv'
  <2>1. ASSUME NEW v \in Saver, saver'[v].st = "probing"
        PROVE  Reflects(saver[v].service, saver[v].seen)'
    BY <1>3, <2>1
  <2> QED
    BY <1>4, <2>1 DEF ProbesInv
<1>6. ASSUME NEW s \in Service \ overtaken', row'[s] # Absent
      PROVE  /\ verdict'[s] = "ok" => row'[s].status = "connected"
             /\ verdict'[s] = "rejected" => row'[s].status = "disconnected"
  <2>1. s \notin overtaken /\ row[s] # Absent /\ row'[s].version = row[s].version
    BY <1>1, <1>6 DEF Keeps
  <2>2. /\ verdict[s] = "ok" => row[s].status = "connected"
        /\ verdict[s] = "rejected" => row[s].status = "disconnected"
    BY <2>1 DEF ConnectionInv, StatusIsOfConfig
  <2>3. CASE StatusLasts(s)
    BY <1>6, <2>2, <2>3 DEF StatusLasts
  <2>4. ASSUME NEW w \in Saver, NEW seen \in Rows(s),
               NEW v \in {"ok", "rejected", "transient"}, Judges(w, s, seen, v)
        PROVE  /\ verdict'[s] = "ok" => row'[s].status = "connected"
               /\ verdict'[s] = "rejected" => row'[s].status = "disconnected"
    <3>1. CASE ~SameRow(seen, row[s])
      BY <2>2, <2>4, <3>1 DEF Judges
    <3>2. CASE SameRow(seen, row[s])
      <4>1. seen.version = row[s].version
        BY <1>6, <2>4, <3>2 DEF Judges
      <4>2. row[s].status = seen.status
        <5>1. Reflects(s, seen)
          BY <2>4 DEF Judges, ConnectionInv, ProbesInv
        <5> QED
          BY <2>1, <4>1, <5>1 DEF Reflects
      <4>3. row'[s].status = StatusAfter(seen.status, v)
        <5>1. row[s] \in Rows(s)
          BY <2>1 DEF ConnectionInv, ConnectionTypes, RowsTyped
        <5> QED
          BY <1>1, <2>4, <3>2, <4>2, <5>1 DEF Judges, Rows
      <4>4. verdict'[s] = v
        BY <1>1, <2>4, <3>2, <4>1 DEF Judges
      <4> QED
        BY <4>3, <4>4 DEF StatusAfter
    <3> QED
      BY <3>1, <3>2
  <2> QED
    BY <2>3, <2>4, QuietStatus
<1> QED
  BY <1>5, <1>6 DEF StatusIsOfConfig

-----------------------------------------------------------------------------
(* Connections: the commit of a save preserves the invariant.               *)

\* it writes a newer version of its service, and leaves the others alone
Renews(s, op, new) ==
    /\ saves \in Nat /\ saves' = saves + 1
    /\ row'[s] = new /\ new.version = saves + 1 /\ new # Absent
    /\ wanted'[s] = [f \in SecretsOf[s] |->
           IF op.form[f] = Kept THEN wanted[s][f] ELSE op.form[f]]
    /\ verdict'[s] = "none"
    /\ \A t \in Service \ {s} :
           Keeps(t) /\ RowLasts(t) /\ row'[t] = row[t] /\ verdict'[t] = verdict[t]

\* a save that commits renews its service
LEMMA SavingRows ==
    ASSUME ConnectionTypes, NEW w \in Saver, NEW s \in Service, NEW op \in Saving(s),
           NEW new \in Rows(s), Commits(w, s, op, new)
    PROVE  Renews(s, op, new)
<1>1. saves \in Nat /\ DOMAIN row = Service /\ DOMAIN wanted = Service /\ DOMAIN verdict = Service
  BY DEF ConnectionTypes, HistoryTyped, RowsTyped
<1>2. /\ row'[s] = new /\ verdict'[s] = "none"
      /\ wanted'[s] = [f \in SecretsOf[s] |->
             IF op.form[f] = Kept THEN wanted[s][f] ELSE op.form[f]]
  BY <1>1 DEF Commits
<1>3. ASSUME NEW t \in Service \ {s}
      PROVE  Keeps(t) /\ RowLasts(t) /\ row'[t] = row[t] /\ verdict'[t] = verdict[t]
  <2>1. row'[t] = row[t] /\ wanted'[t] = wanted[t] /\ verdict'[t] = verdict[t]
    BY <1>1 DEF Commits
  <2>2. t \in overtaken => t \in overtaken'
    BY DEF Commits
  <2> QED
    BY <2>1, <2>2, UntouchedKeeps
<1>4. new # Absent
  BY RowPresent
<1> QED
  BY <1>1, <1>2, <1>3, <1>4 DEF Commits, Renews

\* whoever has read an older row of the service knows nothing of the newer one
LEMMA SavingKnown ==
    ASSUME ConnectionTypes, NEW w \in Saver, NEW s \in Service, NEW op \in Saving(s),
           NEW new \in Rows(s), Commits(w, s, op, new),
           NEW t \in Service, NEW seen, seen.version \in Nat, Known(t, seen)
    PROVE  Known(t, seen)'
<1> Renews(s, op, new)
  BY SavingRows
<1>1. saves \in Nat /\ saves' = saves + 1 /\ row'[s].version = saves + 1
  BY DEF Renews
<1>2. saves' \in Nat /\ saves <= saves' /\ seen.version # saves + 1 /\ seen.version <= saves'
  BY <1>1 DEF Known
<1>3. CASE t = s
  BY <1>1, <1>2, <1>3 DEF Known
<1>4. CASE t # s
  <2>1. Keeps(t)
    BY <1>4 DEF Renews
  <2> QED
    BY <1>1, <1>2, <2>1, KnownLasts
<1> QED
  BY <1>3, <1>4

\* the row holds what is wanted: the secrets of the form over those of the row that it replaces
LEMMA SavingStored ==
    ASSUME ConnectionInv, NEW w \in Saver, NEW s \in Service, NEW op \in Saving(s),
           NEW new \in Rows(s), op = saver[w], Commits(w, s, op, new)
    PROVE  StoredInv' /\ SecretsSurvive'
<1>1. /\ saves \in Nat /\ saves' = saves + 1
      /\ row'[s] = new /\ new.version = saves + 1 /\ new # Absent
      /\ wanted'[s] = [f \in SecretsOf[s] |->
             IF op.form[f] = Kept THEN wanted[s][f] ELSE op.form[f]]
      /\ \A t \in Service \ {s} : Keeps(t) /\ RowLasts(t)
  <2>1. Renews(s, op, new)
    BY SavingRows DEF ConnectionInv
  <2> QED
    BY <2>1 DEF Renews
<1>2. ASSUME NEW t \in Service
      PROVE  /\ row'[t] = Absent => \A f \in SecretsOf[t] : wanted'[t][f] = Missing.value
             /\ row'[t] # Absent => row'[t].version <= saves'
  <2>1. CASE t = s
    BY <1>1, <2>1
  <2>2. CASE t # s
    <3>1. row'[t] = Absent => \A f \in SecretsOf[t] : wanted'[t][f] = Missing.value
      BY <1>1, <2>2 DEF ConnectionInv, StoredInv, RowLasts
    <3>2. row[t] # Absent => row[t].version \in Nat /\ row[t].version <= saves
      BY DEF ConnectionInv, ConnectionTypes, StoredInv, RowsTyped, Rows
    <3>3. row'[t] # Absent => row[t] # Absent /\ row'[t].version = row[t].version
      BY <1>1, <2>2 DEF RowLasts
    <3> QED
      BY <1>1, <3>1, <3>2, <3>3
  <2> QED
    BY <2>1, <2>2
<1>3. op.service = s /\ op.st = "saving"
  BY DEF Saving
<1>4. Merges(s, op) /\ (op.seen # Absent => Known(s, op.seen))
  BY <1>3 DEF ConnectionInv, SavesInv
<1>5. ASSUME s \notin overtaken', NEW f \in SecretsOf[s]
      PROVE  new.config[f].value = wanted'[s][f]
  <2>1. new.config = op.config /\ SameRow(op.seen, row[s]) /\ s \notin overtaken
    BY <1>5 DEF Commits
  <2>2. CASE op.seen = Absent
    <3>1. row[s] = Absent
      BY <2>1, <2>2, RowPresent DEF SameRow, ConnectionInv, ConnectionTypes, RowsTyped
    <3>2. wanted[s][f] = Missing.value
      BY <3>1 DEF ConnectionInv, StoredInv
    <3> QED
      BY <1>1, <1>4, <2>1, <2>2, <3>2 DEF Merges
  <2>3. CASE op.seen # Absent
    <3>1. op.seen \in Rows(s) /\ op.seen.version = row[s].version
      BY <1>5, <2>3 DEF Saving, Commits
    <3>2. row[s] # Absent
      BY <2>1, <3>1, RowPresent DEF SameRow
    <3>3. op.seen.config[f].value = row[s].config[f].value
      BY <1>4, <2>1, <2>3, <3>1, <3>2 DEF Known, SameValues
    <3>4. row[s].config[f].value = wanted[s][f]
      BY <2>1, <3>2 DEF ConnectionInv, SecretsSurvive
    <3> QED
      BY <1>1, <1>4, <2>1, <2>3, <3>3, <3>4 DEF Merges
  <2> QED
    BY <2>2, <2>3
<1>6. ASSUME NEW t \in Service \ overtaken', row'[t] # Absent, NEW f \in SecretsOf[t]
      PROVE  row'[t].config[f].value = wanted'[t][f]
  <2>1. CASE t = s
    BY <1>1, <1>5, <1>6, <2>1
  <2>2. CASE t # s
    BY <1>1, <1>6, <2>2 DEF ConnectionInv, SecretsSurvive, Keeps, SameValues
  <2> QED
    BY <2>1, <2>2
<1> QED
  BY <1>2, <1>6 DEF StoredInv, SecretsSurvive

\* what the other threads and a rotation know stays known
LEMMA SavingReaders ==
    ASSUME ConnectionInv, NEW w \in Saver, NEW s \in Service, NEW op \in Saving(s),
           NEW new \in Rows(s), op = saver[w], Commits(w, s, op, new)
    PROVE  SavesInv' /\ RotationInv'
<1>1. ASSUME NEW v \in Saver, saver'[v].st = "saving"
      PROVE  saver'[v] = saver[v]
  BY <1>1 DEF Commits, AtRest, ConnectionInv, ConnectionTypes, SaversTyped
<1>2. ASSUME NEW v \in Saver, saver'[v].st = "saving"
      PROVE  /\ saver'[v].seen # Absent => Known(saver[v].service, saver[v].seen)'
             /\ Merges(saver'[v].service, saver'[v])
  <2>1. PICK t \in Service : saver[v] \in Saving(t)
    BY <1>1, <1>2, SaverCases DEF ConnectionInv, ConnectionTypes
  <2>2. PICK other \in Saving(t) : other = saver[v] /\ other.service = t
    BY <2>1 DEF Saving
  <2>3. /\ other.seen # Absent => Known(t, other.seen)
        /\ Merges(t, other)
    BY <1>1, <1>2, <2>2 DEF ConnectionInv, SavesInv
  <2>4. ASSUME other.seen # Absent PROVE Known(t, other.seen)'
    <3>1. other.seen.version \in Nat
      BY <2>4 DEF Saving, Rows
    <3> QED
      BY <2>3, <2>4, <3>1, SavingKnown DEF ConnectionInv
  <2> QED
    BY <1>1, <1>2, <2>2, <2>3, <2>4
<1>3. ASSUME rotation.st = "rotating", NEW t \in DOMAIN rotation.seen
      PROVE  Known(t, rotation.seen[t])'
  <2>1. rotation' = rotation
    BY DEF Commits
  <2>2. PICK r : r = rotation.seen[t]
    OBVIOUS
  <2>3. t \in Service /\ r \in Rows(t) /\ Known(t, r)
    BY <1>3, <2>2 DEF ConnectionInv, RotationInv, ConnectionTypes, RotationTyped, NoRotation
  <2>4. r.version \in Nat
    BY <2>3 DEF Rows
  <2>5. Known(t, r)'
    BY <2>3, <2>4, SavingKnown DEF ConnectionInv
  <2> QED
    BY <2>1, <2>2, <2>5
<1>4. rotation' = rotation
  BY DEF Commits
<1> QED
  BY <1>2, <1>3, <1>4 DEF SavesInv, RotationInv

\* the thread alone will reflect a verdict on the new version, and none is known yet
LEMMA SavingVerdicts ==
    ASSUME ConnectionInv, NEW w \in Saver, NEW s \in Service, NEW op \in Saving(s),
           NEW new \in Rows(s), op = saver[w], Commits(w, s, op, new)
    PROVE  ProbesInv' /\ StatusIsOfConfig'
<1>1. /\ saves \in Nat /\ saves' = saves + 1
      /\ row'[s] = new /\ new.version = saves + 1 /\ new # Absent /\ verdict'[s] = "none"
      /\ \A t \in Service \ {s} :
             Keeps(t) /\ RowLasts(t) /\ row'[t] = row[t] /\ verdict'[t] = verdict[t]
  <2>1. Renews(s, op, new)
    BY SavingRows DEF ConnectionInv
  <2> QED
    BY <2>1 DEF Renews
<1>2. DOMAIN saver = Saver
  BY DEF ConnectionInv, ConnectionTypes, SaversTyped
<1>3. ASSUME NEW v \in Saver \ {w}, saver'[v].st = "probing"
      PROVE  /\ saver'[v] = saver[v] /\ saver[v].st = "probing"
             /\ saver[v].seen.version <= saves /\ saver[v].seen.version # saves + 1
             /\ Reflects(saver[v].service, saver[v].seen)'
  <2>1. saver'[v] = saver[v] /\ saver[v].st = "probing"
    BY <1>2, <1>3 DEF Commits
  <2>2. PICK t \in Service : saver[v] \in Probing(t)
    BY <2>1, SaverCases DEF ConnectionInv, ConnectionTypes
  <2>3. PICK seen \in Rows(t) : seen = saver[v].seen /\ saver[v].service = t
    BY <2>2 DEF Probing
  <2>4. Reflects(t, seen) /\ seen.version \in Nat
    BY <2>1, <2>3 DEF ConnectionInv, ProbesInv, Rows
  <2>5. seen.version <= saves /\ seen.version <= saves' /\ seen.version # saves + 1
    BY <1>1, <2>4 DEF Reflects
  <2>6. CASE t = s
    <3>1. Reflects(t, seen)'
      BY <1>1, <2>5, <2>6 DEF Reflects
    <3> QED
      BY <2>1, <2>3, <2>5, <3>1
  <2>7. CASE t # s
    <3>1. Keeps(t) /\ row'[t] = row[t]
      BY <1>1, <2>7
    <3>2. Reflects(t, seen)'
      BY <2>4, <2>5, <3>1 DEF Reflects, Keeps
    <3> QED
      BY <2>1, <2>3, <2>5, <3>2
  <2> QED
    BY <2>6, <2>7
<1>4. ASSUME saver'[w].st = "probing"
      PROVE  /\ saver'[w].service = s /\ saver'[w].seen = new
             /\ Reflects(saver[w].service, saver[w].seen)'
  <2>1. saver'[w] = [st |-> "probing", service |-> s, seen |-> new]
    BY <1>2, <1>4 DEF Commits, AtRest
  <2>2. saver'[w].service = s /\ saver'[w].seen = new
    BY <2>1
  <2> QED
    BY <1>1, <2>2 DEF Reflects
<1>5. ASSUME NEW v \in Saver, saver'[v].st = "probing"
      PROVE  Reflects(saver[v].service, saver[v].seen)'
  BY <1>3, <1>4, <1>5
<1>6. ASSUME NEW v \in Saver, NEW x \in Saver \ {v},
             saver'[v].st = "probing", saver'[x].st = "probing"
      PROVE  saver'[x].seen.version # saver'[v].seen.version
  <2>1. CASE v = w
    BY <1>1, <1>3, <1>4, <1>6, <2>1
  <2>2. CASE x = w
    BY <1>1, <1>3, <1>4, <1>6, <2>2
  <2>3. CASE v # w /\ x # w
    BY <1>3, <1>6, <2>3 DEF ConnectionInv, ProbesInv
  <2> QED
    BY <2>1, <2>2, <2>3
<1>7. ASSUME NEW t \in Service \ overtaken', row'[t] # Absent
      PROVE  /\ verdict'[t] = "ok" => row'[t].status = "connected"
             /\ verdict'[t] = "rejected" => row'[t].status = "disconnected"
  <2>1. CASE t = s
    BY <1>1, <2>1
  <2>2. CASE t # s
    BY <1>1, <1>7, <2>2 DEF ConnectionInv, StatusIsOfConfig, Keeps
  <2> QED
    BY <2>1, <2>2
<1> QED
  BY <1>5, <1>6, <1>7 DEF ProbesInv, StatusIsOfConfig

-----------------------------------------------------------------------------
(* Connections: the theorems.                                               *)

\* the invariant holds at first
LEMMA ConnectionInvInit == ConnectionInit => ConnectionInv
<1> SUFFICES ASSUME ConnectionInit PROVE ConnectionInv
  OBVIOUS
<1>1. ConnectionTypes
  BY ConnectionTypesInductive
<1>2. StoredInv /\ SecretsSurvive /\ StatusIsOfConfig
  BY DEF ConnectionInit, StoredInv, SecretsSurvive, StatusIsOfConfig, Missing
<1>3. SavesInv /\ RotationInv /\ ProbesInv
  BY DEF ConnectionInit, SavesInv, RotationInv, ProbesInv, AtRest, NoRotation
<1> QED
  BY <1>1, <1>2, <1>3 DEF ConnectionInv

\* and every step keeps it
LEMMA ConnectionInvStep ==
    ConnectionInv /\ [ConnectionNext]_connectionVars => ConnectionInv'
<1> SUFFICES ASSUME ConnectionInv, [ConnectionNext]_connectionVars PROVE ConnectionInv'
  OBVIOUS
<1>1. ConnectionTypes'
  BY ConnectionTypesInductive DEF ConnectionInv
<1>2. CASE QuietStep
  BY <1>1, <1>2, QuietRows, QuietSaves, QuietRotation, QuietVerdicts DEF ConnectionInv
<1>3. CASE SavingStep
  <2>1. PICK w \in Saver, s \in Service : \E op \in Saving(s), new \in Rows(s) :
          op = saver[w] /\ Commits(w, s, op, new)
    BY <1>3 DEF SavingStep
  <2>2. PICK op \in Saving(s), new \in Rows(s) : op = saver[w] /\ Commits(w, s, op, new)
    BY <2>1
  <2> QED
    BY <1>1, <2>2, SavingStored, SavingReaders, SavingVerdicts DEF ConnectionInv
<1> QED
  BY <1>2, <1>3, StepCases DEF ConnectionInv

\* For any services, secrets, threads, values and key versions: through partial forms,
\* overlapping saves, deletions and rotations a row holds of each secret what the operator
\* saved last, unless a write that started from an older row has overtaken it.
THEOREM SecretsSurviveAlways == ConnectionSpec => []SecretsSurvive
<1>1. ConnectionInv => SecretsSurvive
  BY DEF ConnectionInv
<1> QED
  BY <1>1, ConnectionInvInit, ConnectionInvStep, PTL DEF ConnectionSpec

\* And the status of a connection agrees with the last verdict on the stored configuration.
THEOREM StatusIsOfConfigAlways == ConnectionSpec => []StatusIsOfConfig
<1>1. ConnectionInv => StatusIsOfConfig
  BY DEF ConnectionInv
<1> QED
  BY <1>1, ConnectionInvInit, ConnectionInvStep, PTL DEF ConnectionSpec

-----------------------------------------------------------------------------
(* Logins: the inductive invariant.                                         *)

Requests == [user : User, st : {"pending", "fulfilled"}]
Tokens == [user : User, request : Nat, expires : Int, st : {"live", "consumed", "deleted"}]

ProcTyped ==
    /\ proc \in [Process -> [pc : {"idle", "creating", "approving", "minting", "fulfilling"},
                             id : User \cup Nat]]
    /\ \A p \in Process :
        /\ proc[p].pc = "idle" => proc[p].id = 0
        /\ proc[p].pc \in {"creating", "approving"} => proc[p].id \in User
        /\ proc[p].pc = "minting" => proc[p].id \in DOMAIN requests
        /\ proc[p].pc = "fulfilling" => proc[p].id \in DOMAIN tokens

LoginTypes ==
    /\ requests \in Seq(Requests) /\ tokens \in Seq(Tokens)
    /\ ProcTyped
    /\ outbox \subseteq DOMAIN tokens /\ links \subseteq DOMAIN tokens
    /\ sessions \in [User -> Nat]
    /\ now \in Nat

\* a token is for the user of its request
TokensInv ==
    \A t \in DOMAIN tokens :
        /\ tokens[t].request \in DOMAIN requests
        /\ requests[tokens[t].request].user = tokens[t].user
        /\ tokens[t].st = "consumed" => t \in links

\* p is about to fulfil request r
Works(p, r) ==
    \/ proc[p].pc = "minting" /\ proc[p].id = r
    \/ proc[p].pc = "fulfilling" /\ tokens[proc[p].id].request = r

\* of users whose requests were approved once: who works on a request works on it alone and
\* finds it pending, and each link is for a fulfilled request of its own
ApprovalInv ==
    \A r \in DOMAIN requests : requests[r].user \notin doubled =>
        /\ \A p \in Process : Works(p, r) => requests[r].st = "pending"
        /\ \A p, q \in Process : Works(p, r) /\ Works(q, r) => p = q
        /\ \A t \in outbox \cup links : tokens[t].request = r => requests[r].st = "fulfilled"
        /\ \A t, v \in outbox \cup links :
               tokens[t].request = r /\ tokens[v].request = r => t = v

Spent(u) == {t \in DOMAIN tokens : tokens[t].user = u /\ tokens[t].st = "consumed"}
SpentInv == \A u \in User : sessions[u] <= Cardinality(Spent(u))

\* the web server is on its way to fulfil the one pending request of u, if there is one
Attended(u) ==
    \A r \in PendingOf(u) :
        /\ \A s \in PendingOf(u) : s = r
        /\ (proc["web"].pc = "approving" /\ proc["web"].id = u) \/ Works("web", r)

\* all that it could approve are attended; the command line leaves what it creates
AttendedInv == AutoApprove => \A u \in User \ stuck : Attended(u)
CommandInv == proc["cli"].pc = "creating" => proc["cli"].id \in stuck

\* the limiter remembers the last allowed posts, and forgot only what is older than a window
Remembers(h, a) ==
    /\ Len(h) <= Len(a)
    /\ \A i \in 1..Len(h) : h[i] = a[Len(a) - Len(h) + i]
    /\ \A i \in 1..(Len(a) - Len(h)) : now - a[i] > Window

\* of more posts than the limit, the first and the last are more than a window apart
Paced(a) ==
    /\ \A i \in 1..Len(a) : a[i] <= now
    /\ \A i, j \in 1..Len(a) : i <= j => a[i] <= a[j]
    /\ \A j \in 1..Len(a) : j > MaxAttempts => a[j] - a[j - MaxAttempts] > Window

LimiterInv ==
    allowed \in Seq(Int) /\ hits \in Seq(Int) /\ Remembers(hits, allowed) /\ Paced(allowed)

LoginInv ==
    LoginTypes /\ TokensInv /\ SpentInv /\ ApprovalInv /\ AttendedInv /\ CommandInv /\ LimiterInv

-----------------------------------------------------------------------------
(* Logins: the tables of requests and tokens.                               *)

\* a set of numbers has a smallest one
LEMMA Smallest == ASSUME NEW S \in SUBSET Nat, S # {} PROVE \E i \in S : \A j \in S : i <= j
<1>1. IsWellFoundedOn({p \in Nat \X Nat : p[1] < p[2]}, Nat)
  BY NatLessThanWellFounded DEF OpToRel
<1>2. PICK i \in S : \A j \in S : ~ (<<j, i>> \in {p \in Nat \X Nat : p[1] < p[2]})
  BY <1>1, WFMin
<1>3. ASSUME NEW j \in S, j < i PROVE FALSE
  <2>1. <<j, i>> \in Nat \X Nat /\ <<j, i>>[1] < <<j, i>>[2]
    BY <1>3
  <2> QED
    BY <1>2, <2>1
<1>4. \A j \in S : j \in Nat /\ i \in Nat
  OBVIOUS
<1> QED
  BY <1>3, <1>4

\* rows are numbered by their identities
LEMMA RowNumbers ==
    ASSUME LoginTypes
    PROVE  /\ Len(requests) \in Nat /\ DOMAIN requests = 1..Len(requests)
           /\ Len(tokens) \in Nat /\ DOMAIN tokens = 1..Len(tokens)
           /\ \A r \in DOMAIN requests : requests[r] \in Requests
           /\ \A t \in DOMAIN tokens : tokens[t] \in Tokens
BY DEF LoginTypes

\* a pending request has a first one of its user
LEMMA FirstIsPending ==
    ASSUME LoginTypes, NEW u, PendingOf(u) # {}
    PROVE  FirstPending(u) \in PendingOf(u)
<1>1. PendingOf(u) \in SUBSET Nat
  BY RowNumbers DEF PendingOf
<1> QED
  BY <1>1, Smallest DEF FirstPending

\* a pending request of u
LEMMA PendingRow ==
    ASSUME LoginTypes, NEW u, NEW r
    PROVE  r \in PendingOf(u) <=>
               r \in DOMAIN requests /\ requests[r].user = u /\ requests[r].st = "pending"
BY RowNumbers DEF PendingOf, Requests

\* create_login_request adds a row
RequestAdded(u) ==
    /\ requests' \in Seq(Requests)
    /\ DOMAIN requests' = DOMAIN requests \cup {Len(requests) + 1}
    /\ Len(requests) + 1 \notin DOMAIN requests
    /\ \A r \in DOMAIN requests : requests'[r] = requests[r]
    /\ requests'[Len(requests) + 1] = [user |-> u, st |-> "pending"]
\* by which nothing else changes
LEMMA RequestAddition ==
    ASSUME LoginTypes, NEW u \in User,
           requests' = Append(requests, [user |-> u, st |-> "pending"])
    PROVE  RequestAdded(u)
<1>1. requests \in Seq(Requests) /\ [user |-> u, st |-> "pending"] \in Requests
  BY DEF LoginTypes, Requests
<1>2. /\ requests' \in Seq(Requests) /\ Len(requests') = Len(requests) + 1
      /\ \A r \in 1..Len(requests) : requests'[r] = requests[r]
      /\ requests'[Len(requests) + 1] = [user |-> u, st |-> "pending"]
  BY <1>1, AppendProperties
<1>3. DOMAIN requests' = 1..(Len(requests) + 1)
  BY <1>2
<1> QED
  BY <1>2, <1>3, RowNumbers DEF RequestAdded

\* fulfill_request changes the status of one row
RequestFulfilled(r) ==
    /\ requests' \in Seq(Requests) /\ DOMAIN requests' = DOMAIN requests
    /\ \A q \in DOMAIN requests : /\ requests'[q].user = requests[q].user
                                  /\ q # r => requests'[q].st = requests[q].st
    /\ requests'[r].st = "fulfilled"
\* by which nothing else changes
LEMMA RequestFulfillment ==
    ASSUME LoginTypes, NEW r \in DOMAIN requests,
           requests' = [requests EXCEPT ![r].st = "fulfilled"]
    PROVE  RequestFulfilled(r)
<1>1. requests \in Seq(Requests) /\ r \in 1..Len(requests)
  BY RowNumbers DEF LoginTypes
<1>2. PICK e : e = [requests[r] EXCEPT !.st = "fulfilled"]
  OBVIOUS
<1>3. e \in Requests /\ e.user = requests[r].user /\ e.st = "fulfilled"
  BY <1>1, <1>2, RowNumbers DEF Requests
<1>4. requests' = [requests EXCEPT ![r] = e]
  BY <1>2
<1>5. /\ requests' \in Seq(Requests) /\ Len(requests') = Len(requests)
      /\ \A q \in 1..Len(requests) : requests'[q] = IF q = r THEN e ELSE requests[q]
  BY <1>1, <1>3, <1>4, ExceptSeq
<1> QED
  BY <1>1, <1>3, <1>5, RowNumbers DEF RequestFulfilled

\* create_login_token adds a row
TokenAdded(r) ==
    /\ tokens' \in Seq(Tokens)
    /\ DOMAIN tokens' = DOMAIN tokens \cup {Len(tokens) + 1}
    /\ Len(tokens) + 1 \notin DOMAIN tokens /\ Len(tokens') = Len(tokens) + 1
    /\ \A t \in DOMAIN tokens : tokens'[t] = tokens[t]
    /\ tokens'[Len(tokens) + 1].user = requests[r].user
    /\ tokens'[Len(tokens) + 1].request = r
    /\ tokens'[Len(tokens) + 1].st = "live"
\* by which nothing else changes
LEMMA TokenAddition ==
    ASSUME LoginTypes, NEW r \in DOMAIN requests,
           tokens' = Append(tokens, [user |-> requests[r].user, request |-> r,
                                     expires |-> now + TTL, st |-> "live"])
    PROVE  TokenAdded(r)
<1>1. PICK e : e = [user |-> requests[r].user, request |-> r,
                    expires |-> now + TTL, st |-> "live"]
  OBVIOUS
<1>2. e.user = requests[r].user /\ e.request = r /\ e.st = "live"
  BY <1>1
<1>3. now + TTL \in Int
  BY LoginAssumption DEF LoginTypes
<1>4. e \in Tokens
  BY <1>1, <1>3, RowNumbers DEF Tokens, Requests
<1>5. tokens \in Seq(Tokens) /\ tokens' = Append(tokens, e)
  BY <1>1 DEF LoginTypes
<1>6. /\ tokens' \in Seq(Tokens) /\ Len(tokens') = Len(tokens) + 1
      /\ \A t \in 1..Len(tokens) : tokens'[t] = tokens[t]
      /\ tokens'[Len(tokens) + 1] = e
  BY <1>4, <1>5, AppendProperties
<1>7. DOMAIN tokens' = 1..(Len(tokens) + 1)
  BY <1>6
<1> QED
  BY <1>2, <1>6, <1>7, RowNumbers DEF TokenAdded

\* consume_login_token and cleanup_expired_tokens change the states of some
TokensKept(spent) ==
    /\ tokens' \in Seq(Tokens) /\ DOMAIN tokens' = DOMAIN tokens
    /\ \A t \in DOMAIN tokens :
           /\ tokens'[t].user = tokens[t].user /\ tokens'[t].request = tokens[t].request
           /\ tokens'[t].st = "consumed" <=> t \in spent \/ tokens[t].st = "consumed"
\* the one, of the token that it accepts
LEMMA TokenConsumption ==
    ASSUME LoginTypes, NEW v \in DOMAIN tokens,
           tokens' = [tokens EXCEPT ![v].st = "consumed"]
    PROVE  TokensKept({v})
<1>1. tokens \in Seq(Tokens) /\ v \in 1..Len(tokens)
  BY RowNumbers DEF LoginTypes
<1>2. PICK e : e = [tokens[v] EXCEPT !.st = "consumed"]
  OBVIOUS
<1>3. /\ e \in Tokens /\ e.user = tokens[v].user /\ e.request = tokens[v].request
      /\ e.st = "consumed"
  BY <1>1, <1>2, RowNumbers DEF Tokens
<1>4. tokens' = [tokens EXCEPT ![v] = e]
  BY <1>2
<1>5. /\ tokens' \in Seq(Tokens) /\ Len(tokens') = Len(tokens)
      /\ \A t \in 1..Len(tokens) : tokens'[t] = IF t = v THEN e ELSE tokens[t]
  BY <1>1, <1>3, <1>4, ExceptSeq
<1> QED
  BY <1>1, <1>3, <1>5, RowNumbers DEF TokensKept

\* the other, of tokens that are no longer of use
LEMMA TokenDeletion ==
    ASSUME LoginTypes, CleanUp PROVE TokensKept({})
<1>1. tokens' = [t \in 1..Len(tokens) |-> IF tokens[t].st = "live" /\ Expired(t)
                                          THEN [tokens[t] EXCEPT !.st = "deleted"] ELSE tokens[t]]
  BY RowNumbers DEF CleanUp
<1>2. \A t \in 1..Len(tokens) :
          /\ tokens'[t] \in Tokens
          /\ tokens'[t].user = tokens[t].user /\ tokens'[t].request = tokens[t].request
          /\ tokens'[t].st = "consumed" <=> tokens[t].st = "consumed"
  BY <1>1, RowNumbers DEF Tokens
<1>3. tokens' \in Seq(Tokens) /\ DOMAIN tokens' = 1..Len(tokens)
  BY <1>1, <1>2, RowNumbers
<1> QED
  BY <1>2, <1>3, RowNumbers DEF TokensKept

-----------------------------------------------------------------------------
(* Logins: every step preserves the types.                                  *)

\* a step of one process leaves the other where it is
LEMMA ProcMoves ==
    ASSUME ProcTyped, NEW p \in Process, NEW pc, NEW id, Step(p, pc, id)
    PROVE  /\ proc'[p].pc = pc /\ proc'[p].id = id
           /\ \A q \in Process \ {p} : proc'[q] = proc[q]
BY DEF ProcTyped, Step

\* a process stays typed while the tables grow
LEMMA ProcStays ==
    ASSUME ProcTyped, DOMAIN requests \subseteq DOMAIN requests',
           DOMAIN tokens \subseteq DOMAIN tokens', proc' = proc
    PROVE  ProcTyped'
BY DEF ProcTyped

\* and so does one that moves on
LEMMA ProcMovesTyped ==
    ASSUME ProcTyped, DOMAIN requests \subseteq DOMAIN requests',
           DOMAIN tokens \subseteq DOMAIN tokens',
           NEW p \in Process, NEW pc \in {"idle", "creating", "approving", "minting", "fulfilling"},
           NEW id \in User \cup Nat, Step(p, pc, id),
           pc = "idle" => id = 0, pc \in {"creating", "approving"} => id \in User,
           pc = "minting" => id \in DOMAIN requests',
           pc = "fulfilling" => id \in DOMAIN tokens'
    PROVE  ProcTyped'
<1>1. proc' \in [Process -> [pc : {"idle", "creating", "approving", "minting", "fulfilling"},
                             id : User \cup Nat]]
  BY DEF ProcTyped, Step
<1>2. ASSUME NEW q \in Process
      PROVE  /\ proc'[q].pc = "idle" => proc'[q].id = 0
             /\ proc'[q].pc \in {"creating", "approving"} => proc'[q].id \in User
             /\ proc'[q].pc = "minting" => proc'[q].id \in DOMAIN requests'
             /\ proc'[q].pc = "fulfilling" => proc'[q].id \in DOMAIN tokens'
  <2>1. CASE q = p
    BY <2>1, ProcMoves
  <2>2. CASE q # p
    <3>1. proc'[q] = proc[q]
      BY <2>2, ProcMoves
    <3> QED
      BY <3>1 DEF ProcTyped
  <2> QED
    BY <2>1, <2>2
<1> QED
  BY <1>1, <1>2 DEF ProcTyped

\* a process that comes to rest
LEMMA ProcRests ==
    ASSUME ProcTyped, DOMAIN requests \subseteq DOMAIN requests',
           DOMAIN tokens \subseteq DOMAIN tokens',
           NEW p \in Process, proc' = [proc EXCEPT ![p] = Resting]
    PROVE  ProcTyped'
<1>1. Step(p, "idle", 0)
  BY DEF Step, Resting
<1> QED
  BY <1>1, ProcMovesTyped

\* one that turns to a user
LEMMA ProcTurns ==
    ASSUME ProcTyped, DOMAIN requests \subseteq DOMAIN requests',
           DOMAIN tokens \subseteq DOMAIN tokens',
           NEW p \in Process, NEW pc \in {"creating", "approving"}, NEW u \in User, Step(p, pc, u)
    PROVE  ProcTyped'
BY ProcMovesTyped

\* the types hold at first
LEMMA LoginTypesInit == LoginInit => LoginTypes
<1> SUFFICES ASSUME LoginInit PROVE LoginTypes
  OBVIOUS
<1>1. requests \in Seq(Requests) /\ tokens \in Seq(Tokens)
  BY DEF LoginInit
<1>2. ProcTyped
  BY DEF LoginInit, ProcTyped, Resting
<1> QED
  BY <1>1, <1>2 DEF LoginInit, LoginTypes

\* and every step keeps them
LEMMA LoginTypesStep ==
    LoginTypes /\ TokensInv /\ [LoginNext]_loginVars => LoginTypes'
<1> SUFFICES ASSUME LoginTypes, TokensInv, [LoginNext]_loginVars PROVE LoginTypes'
  OBVIOUS
<1> USE DEF LoginTypes
<1> DEFINE SameTables == UNCHANGED <<rows, outbox, links, sessions, now>>
<1>1. ASSUME SameTables, ProcTyped' PROVE LoginTypes'
  BY <1>1 DEF rows
<1>2. ASSUME UNCHANGED loginVars PROVE LoginTypes'
  <2>1. SameTables /\ proc' = proc
    BY <1>2 DEF loginVars, rows
  <2> QED
    BY <1>1, <2>1, ProcStays DEF rows
<1>3. ASSUME NEW u \in User, PostLogin(u) PROVE LoginTypes'
  <2>1. SameTables /\ (proc' = proc \/ Step("web", "creating", u))
    BY <1>3 DEF PostLogin
  <2> QED
    BY <1>1, <2>1, ProcStays, ProcTurns DEF rows, Process
<1>4. ASSUME NEW u \in User, RequestCreate(u) \/ RequestApprove(u) PROVE LoginTypes'
  <2>1. SameTables /\ (Step("cli", "creating", u) \/ Step("cli", "approving", u))
    BY <1>4 DEF RequestCreate, RequestApprove
  <2> QED
    BY <1>1, <2>1, ProcTurns DEF rows, Process
<1>5. ASSUME NEW p \in Process, CreateRequest(p) PROVE LoginTypes'
  <2>1. PICK u \in User : u = proc[p].id
    BY <1>5 DEF CreateRequest, ProcTyped
  <2>2. RequestAdded(u) /\ UNCHANGED <<tokens, outbox, links, sessions, now>>
    BY <1>5, <2>1, RequestAddition DEF CreateRequest
  <2>3. Step(p, "approving", u) \/ proc' = [proc EXCEPT ![p] = Resting]
    BY <1>5, <2>1 DEF CreateRequest
  <2>4. ProcTyped'
    BY <2>2, <2>3, ProcTurns, ProcRests DEF RequestAdded
  <2> QED
    BY <2>2, <2>4 DEF RequestAdded
<1>6. ASSUME NEW p \in Process, FindRequest(p) PROVE LoginTypes'
  <2>1. PICK u : u = proc[p].id
    OBVIOUS
  <2>2. SameTables
    BY <1>6 DEF FindRequest
  <2>3. CASE PendingOf(u) = {}
    <3>1. proc' = [proc EXCEPT ![p] = Resting]
      BY <1>6, <2>1, <2>3 DEF FindRequest
    <3> QED
      BY <1>1, <2>2, <3>1, ProcRests DEF rows
  <2>4. CASE PendingOf(u) # {}
    <3>1. Step(p, "minting", FirstPending(u))
      BY <1>6, <2>1, <2>4 DEF FindRequest
    <3>2. PICK r : r = FirstPending(u) /\ r \in DOMAIN requests
      BY <2>4, FirstIsPending DEF PendingOf
    <3>3. r \in Nat /\ r \in DOMAIN requests'
      BY <2>2, <3>2 DEF rows
    <3>4. ProcTyped'
      BY <2>2, <3>1, <3>2, <3>3, ProcMovesTyped DEF rows
    <3> QED
      BY <1>1, <2>2, <3>4
  <2> QED
    BY <2>3, <2>4
<1>7. ASSUME NEW p \in Process, Mint(p) PROVE LoginTypes'
  <2>1. PICK r \in DOMAIN requests : r = proc[p].id
    BY <1>7 DEF Mint, ProcTyped
  <2>2. TokenAdded(r) /\ UNCHANGED <<requests, outbox, links, sessions, now>>
    BY <1>7, <2>1, TokenAddition DEF Mint
  <2>3. PICK t : t = Len(tokens) + 1
    OBVIOUS
  <2>4. Step(p, "fulfilling", t) /\ t \in Nat /\ t \in DOMAIN tokens'
    BY <1>7, <2>2, <2>3, RowNumbers DEF Mint, TokenAdded
  <2>5. ProcTyped'
    BY <2>2, <2>4, ProcMovesTyped DEF TokenAdded
  <2> QED
    BY <2>2, <2>5 DEF TokenAdded
<1>8. ASSUME NEW p \in Process, Fulfill(p) PROVE LoginTypes'
  <2>1. PICK t \in DOMAIN tokens : t = proc[p].id
    BY <1>8 DEF Fulfill, ProcTyped
  <2>2. /\ proc' = [proc EXCEPT ![p] = Resting] /\ outbox' = outbox \cup {t}
        /\ UNCHANGED <<tokens, links, sessions, now>>
        /\ requests' = [requests EXCEPT ![tokens[t].request].st = "fulfilled"]
    BY <1>8, <2>1 DEF Fulfill
  <2>3. requests' \in Seq(Requests) /\ DOMAIN requests' = DOMAIN requests
    <3>1. PICK r \in DOMAIN requests : r = tokens[t].request
      BY DEF TokensInv
    <3>2. RequestFulfilled(r)
      BY <2>2, <3>1, RequestFulfillment
    <3> QED
      BY <3>2 DEF RequestFulfilled
  <2>4. ProcTyped'
    BY <2>2, <2>3, ProcRests
  <2> QED
    BY <2>2, <2>3, <2>4
<1>9. ASSUME NEW t \in DOMAIN tokens, SendMagicLink(t) PROVE LoginTypes'
  <2>1. outbox' \subseteq outbox /\ links' \subseteq links \cup {t}
        /\ UNCHANGED <<requests, tokens, proc, sessions, now>>
    BY <1>9 DEF SendMagicLink, rows
  <2> QED
    BY <2>1, ProcStays
<1>10. ASSUME NEW t \in DOMAIN tokens, Consume(t) PROVE LoginTypes'
  <2>1. TokensKept({t}) /\ UNCHANGED <<requests, proc, outbox, links, now>>
    BY <1>10, TokenConsumption DEF Consume
  <2>2. PICK u \in User : u = tokens[t].user
    BY RowNumbers DEF Tokens
  <2>3. sessions' = [sessions EXCEPT ![u] = @ + 1]
    BY <1>10, <2>2 DEF Consume
  <2>4. sessions' \in [User -> Nat]
    BY <2>3
  <2> QED
    BY <2>1, <2>4, ProcStays DEF TokensKept
<1>11. ASSUME NEW u \in User, Disable(u) PROVE LoginTypes'
  <2>1. SameTables /\ proc' = proc
    BY <1>11 DEF Disable
  <2> QED
    BY <1>1, <2>1, ProcStays DEF rows
<1>12. ASSUME CockpitRestarts \/ CommandAborts PROVE LoginTypes'
  <2>1. /\ \E p \in Process : proc' = [proc EXCEPT ![p] = Resting]
        /\ outbox' \subseteq outbox /\ UNCHANGED <<requests, tokens, links, sessions, now>>
    BY <1>12 DEF CockpitRestarts, CommandAborts, rows, Process
  <2> QED
    BY <2>1, ProcRests
<1>13. ASSUME CleanUp PROVE LoginTypes'
  <2>1. TokensKept({}) /\ UNCHANGED <<requests, proc, outbox, links, sessions, now>>
    BY <1>13, TokenDeletion DEF CleanUp
  <2> QED
    BY <2>1, ProcStays DEF TokensKept
<1>14. ASSUME Tick PROVE LoginTypes'
  <2>1. UNCHANGED <<requests, tokens, proc, outbox, links, sessions>> /\ now' = now + 1
    BY <1>14 DEF Tick, rows
  <2> QED
    BY <2>1, ProcStays
<1> QED
  BY <1>2, <1>3, <1>4, <1>5, <1>6, <1>7, <1>8, <1>9, <1>10, <1>11, <1>12, <1>13, <1>14
  DEF LoginNext

-----------------------------------------------------------------------------
(* Logins: the rate limiter.                                                *)

\* what is dropped precedes the first fresh element, what is left begins with it
LEMMA FromDrops ==
    ASSUME NEW s \in Seq(Int), NEW fresh \in SUBSET (1..Len(s))
    PROVE  \E k \in 0..Len(s) :
               /\ From(s, fresh) \in Seq(Int) /\ Len(From(s, fresh)) = Len(s) - k
               /\ \A i \in 1..(Len(s) - k) : From(s, fresh)[i] = s[k + i]
               /\ \A i \in 1..k : i \notin fresh
<1>1. CASE fresh = {}
  <2>1. PICK e \in Seq(Int) : e = From(s, fresh) /\ Len(e) = 0
    BY <1>1, EmptySeq DEF From
  <2>2. PICK k \in 0..Len(s) : k = Len(s) /\ Len(s) - k = 0
    OBVIOUS
  <2>3. /\ Len(e) = Len(s) - k
        /\ \A i \in 1..(Len(s) - k) : e[i] = s[k + i]
        /\ \A i \in 1..k : i \notin fresh
    BY <1>1, <2>1, <2>2
  <2> QED
    BY <2>1, <2>3
<1>2. CASE fresh # {}
  <2>1. PICK first \in fresh : /\ \A j \in fresh : first <= j
                               /\ From(s, fresh) = SubSeq(s, first, Len(s))
    <3>1. fresh \in SUBSET Nat
      OBVIOUS
    <3>2. \E i \in fresh : \A j \in fresh : i <= j
      BY <1>2, <3>1, Smallest
    <3> QED
      BY <1>2, <3>2 DEF From
  <2>2. first \in 1..Len(s) /\ Len(s) \in Nat
    OBVIOUS
  <2>3. /\ SubSeq(s, first, Len(s)) \in Seq(Int)
        /\ Len(SubSeq(s, first, Len(s))) = Len(s) - first + 1
        /\ \A i \in 1..(Len(s) - first + 1) : SubSeq(s, first, Len(s))[i] = s[first + i - 1]
    BY <2>2, SubSeqProperties
  <2>4. PICK k \in 0..Len(s) : k = first - 1
    BY <2>2
  <2>5. \A i \in 1..k : i \notin fresh
    BY <2>1, <2>2, <2>4
  <2>6. Len(s) - first + 1 = Len(s) - k /\ \A i \in 1..(Len(s) - k) : first + i - 1 = k + i
    BY <2>2, <2>4
  <2> QED
    BY <2>1, <2>3, <2>5, <2>6
<1> QED
  BY <1>1, <1>2

\* how many posts are forgotten
LEMMA Lengths ==
    ASSUME NEW h \in Seq(Int), NEW a \in Seq(Int), Remembers(h, a)
    PROVE  Len(h) \in Nat /\ Len(a) \in Nat /\ Len(a) - Len(h) \in Nat
<1>1. Len(h) \in Nat /\ Len(a) \in Nat
  OBVIOUS
<1>2. Len(h) <= Len(a)
  BY DEF Remembers
<1> QED
  BY <1>1, <1>2

\* popleft forgets nothing that is fresh
LEMMA RecentRemembers ==
    ASSUME NEW h \in Seq(Int), NEW a \in Seq(Int), now \in Int, Remembers(h, a)
    PROVE  Recent(h) \in Seq(Int) /\ Remembers(Recent(h), a)
<1>1. PICK fresh \in SUBSET (1..Len(h)) :
        /\ \A i \in 1..Len(h) : i \notin fresh => ~ (now - h[i] <= Window)
        /\ Recent(h) = From(h, fresh)
  <2> DEFINE kept == {i \in DOMAIN h : now - h[i] <= Window}
  <2>1. kept \in SUBSET (1..Len(h))
    OBVIOUS
  <2>2. \A i \in 1..Len(h) : i \notin kept => ~ (now - h[i] <= Window)
    OBVIOUS
  <2>3. Recent(h) = From(h, kept)
    BY DEF Recent
  <2> HIDE DEF kept
  <2> QED
    BY <2>1, <2>2, <2>3
<1>2. PICK k \in 0..Len(h) :
        /\ Recent(h) \in Seq(Int) /\ Len(Recent(h)) = Len(h) - k
        /\ \A i \in 1..(Len(h) - k) : Recent(h)[i] = h[k + i]
        /\ \A i \in 1..k : i \notin fresh
  <2>1. \E k \in 0..Len(h) :
            /\ From(h, fresh) \in Seq(Int) /\ Len(From(h, fresh)) = Len(h) - k
            /\ \A i \in 1..(Len(h) - k) : From(h, fresh)[i] = h[k + i]
            /\ \A i \in 1..k : i \notin fresh
    BY FromDrops
  <2> QED
    BY <1>1, <2>1
<1>3. PICK d \in Nat : d = Len(a) - Len(h)
  BY Lengths
<1>4. Len(a) - Len(Recent(h)) = d + k /\ Len(Recent(h)) <= Len(a)
  BY <1>2, <1>3
<1>5. ASSUME NEW i \in 1..Len(Recent(h)) PROVE Recent(h)[i] = a[d + k + i]
  <2>1. k + i \in 1..Len(h) /\ d + (k + i) = d + k + i
    BY <1>2, <1>3
  <2>2. h[k + i] = a[d + (k + i)]
    BY <1>3, <2>1 DEF Remembers
  <2> QED
    BY <1>2, <2>1, <2>2
<1>6. ASSUME NEW i \in 1..(d + k) PROVE now - a[i] > Window
  <2>1. CASE i <= d
    BY <1>3, <2>1 DEF Remembers
  <2>2. CASE i > d
    <3>1. PICK j \in 1..k : i = d + j
      <4>1. i - d \in 1..k /\ i = d + (i - d)
        BY <2>2
      <4> QED
        BY <4>1
    <3>2. j \in 1..Len(h)
      BY <1>2, <3>1
    <3>3. h[j] = a[d + j]
      BY <1>3, <3>2 DEF Remembers
    <3>4. ~ (now - h[j] <= Window)
      BY <1>1, <1>2, <3>2
    <3>5. h[j] \in Int /\ Window \in Int
      BY <3>2, LoginAssumption
    <3> QED
      BY <3>1, <3>3, <3>4, <3>5
  <2> QED
    BY <1>2, <1>3, <2>1, <2>2
<1> QED
  BY <1>2, <1>4, <1>5, <1>6 DEF Remembers

\* a deque that grows
LEMMA Appended ==
    ASSUME NEW a \in Seq(Int), NEW x \in Int
    PROVE  \E b \in Seq(Int) : /\ b = Append(a, x) /\ Len(b) = Len(a) + 1 /\ b[Len(a) + 1] = x
                               /\ \A i \in 1..Len(a) : b[i] = a[i]
<1>1. /\ Append(a, x) \in Seq(Int) /\ Len(Append(a, x)) = Len(a) + 1
      /\ Append(a, x)[Len(a) + 1] = x
      /\ \A i \in 1..Len(a) : Append(a, x)[i] = a[i]
  BY AppendProperties
<1> QED
  BY <1>1

\* a post that is allowed comes more than a window after the one that it must wait for
LEMMA AllowedIsPaced ==
    ASSUME NEW h \in Seq(Int), NEW a \in Seq(Int), now \in Int, Remembers(h, a), Paced(a),
           Len(h) < MaxAttempts
    PROVE  /\ Append(h, now) \in Seq(Int) /\ Append(a, now) \in Seq(Int)
           /\ Remembers(Append(h, now), Append(a, now)) /\ Paced(Append(a, now))
<1>1. PICK b \in Seq(Int) : /\ b = Append(a, now) /\ Len(b) = Len(a) + 1
                            /\ b[Len(a) + 1] = now
                            /\ \A i \in 1..Len(a) : b[i] = a[i]
  BY Appended, now \in Int
<1>2. PICK g \in Seq(Int) : /\ g = Append(h, now) /\ Len(g) = Len(h) + 1
                            /\ g[Len(h) + 1] = now
                            /\ \A i \in 1..Len(h) : g[i] = h[i]
  BY Appended, now \in Int
<1>3. PICK d \in Nat : d = Len(a) - Len(h) /\ d = Len(b) - Len(g) /\ Len(g) <= Len(b)
  <2>1. Len(h) \in Nat /\ Len(a) \in Nat /\ Len(a) - Len(h) \in Nat
    BY Lengths
  <2>2. Len(b) - Len(g) = Len(a) - Len(h) /\ Len(g) <= Len(b)
    BY <1>1, <1>2, <2>1
  <2> QED
    BY <2>1, <2>2
<1>4. Remembers(g, b)
  <2>1. ASSUME NEW i \in 1..Len(g) PROVE g[i] = b[d + i]
    <3>1. CASE i = Len(h) + 1
      BY <1>1, <1>2, <1>3, <3>1
    <3>2. CASE i # Len(h) + 1
      <4>1. i \in 1..Len(h) /\ d + i \in 1..Len(a)
        BY <1>2, <1>3, <3>2
      <4> QED
        BY <1>1, <1>2, <1>3, <4>1 DEF Remembers
    <3> QED
      BY <3>1, <3>2
  <2>2. ASSUME NEW i \in 1..d PROVE now - b[i] > Window
    <3>1. i \in 1..Len(a)
      BY <1>3
    <3> QED
      BY <1>1, <1>3, <3>1 DEF Remembers
  <2>3. Len(g) <= Len(b) /\ Len(b) - Len(g) = d
    BY <1>3
  <2> QED
    BY <2>1, <2>2, <2>3 DEF Remembers
<1>5. Paced(b)
  <2>1. ASSUME NEW i \in 1..Len(b) PROVE b[i] <= now
    <3>1. CASE i = Len(a) + 1
      BY <1>1, <3>1
    <3>2. CASE i # Len(a) + 1
      BY <1>1, <3>2 DEF Paced
    <3> QED
      BY <3>1, <3>2
  <2>2. ASSUME NEW i \in 1..Len(b), NEW j \in 1..Len(b), i <= j PROVE b[i] <= b[j]
    <3>1. CASE j = Len(a) + 1
      BY <1>1, <2>1, <3>1
    <3>2. CASE j # Len(a) + 1
      <4>1. i \in 1..Len(a) /\ j \in 1..Len(a)
        BY <1>1, <2>2, <3>2
      <4> QED
        BY <1>1, <2>2, <4>1 DEF Paced
    <3> QED
      BY <3>1, <3>2
  <2>3. ASSUME NEW j \in 1..Len(b), j > MaxAttempts PROVE b[j] - b[j - MaxAttempts] > Window
    <3>1. MaxAttempts \in Nat \ {0}
      BY LoginAssumption
    <3>2. CASE j = Len(a) + 1
      <4>1. PICK i \in 1..d : i = j - MaxAttempts
        <5>1. PICK m \in Nat, n \in Nat : m = Len(h) /\ n = Len(a)
          OBVIOUS
        <5>2. d = n - m /\ j = n + 1 /\ m < MaxAttempts
          BY <1>3, <3>2, <5>1
        <5>3. j - MaxAttempts \in 1..d
          BY <2>3, <3>1, <5>2
        <5> QED
          BY <5>3
      <4>2. i \in 1..Len(a) /\ b[i] = a[i] /\ now - a[i] > Window
        BY <1>1, <1>3, <4>1 DEF Remembers
      <4> QED
        BY <1>1, <3>2, <4>1, <4>2
    <3>3. CASE j # Len(a) + 1
      <4>1. j \in 1..Len(a)
        BY <1>1, <3>3
      <4>2. j - MaxAttempts \in 1..Len(a)
        BY <2>3, <3>1, <4>1
      <4>3. b[j] = a[j] /\ b[j - MaxAttempts] = a[j - MaxAttempts]
        BY <1>1, <4>1, <4>2
      <4> QED
        BY <2>3, <4>1, <4>3 DEF Paced
    <3> QED
      BY <3>2, <3>3
  <2> QED
    BY <2>1, <2>2, <2>3 DEF Paced
<1> QED
  BY <1>1, <1>2, <1>4, <1>5

\* the limiter's part of the invariant
LEMMA LimiterStep ==
    ASSUME LoginTypes, LimiterInv, [LoginNext]_loginVars PROVE LimiterInv'
<1>1. now \in Int
  BY DEF LoginTypes
<1>2. ASSUME UNCHANGED <<now, hits, allowed>> PROVE LimiterInv'
  BY <1>2 DEF LimiterInv, Remembers, Paced
<1>3. ASSUME NEW u \in User, PostLogin(u) PROVE LimiterInv'
  <2>1. PICK h \in Seq(Int) : h = Recent(hits) /\ Remembers(h, allowed)
    BY <1>1, RecentRemembers DEF LimiterInv
  <2>2. now' = now /\ Paced(allowed) /\ allowed \in Seq(Int)
    BY <1>3 DEF PostLogin, LimiterInv
  <2>3. CASE Len(h) >= MaxAttempts
    <3>1. hits' = h /\ allowed' = allowed
      BY <1>3, <2>1, <2>3 DEF PostLogin
    <3> QED
      BY <2>1, <2>2, <3>1 DEF LimiterInv, Remembers, Paced
  <2>4. CASE ~ (Len(h) >= MaxAttempts)
    <3>1. hits' = Append(h, now) /\ allowed' = Append(allowed, now)
      BY <1>3, <2>1, <2>4 DEF PostLogin
    <3>2. Len(h) < MaxAttempts
      BY <2>4, LoginAssumption
    <3>3. PICK g \in Seq(Int), b \in Seq(Int) :
            g = hits' /\ b = allowed' /\ Remembers(g, b) /\ Paced(b)
      BY <1>1, <2>1, <2>2, <3>1, <3>2, AllowedIsPaced
    <3> QED
      BY <2>2, <3>3 DEF LimiterInv, Remembers, Paced
  <2> QED
    BY <2>3, <2>4
<1>4. ASSUME CockpitRestarts PROVE LimiterInv'
  <2>1. hits' = <<>> /\ allowed' = <<>>
    BY <1>4 DEF CockpitRestarts
  <2> QED
    BY <2>1 DEF LimiterInv, Remembers, Paced
<1>5. ASSUME Tick PROVE LimiterInv'
  <2>1. now' = now + 1 /\ hits' = hits /\ allowed' = allowed
    BY <1>5 DEF Tick, history
  <2>2. allowed \in Seq(Int) /\ hits \in Seq(Int) /\ Window \in Int
    BY LoginAssumption DEF LimiterInv
  <2>3. ASSUME NEW i \in 1..(Len(allowed) - Len(hits)) PROVE now' - allowed[i] > Window
    <3>1. now - allowed[i] > Window /\ i \in 1..Len(allowed)
      BY <2>2 DEF LimiterInv, Remembers
    <3>2. allowed[i] \in Int
      BY <2>2, <3>1
    <3> QED
      BY <1>1, <2>1, <2>2, <3>1, <3>2
  <2>4. ASSUME NEW i \in 1..Len(allowed) PROVE allowed[i] <= now + 1
    <3>1. allowed[i] <= now /\ allowed[i] \in Int
      BY <2>2 DEF LimiterInv, Paced
    <3> QED
      BY <1>1, <3>1
  <2>5. Remembers(hits, allowed)'
    <3>1. PICK h, a : h = hits /\ a = allowed
      OBVIOUS
    <3>2. /\ Len(h) <= Len(a)
          /\ \A i \in 1..Len(h) : h[i] = a[Len(a) - Len(h) + i]
      BY <3>1 DEF LimiterInv, Remembers
    <3>3. \A i \in 1..(Len(a) - Len(h)) : now' - a[i] > Window
      BY <2>3, <3>1
    <3>4. Remembers(h, a)'
      BY <3>2, <3>3 DEF Remembers
    <3> QED
      BY <2>1, <3>1, <3>4
  <2>6. Paced(allowed)'
    BY <2>1, <2>4 DEF LimiterInv, Paced
  <2> QED
    BY <2>1, <2>2, <2>5, <2>6 DEF LimiterInv
<1>6. ASSUME NEW u \in User, RequestCreate(u) \/ RequestApprove(u) \/ Disable(u)
      PROVE  UNCHANGED <<now, hits, allowed>>
  BY <1>6 DEF RequestCreate, RequestApprove, Disable, history
<1>7. ASSUME NEW p \in Process, CreateRequest(p) \/ FindRequest(p) \/ Mint(p) \/ Fulfill(p)
      PROVE  UNCHANGED <<now, hits, allowed>>
  BY <1>7 DEF CreateRequest, FindRequest, Mint, Fulfill, history
<1>8. ASSUME NEW t \in DOMAIN tokens, SendMagicLink(t) \/ Consume(t)
      PROVE  UNCHANGED <<now, hits, allowed>>
  BY <1>8 DEF SendMagicLink, Consume, history
<1>9. ASSUME CommandAborts \/ CleanUp \/ UNCHANGED loginVars
      PROVE  UNCHANGED <<now, hits, allowed>>
  BY <1>9 DEF CommandAborts, CleanUp, history, loginVars
<1> QED
  BY <1>2, <1>3, <1>4, <1>5, <1>6, <1>7, <1>8, <1>9 DEF LoginNext

\* a paced sequence holds no more posts in a window than the limit
LEMMA PacedIsLimited ==
    ASSUME NEW a \in Seq(Int), Paced(a), NEW i \in 1..Len(a)
    PROVE  Cardinality({j \in DOMAIN a : a[j] - a[i] \in 0..Window}) <= MaxAttempts
<1>1. PICK J : J = {j \in DOMAIN a : a[j] - a[i] \in 0..Window}
  OBVIOUS
<1>2. MaxAttempts \in Nat \ {0} /\ Window \in Nat /\ \A j \in 1..Len(a) : a[j] \in Int
  BY LoginAssumption
<1>3. J \subseteq 1..Len(a) /\ J \in SUBSET Nat /\ i \in J
  BY <1>1, <1>2
<1>4. PICK first \in J : \A j \in J : first <= j
  BY <1>3, Smallest
<1>5. ASSUME NEW j \in J, j >= first + MaxAttempts PROVE FALSE
  <2>1. PICK k \in 1..Len(a) : k = first + MaxAttempts
    BY <1>2, <1>3, <1>5
  <2>2. a[k] <= a[j]
    BY <1>3, <1>5, <2>1 DEF Paced
  <2>3. k > MaxAttempts /\ k - MaxAttempts = first
    BY <1>2, <1>3, <2>1
  <2>4. a[k] - a[first] > Window
    BY <2>1, <2>3 DEF Paced
  <2>5. a[j] - a[i] <= Window /\ a[first] - a[i] >= 0
    BY <1>1, <1>2
  <2>6. a[j] \in Int /\ a[i] \in Int /\ a[first] \in Int /\ a[k] \in Int
    BY <1>2, <1>3
  <2> QED
    BY <1>2, <2>2, <2>4, <2>5, <2>6
<1>6. J \in SUBSET (first .. first + MaxAttempts - 1)
  BY <1>2, <1>3, <1>4, <1>5
<1>7. /\ IsFiniteSet(first .. first + MaxAttempts - 1)
      /\ Cardinality(first .. first + MaxAttempts - 1) = MaxAttempts
  <2>1. first \in Int /\ first + MaxAttempts - 1 \in Int
    BY <1>2, <1>3
  <2>2. ~ (first > first + MaxAttempts - 1)
        /\ (first + MaxAttempts - 1) - first + 1 = MaxAttempts
    BY <1>2, <2>1
  <2> QED
    BY <2>1, <2>2, FS_Interval
<1>8. Cardinality(J) <= MaxAttempts
  BY <1>6, <1>7, FS_Subset
<1> QED
  BY <1>1, <1>8

-----------------------------------------------------------------------------
(* Logins: tokens and sessions.                                             *)

\* what a process works on is there
LEMMA WorkIsThere ==
    ASSUME LoginTypes, TokensInv, NEW p \in Process, NEW r, Works(p, r)
    PROVE  /\ r \in DOMAIN requests
           /\ proc[p].pc = "fulfilling" => proc[p].id \in DOMAIN tokens
BY DEF LoginTypes, ProcTyped, TokensInv, Works

\* a token is for the user of its request, whatever step is taken
LEMMA TokensStep ==
    ASSUME LoginTypes, TokensInv, [LoginNext]_loginVars PROVE TokensInv'
<1>1. ASSUME UNCHANGED <<requests, tokens>>, links \subseteq links' PROVE TokensInv'
  BY <1>1 DEF TokensInv
<1>2. ASSUME NEW p \in Process, CreateRequest(p) PROVE TokensInv'
  <2>1. PICK u \in User : u = proc[p].id
    BY <1>2 DEF CreateRequest, LoginTypes, ProcTyped
  <2>2. RequestAdded(u) /\ tokens' = tokens /\ links' = links
    BY <1>2, <2>1, RequestAddition DEF CreateRequest
  <2> QED
    BY <2>2 DEF TokensInv, RequestAdded
<1>3. ASSUME NEW p \in Process, Mint(p) PROVE TokensInv'
  <2>1. PICK r \in DOMAIN requests : r = proc[p].id
    BY <1>3 DEF Mint, LoginTypes, ProcTyped
  <2>2. TokenAdded(r) /\ requests' = requests /\ links' = links
    BY <1>3, <2>1, TokenAddition DEF Mint
  <2>3. ASSUME NEW t \in DOMAIN tokens'
        PROVE  /\ tokens'[t].request \in DOMAIN requests'
               /\ requests'[tokens'[t].request].user = tokens'[t].user
               /\ tokens'[t].st = "consumed" => t \in links'
    <3>1. CASE t \in DOMAIN tokens
      BY <2>2, <3>1 DEF TokensInv, TokenAdded
    <3>2. CASE t = Len(tokens) + 1
      BY <2>2, <3>2 DEF TokenAdded
    <3> QED
      BY <2>2, <2>3, <3>1, <3>2 DEF TokenAdded
  <2> QED
    BY <2>3 DEF TokensInv
<1>4. ASSUME NEW p \in Process, Fulfill(p) PROVE TokensInv'
  <2>1. PICK t \in DOMAIN tokens : t = proc[p].id
    BY <1>4 DEF Fulfill, LoginTypes, ProcTyped
  <2>2. PICK r \in DOMAIN requests : r = tokens[t].request
    BY DEF TokensInv
  <2>3. RequestFulfilled(r) /\ tokens' = tokens /\ links' = links
    BY <1>4, <2>1, <2>2, RequestFulfillment DEF Fulfill
  <2> QED
    BY <2>3 DEF TokensInv, RequestFulfilled
<1>5. ASSUME NEW t \in DOMAIN tokens, Consume(t) PROVE TokensInv'
  <2>1. TokensKept({t}) /\ requests' = requests /\ links' = links /\ t \in links
    BY <1>5, TokenConsumption DEF Consume
  <2> QED
    BY <2>1 DEF TokensInv, TokensKept
<1>6. ASSUME CleanUp PROVE TokensInv'
  <2>1. TokensKept({}) /\ requests' = requests /\ links' = links
    BY <1>6, TokenDeletion DEF CleanUp
  <2> QED
    BY <2>1 DEF TokensInv, TokensKept
<1>7. ASSUME NEW u \in User, PostLogin(u) \/ RequestCreate(u) \/ RequestApprove(u) \/ Disable(u)
      PROVE  UNCHANGED <<requests, tokens>> /\ links \subseteq links'
  BY <1>7 DEF PostLogin, RequestCreate, RequestApprove, Disable, rows
<1>8. ASSUME NEW p \in Process, FindRequest(p)
      PROVE  UNCHANGED <<requests, tokens>> /\ links \subseteq links'
  BY <1>8 DEF FindRequest, rows
<1>9. ASSUME NEW t \in DOMAIN tokens, SendMagicLink(t)
      PROVE  UNCHANGED <<requests, tokens>> /\ links \subseteq links'
  BY <1>9 DEF SendMagicLink, rows
<1>10. ASSUME CockpitRestarts \/ CommandAborts \/ Tick \/ UNCHANGED loginVars
       PROVE  UNCHANGED <<requests, tokens>> /\ links \subseteq links'
  BY <1>10 DEF CockpitRestarts, CommandAborts, Tick, loginVars, rows
<1> QED
  BY <1>1, <1>2, <1>3, <1>4, <1>5, <1>6, <1>7, <1>8, <1>9, <1>10 DEF LoginNext

\* finitely many tokens are spent
LEMMA SpentFinite ==
    ASSUME LoginTypes, NEW u PROVE IsFiniteSet(Spent(u)) /\ Cardinality(Spent(u)) \in Nat
<1>1. IsFiniteSet(1..Len(tokens))
  BY RowNumbers, FS_Interval
<1>2. Spent(u) \in SUBSET (1..Len(tokens))
  BY RowNumbers DEF Spent
<1> QED
  BY <1>1, <1>2, FS_Subset, FS_CardinalityType

\* each session has a spent token of its own
LEMMA SpentStep ==
    ASSUME LoginTypes, SpentInv, [LoginNext]_loginVars PROVE SpentInv'
<1>1. ASSUME sessions' = sessions, \A u \in User : Spent(u)' = Spent(u) PROVE SpentInv'
  BY <1>1 DEF SpentInv
<1>2. ASSUME UNCHANGED <<tokens, sessions>> PROVE SpentInv'
  BY <1>1, <1>2 DEF Spent
<1>3. ASSUME NEW p \in Process, Mint(p) PROVE SpentInv'
  <2>1. PICK r \in DOMAIN requests : r = proc[p].id
    BY <1>3 DEF Mint, LoginTypes, ProcTyped
  <2>2. TokenAdded(r) /\ sessions' = sessions
    BY <1>3, <2>1, TokenAddition DEF Mint
  <2>3. \A u \in User : Spent(u)' = Spent(u)
    BY <2>2 DEF TokenAdded, Spent
  <2> QED
    BY <1>1, <2>2, <2>3
<1>4. ASSUME NEW t \in DOMAIN tokens, Consume(t) PROVE SpentInv'
  <2>1. TokensKept({t}) /\ tokens[t].st = "live"
    BY <1>4, TokenConsumption DEF Consume, Usable
  <2>2. PICK v \in User : v = tokens[t].user
    BY RowNumbers DEF Tokens
  <2>3. sessions' = [sessions EXCEPT ![v] = sessions[v] + 1] /\ sessions \in [User -> Nat]
    BY <1>4, <2>2 DEF Consume, LoginTypes
  <2>4. ASSUME NEW u \in User PROVE sessions'[u] <= Cardinality(Spent(u))'
    <3>1. CASE u = v
      <4>1. Spent(u)' = Spent(u) \cup {t} /\ t \notin Spent(u)
        BY <2>1, <2>2, <3>1 DEF TokensKept, Spent
      <4>2. Cardinality(Spent(u)') = Cardinality(Spent(u)) + 1
        BY <4>1, SpentFinite, FS_AddElement
      <4>3. sessions'[u] = sessions[u] + 1 /\ sessions[u] \in Nat
        BY <2>3, <3>1
      <4> QED
        BY <4>2, <4>3, SpentFinite DEF SpentInv
    <3>2. CASE u # v
      <4>1. Spent(u)' = Spent(u)
        BY <2>1, <2>2, <3>2 DEF TokensKept, Spent
      <4>2. sessions'[u] = sessions[u]
        BY <2>3, <3>2
      <4> QED
        BY <4>1, <4>2 DEF SpentInv
    <3> QED
      BY <3>1, <3>2
  <2> QED
    BY <2>4 DEF SpentInv
<1>5. ASSUME CleanUp PROVE SpentInv'
  <2>1. TokensKept({}) /\ sessions' = sessions
    BY <1>5, TokenDeletion DEF CleanUp
  <2>2. \A u \in User : Spent(u)' = Spent(u)
    BY <2>1 DEF TokensKept, Spent
  <2> QED
    BY <1>1, <2>1, <2>2
<1>6. ASSUME NEW u \in User, PostLogin(u) \/ RequestCreate(u) \/ RequestApprove(u) \/ Disable(u)
      PROVE  UNCHANGED <<tokens, sessions>>
  BY <1>6 DEF PostLogin, RequestCreate, RequestApprove, Disable, rows
<1>7. ASSUME NEW p \in Process, CreateRequest(p) \/ FindRequest(p) \/ Fulfill(p)
      PROVE  UNCHANGED <<tokens, sessions>>
  BY <1>7 DEF CreateRequest, FindRequest, Fulfill, rows
<1>8. ASSUME NEW t \in DOMAIN tokens, SendMagicLink(t) PROVE UNCHANGED <<tokens, sessions>>
  BY <1>8 DEF SendMagicLink, rows
<1>9. ASSUME CockpitRestarts \/ CommandAborts \/ Tick \/ UNCHANGED loginVars
      PROVE  UNCHANGED <<tokens, sessions>>
  BY <1>9 DEF CockpitRestarts, CommandAborts, Tick, loginVars, rows
<1> QED
  BY <1>2, <1>3, <1>4, <1>5, <1>6, <1>7, <1>8, <1>9 DEF LoginNext

-----------------------------------------------------------------------------
(* Logins: approvals.                                                       *)

\* a process that comes to rest or turns to a user works on nothing
LEMMA WorkEnds ==
    ASSUME ProcTyped, NEW p \in Process, NEW pc, NEW id, Step(p, pc, id),
           pc \notin {"minting", "fulfilling"}, tokens' = tokens
    PROVE  \A q \in Process : \A r : Works(q, r)' => Works(q, r) /\ q # p
<1>1. ASSUME NEW q \in Process, NEW r, Works(q, r)' PROVE Works(q, r) /\ q # p
  <2>1. q # p
    BY <1>1, ProcMoves DEF Works
  <2>2. proc'[q] = proc[q]
    BY <2>1, ProcMoves
  <2> QED
    BY <1>1, <2>1, <2>2 DEF Works
<1> QED
  BY <1>1

\* the same of a process that rests
LEMMA RestEndsWork ==
    ASSUME ProcTyped, NEW p \in Process, proc' = [proc EXCEPT ![p] = Resting], tokens' = tokens
    PROVE  \A q \in Process : \A r : Works(q, r)' => Works(q, r) /\ q # p
<1>1. Step(p, "idle", 0)
  BY DEF Step, Resting
<1> QED
  BY <1>1, WorkEnds

\* links that are for fulfilled requests stay so while nothing new is worked on or mailed
LEMMA ApprovalLasts ==
    ASSUME ApprovalInv, requests' = requests, doubled \subseteq doubled',
           outbox \cup links \subseteq DOMAIN tokens,
           outbox' \cup links' \subseteq outbox \cup links,
           \A t \in DOMAIN tokens : tokens'[t].request = tokens[t].request,
           \A p \in Process : \A r : Works(p, r)' => Works(p, r)
    PROVE  ApprovalInv'
<1>1. ASSUME NEW r \in DOMAIN requests, requests[r].user \notin doubled
      PROVE  /\ \A p \in Process : Works(p, r)' => requests[r].st = "pending"
             /\ \A p, q \in Process : Works(p, r)' /\ Works(q, r)' => p = q
             /\ \A t \in outbox' \cup links' :
                    tokens'[t].request = r => requests[r].st = "fulfilled"
             /\ \A t, v \in outbox' \cup links' :
                    tokens'[t].request = r /\ tokens'[v].request = r => t = v
  <2>1. /\ \A p \in Process : Works(p, r) => requests[r].st = "pending"
        /\ \A p, q \in Process : Works(p, r) /\ Works(q, r) => p = q
        /\ \A t \in outbox \cup links : tokens[t].request = r => requests[r].st = "fulfilled"
        /\ \A t, v \in outbox \cup links :
               tokens[t].request = r /\ tokens[v].request = r => t = v
    BY <1>1 DEF ApprovalInv
  <2>2. \A t \in outbox' \cup links' :
            t \in outbox \cup links /\ tokens'[t].request = tokens[t].request
    OBVIOUS
  <2> QED
    BY <2>1, <2>2
<1> QED
  BY <1>1 DEF ApprovalInv

\* a new request is worked on by nobody, and there is no link for it
LEMMA ApprovalOfNew ==
    ASSUME LoginTypes, TokensInv, ApprovalInv, NEW p \in Process, CreateRequest(p)
    PROVE  ApprovalInv'
<1>1. PICK u \in User : u = proc[p].id
  BY DEF CreateRequest, LoginTypes, ProcTyped
<1>2. RequestAdded(u) /\ UNCHANGED <<tokens, outbox, links, doubled>>
  BY <1>1, RequestAddition DEF CreateRequest, history
<1>3. \A q \in Process : \A r : Works(q, r)' => Works(q, r)
  <2>1. Step(p, "approving", u) \/ proc' = [proc EXCEPT ![p] = Resting]
    BY <1>1 DEF CreateRequest
  <2> QED
    BY <1>2, <2>1, WorkEnds, RestEndsWork DEF LoginTypes
<1>4. ASSUME NEW r \in DOMAIN requests', requests'[r].user \notin doubled'
      PROVE  /\ \A q \in Process : Works(q, r)' => requests'[r].st = "pending"
             /\ \A q, x \in Process : Works(q, r)' /\ Works(x, r)' => q = x
             /\ \A t \in outbox' \cup links' :
                    tokens'[t].request = r => requests'[r].st = "fulfilled"
             /\ \A t, v \in outbox' \cup links' :
                    tokens'[t].request = r /\ tokens'[v].request = r => t = v
  <2>1. CASE r \in DOMAIN requests
    BY <1>2, <1>3, <1>4, <2>1 DEF ApprovalInv, RequestAdded
  <2>2. CASE r \notin DOMAIN requests
    <3>1. \A q \in Process : ~ Works(q, r)'
      BY <1>3, <2>2, WorkIsThere
    <3>2. \A t \in outbox' \cup links' : tokens'[t].request # r
      BY <1>2, <2>2 DEF LoginTypes, TokensInv
    <3> QED
      BY <3>1, <3>2
  <2> QED
    BY <2>1, <2>2
<1> QED
  BY <1>4 DEF ApprovalInv

\* who finds a request that the other process works on makes its user one of the doubled
LEMMA ApprovalOfFound ==
    ASSUME LoginTypes, TokensInv, ApprovalInv, NEW p \in Process, FindRequest(p)
    PROVE  ApprovalInv'
<1>1. PICK u : u = proc[p].id
  OBVIOUS
<1>2. UNCHANGED <<requests, tokens, outbox, links>> /\ doubled \subseteq doubled'
  BY DEF FindRequest, rows
<1>3. CASE PendingOf(u) = {}
  <2>1. proc' = [proc EXCEPT ![p] = Resting]
    BY <1>1, <1>3 DEF FindRequest
  <2>2. \A q \in Process : \A r : Works(q, r)' => Works(q, r)
    BY <1>2, <2>1, RestEndsWork DEF LoginTypes
  <2>3. outbox \cup links \subseteq DOMAIN tokens
    BY DEF LoginTypes
  <2> QED
    BY <1>2, <2>2, <2>3, ApprovalLasts
<1>4. CASE PendingOf(u) # {}
  <2>1. PICK f : f = FirstPending(u) /\ f \in PendingOf(u)
    BY <1>4, FirstIsPending
  <2>2. f \in DOMAIN requests /\ requests[f].user = u /\ requests[f].st = "pending"
    BY <2>1, PendingRow
  <2>3. Step(p, "minting", f)
    BY <1>1, <1>4, <2>1 DEF FindRequest
  <2>4. \A q \in Process \ {p} : proc'[q] = proc[q]
    BY <2>3, ProcMoves DEF LoginTypes
  <2>5. \A r : Works(p, r)' <=> r = f
    BY <2>3, ProcMoves DEF Works, LoginTypes
  <2>6. \A q \in Process \ {p} : \A r : Works(q, r)' <=> Works(q, r)
    BY <1>2, <2>4 DEF Works
  <2>7. (\E q \in Process \ {p} : Works(q, f)) => u \in doubled'
    <3>1. ASSUME NEW q \in Process \ {p}, Works(q, f)
          PROVE  \/ proc[q] = [pc |-> "minting", id |-> f]
                 \/ proc[q].pc = "fulfilling" /\ tokens[proc[q].id].request = f
      <4>1. proc[q] = [pc |-> proc[q].pc, id |-> proc[q].id]
        BY DEF LoginTypes, ProcTyped
      <4> QED
        BY <3>1, <4>1 DEF Works
    <3>2. doubled' = IF \E q \in Process \ {p} :
                            \/ proc[q] = [pc |-> "minting", id |-> f]
                            \/ proc[q].pc = "fulfilling" /\ tokens[proc[q].id].request = f
                     THEN doubled \cup {u} ELSE doubled
      BY <1>1, <1>4, <2>1 DEF FindRequest
    <3> QED
      BY <3>1, <3>2
  <2>8. ASSUME NEW r \in DOMAIN requests, requests[r].user \notin doubled'
        PROVE  /\ \A q \in Process : Works(q, r)' => requests[r].st = "pending"
               /\ \A q, x \in Process : Works(q, r)' /\ Works(x, r)' => q = x
    <3>1. /\ \A q \in Process : Works(q, r) => requests[r].st = "pending"
          /\ \A q, x \in Process : Works(q, r) /\ Works(x, r) => q = x
      BY <1>2, <2>8 DEF ApprovalInv
    <3>2. CASE r = f
      <4>1. \A q \in Process \ {p} : ~ Works(q, r)'
        BY <2>2, <2>6, <2>7, <2>8, <3>2
      <4> QED
        BY <2>2, <3>2, <4>1
    <3>3. CASE r # f
      BY <2>5, <2>6, <3>1, <3>3
    <3> QED
      BY <3>2, <3>3
  <2> QED
    BY <1>2, <2>8 DEF ApprovalInv
<1> QED
  BY <1>3, <1>4

\* a token that is minted is for the request that its process works on
LEMMA ApprovalOfMinted ==
    ASSUME LoginTypes, TokensInv, ApprovalInv, NEW p \in Process, Mint(p)
    PROVE  ApprovalInv'
<1>1. PICK r \in DOMAIN requests : r = proc[p].id
  BY DEF Mint, LoginTypes, ProcTyped
<1>2. TokenAdded(r) /\ UNCHANGED <<requests, outbox, links, doubled>>
  BY <1>1, TokenAddition DEF Mint, history
<1>3. Step(p, "fulfilling", Len(tokens) + 1)
  BY <1>2 DEF Mint, TokenAdded
<1>4. \A s : Works(p, s)' => Works(p, s)
  <2>1. proc'[p].pc = "fulfilling" /\ proc'[p].id = Len(tokens) + 1
    BY <1>3, ProcMoves DEF LoginTypes
  <2>2. \A s : Works(p, s)' => s = r
    BY <1>2, <2>1 DEF Works, TokenAdded
  <2>3. Works(p, r)
    BY <1>1 DEF Mint, Works
  <2> QED
    BY <2>2, <2>3
<1>5. \A q \in Process \ {p} : \A s : Works(q, s)' => Works(q, s)
  <2>1. \A q \in Process \ {p} : proc'[q] = proc[q]
    BY <1>3, ProcMoves DEF LoginTypes
  <2> QED
    BY <1>2, <2>1 DEF Works, LoginTypes, ProcTyped, TokenAdded
<1>6. \A t \in DOMAIN tokens : tokens'[t].request = tokens[t].request
  BY <1>2 DEF TokenAdded
<1>7. outbox \cup links \subseteq DOMAIN tokens
  BY DEF LoginTypes
<1>8. \A q \in Process : \A s : Works(q, s)' => Works(q, s)
  BY <1>4, <1>5
<1> QED
  BY <1>2, <1>6, <1>7, <1>8, ApprovalLasts

\* a request that is fulfilled has the one token whose link is mailed now
LEMMA ApprovalOfFulfilled ==
    ASSUME LoginTypes, TokensInv, ApprovalInv, NEW p \in Process, Fulfill(p)
    PROVE  ApprovalInv'
<1>1. PICK t \in DOMAIN tokens : t = proc[p].id
  BY DEF Fulfill, LoginTypes, ProcTyped
<1>2. PICK f \in DOMAIN requests : f = tokens[t].request
  BY DEF TokensInv
<1>3. RequestFulfilled(f) /\ UNCHANGED <<tokens, links, doubled>> /\ outbox' = outbox \cup {t}
  BY <1>1, <1>2, RequestFulfillment DEF Fulfill, history
<1>4. Works(p, f)
  BY <1>1, <1>2 DEF Fulfill, Works
<1>5. \A q \in Process : \A r : Works(q, r)' => Works(q, r) /\ q # p
  BY <1>3, RestEndsWork DEF Fulfill, LoginTypes
<1>6. ASSUME NEW r \in DOMAIN requests, requests[r].user \notin doubled
      PROVE  /\ \A q \in Process : Works(q, r)' => requests'[r].st = "pending"
             /\ \A q, x \in Process : Works(q, r)' /\ Works(x, r)' => q = x
             /\ \A v \in outbox' \cup links :
                    tokens[v].request = r => requests'[r].st = "fulfilled"
             /\ \A v, x \in outbox' \cup links :
                    tokens[v].request = r /\ tokens[x].request = r => v = x
  <2>1. /\ \A q \in Process : Works(q, r) => requests[r].st = "pending"
        /\ \A q, x \in Process : Works(q, r) /\ Works(x, r) => q = x
        /\ \A v \in outbox \cup links : tokens[v].request = r => requests[r].st = "fulfilled"
        /\ \A v, x \in outbox \cup links :
               tokens[v].request = r /\ tokens[x].request = r => v = x
    BY <1>6 DEF ApprovalInv
  <2>2. CASE r = f
    <3>1. \A q \in Process : ~ Works(q, r)'
      BY <1>4, <1>5, <2>1, <2>2
    <3>2. \A v \in outbox \cup links : tokens[v].request # r
      BY <1>4, <2>1, <2>2
    <3>3. requests'[r].st = "fulfilled"
      BY <1>3, <2>2 DEF RequestFulfilled
    <3> QED
      BY <1>3, <3>1, <3>2, <3>3
  <2>3. CASE r # f
    <3>1. requests'[r].st = requests[r].st
      BY <1>3, <2>3 DEF RequestFulfilled
    <3>2. \A v \in outbox' \cup links : tokens[v].request = r => v \in outbox \cup links
      BY <1>2, <1>3, <2>3
    <3> QED
      BY <1>5, <2>1, <3>1, <3>2
  <2> QED
    BY <2>2, <2>3
<1> QED
  BY <1>3, <1>6 DEF ApprovalInv, RequestFulfilled

\* approvals stay in order in every step
LEMMA ApprovalStep ==
    ASSUME LoginTypes, TokensInv, ApprovalInv, [LoginNext]_loginVars PROVE ApprovalInv'
<1>1. outbox \cup links \subseteq DOMAIN tokens /\ ProcTyped
  BY DEF LoginTypes
<1>2. ASSUME UNCHANGED <<requests, tokens, doubled>>,
             outbox' \cup links' \subseteq outbox \cup links,
             \A p \in Process : \A r : Works(p, r)' => Works(p, r)
      PROVE  ApprovalInv'
  BY <1>1, <1>2, ApprovalLasts
<1>3. ASSUME UNCHANGED <<proc, tokens>>
      PROVE  \A p \in Process : \A r : Works(p, r)' => Works(p, r)
  BY <1>3 DEF Works
<1>4. ASSUME NEW u \in User, PostLogin(u) PROVE ApprovalInv'
  <2>1. UNCHANGED <<requests, tokens, doubled, outbox, links>>
        /\ (proc' = proc \/ Step("web", "creating", u))
    BY <1>4 DEF PostLogin, rows
  <2> QED
    BY <1>1, <1>2, <1>3, <2>1, WorkEnds DEF Process
<1>5. ASSUME NEW u \in User, RequestCreate(u) \/ RequestApprove(u) PROVE ApprovalInv'
  <2>1. UNCHANGED <<requests, tokens, doubled, outbox, links>>
        /\ (Step("cli", "creating", u) \/ Step("cli", "approving", u))
    BY <1>5 DEF RequestCreate, RequestApprove, rows, history
  <2> QED
    BY <1>1, <1>2, <2>1, WorkEnds DEF Process
<1>6. ASSUME NEW u \in User, Disable(u) PROVE ApprovalInv'
  <2>1. UNCHANGED <<requests, tokens, doubled, outbox, links, proc>>
    BY <1>6 DEF Disable, rows, history
  <2> QED
    BY <1>2, <1>3, <2>1
<1>7. ASSUME NEW t \in DOMAIN tokens, SendMagicLink(t) PROVE ApprovalInv'
  <2>1. UNCHANGED <<requests, tokens, doubled, proc>>
        /\ outbox' \cup links' \subseteq outbox \cup links
    BY <1>7 DEF SendMagicLink, rows, history
  <2> QED
    BY <1>2, <1>3, <2>1
<1>8. ASSUME NEW spent, TokensKept(spent), UNCHANGED <<requests, doubled, outbox, links, proc>>
      PROVE  ApprovalInv'
  <2>1. \A p \in Process : \A r : Works(p, r)' => Works(p, r)
    BY <1>1, <1>8 DEF Works, TokensKept, ProcTyped
  <2>2. \A t \in DOMAIN tokens : tokens'[t].request = tokens[t].request
    BY <1>8 DEF TokensKept
  <2> QED
    BY <1>1, <1>8, <2>1, <2>2, ApprovalLasts
<1>9. ASSUME NEW t \in DOMAIN tokens, Consume(t) PROVE ApprovalInv'
  <2>1. TokensKept({t}) /\ UNCHANGED <<requests, doubled, outbox, links, proc>>
    BY <1>9, TokenConsumption DEF Consume, history
  <2> QED
    BY <1>8, <2>1
<1>10. ASSUME CleanUp PROVE ApprovalInv'
  <2>1. TokensKept({}) /\ UNCHANGED <<requests, doubled, outbox, links, proc>>
    BY <1>10, TokenDeletion DEF CleanUp, history
  <2> QED
    BY <1>8, <2>1
<1>11. ASSUME CockpitRestarts \/ CommandAborts PROVE ApprovalInv'
  <2>1. /\ UNCHANGED <<requests, tokens, doubled, links>> /\ outbox' \subseteq outbox
        /\ \E p \in Process : proc' = [proc EXCEPT ![p] = Resting]
    BY <1>11 DEF CockpitRestarts, CommandAborts, rows, history, Process
  <2> QED
    BY <1>1, <1>2, <2>1, RestEndsWork
<1>12. ASSUME Tick \/ UNCHANGED loginVars PROVE ApprovalInv'
  <2>1. UNCHANGED <<requests, tokens, doubled, outbox, links, proc>>
    BY <1>12 DEF Tick, loginVars, rows, history
  <2> QED
    BY <1>2, <1>3, <2>1
<1> QED
  BY <1>4, <1>5, <1>6, <1>7, <1>9, <1>10, <1>11, <1>12,
     ApprovalOfNew, ApprovalOfFound, ApprovalOfMinted, ApprovalOfFulfilled DEF LoginNext

-----------------------------------------------------------------------------
(* Logins: pending requests.                                                *)

\* a pending request of u, in the next state
LEMMA PendingRowNext ==
    ASSUME LoginTypes', NEW u, NEW r
    PROVE  r \in PendingOf(u)' <=>
               r \in DOMAIN requests' /\ requests'[r].user = u /\ requests'[r].st = "pending"
<1>1. requests' \in Seq([user : User, st : {"pending", "fulfilled"}])
  BY DEF LoginTypes, Requests
<1>2. DOMAIN requests' = 1..Len(requests')
  BY <1>1
<1>3. \A s \in DOMAIN requests' : requests'[s] \in [user : User, st : {"pending", "fulfilled"}]
  BY <1>1, <1>2, ElementOfSeq
<1> QED
  BY <1>3 DEF PendingOf

\* what the command line creates, it leaves
LEMMA CommandStep ==
    ASSUME LoginTypes, CommandInv, [LoginNext]_loginVars PROVE CommandInv'
<1>1. ProcTyped /\ "cli" \in Process /\ "web" \in Process /\ "cli" # "web"
  BY DEF LoginTypes, Process
<1>2. ASSUME proc'["cli"] = proc["cli"], stuck \subseteq stuck' PROVE CommandInv'
  BY <1>2 DEF CommandInv
<1>3. ASSUME proc' = [proc EXCEPT !["web"] = Resting]
             \/ \E pc, id : Step("web", pc, id)
      PROVE  proc'["cli"] = proc["cli"]
  BY <1>1, <1>3 DEF Step, ProcTyped
<1>4. ASSUME proc' = [proc EXCEPT !["cli"] = Resting]
             \/ \E pc, id : Step("cli", pc, id) /\ pc # "creating"
      PROVE  CommandInv'
  BY <1>1, <1>4 DEF Step, ProcTyped, CommandInv, Resting
<1>5. ASSUME NEW u \in User, PostLogin(u) PROVE CommandInv'
  <2>1. stuck' = stuck /\ (proc' = proc \/ Step("web", "creating", u))
    BY <1>5 DEF PostLogin
  <2> QED
    BY <1>2, <1>3, <2>1
<1>6. ASSUME NEW u \in User, RequestCreate(u) PROVE CommandInv'
  <2>1. Step("cli", "creating", u) /\ stuck' = stuck \cup {u}
    BY <1>6 DEF RequestCreate
  <2>2. proc'["cli"].id = u
    BY <1>1, <2>1, ProcMoves
  <2> QED
    BY <2>1, <2>2 DEF CommandInv
<1>7. ASSUME NEW u \in User, RequestApprove(u) PROVE CommandInv'
  BY <1>4, <1>7 DEF RequestApprove
<1>8. ASSUME NEW p \in Process, CreateRequest(p) PROVE CommandInv'
  <2>1. stuck' = stuck
    BY <1>8 DEF CreateRequest, history
  <2>2. \/ Step(p, "approving", proc[p].id)
        \/ proc' = [proc EXCEPT ![p] = Resting]
    BY <1>8 DEF CreateRequest
  <2>3. CASE p = "web"
    BY <1>2, <1>3, <2>1, <2>2, <2>3
  <2>4. CASE p = "cli"
    BY <1>4, <2>2, <2>4
  <2> QED
    BY <2>3, <2>4 DEF Process
<1>9. ASSUME NEW p \in Process, FindRequest(p) \/ Mint(p) \/ Fulfill(p) PROVE CommandInv'
  <2>1. stuck' = stuck
    BY <1>9 DEF FindRequest, Mint, Fulfill, history
  <2>2. \/ Step(p, "minting", FirstPending(proc[p].id))
        \/ Step(p, "fulfilling", Len(tokens'))
        \/ proc' = [proc EXCEPT ![p] = Resting]
    BY <1>9 DEF FindRequest, Mint, Fulfill
  <2>3. CASE p = "web"
    BY <1>2, <1>3, <2>1, <2>2, <2>3
  <2>4. CASE p = "cli"
    BY <1>4, <2>2, <2>4
  <2> QED
    BY <2>3, <2>4 DEF Process
<1>10. ASSUME NEW t \in DOMAIN tokens, SendMagicLink(t) \/ Consume(t) PROVE CommandInv'
  BY <1>2, <1>10 DEF SendMagicLink, Consume, history
<1>11. ASSUME NEW u \in User, Disable(u) PROVE CommandInv'
  BY <1>2, <1>11 DEF Disable, history
<1>12. ASSUME CockpitRestarts PROVE CommandInv'
  BY <1>2, <1>3, <1>12 DEF CockpitRestarts
<1>13. ASSUME CommandAborts PROVE CommandInv'
  BY <1>4, <1>13 DEF CommandAborts
<1>14. ASSUME CleanUp \/ Tick \/ UNCHANGED loginVars PROVE CommandInv'
  BY <1>2, <1>14 DEF CleanUp, Tick, loginVars, history
<1> QED
  BY <1>5, <1>6, <1>7, <1>8, <1>9, <1>10, <1>11, <1>12, <1>13, <1>14 DEF LoginNext

\* a web server that is at no request has left none
LEMMA NonePending ==
    ASSUME AttendedInv, AutoApprove, proc["web"].pc \in {"idle", "creating"}, NEW u \in User \ stuck
    PROVE  PendingOf(u) = {}
BY DEF AttendedInv, Attended, Works

\* what it attends, it attends while it stays where it is and nothing comes up
LEMMA AttendedLasts ==
    ASSUME LoginTypes, AttendedInv, stuck \subseteq stuck', proc'["web"] = proc["web"],
           \A t \in DOMAIN tokens : tokens'[t].request = tokens[t].request,
           \A u \in User \ stuck' : PendingOf(u)' \subseteq PendingOf(u)
    PROVE  AttendedInv'
<1>1. ASSUME NEW r, Works("web", r) PROVE Works("web", r)'
  <2>1. proc["web"].pc = "fulfilling" => proc["web"].id \in DOMAIN tokens
    BY DEF LoginTypes, ProcTyped, Process
  <2> QED
    BY <1>1, <2>1 DEF Works
<1>2. ASSUME AutoApprove, NEW u \in User \ stuck' PROVE Attended(u)'
  <2>1. Attended(u)
    BY <1>2 DEF AttendedInv
  <2>2. ASSUME NEW r \in PendingOf(u)'
        PROVE  /\ \A s \in PendingOf(u)' : s = r
               /\ (proc'["web"].pc = "approving" /\ proc'["web"].id = u) \/ Works("web", r)'
    <3>1. r \in PendingOf(u) /\ \A s \in PendingOf(u)' : s \in PendingOf(u)
      BY <1>2, <2>2
    <3> QED
      BY <1>1, <2>1, <3>1 DEF Attended
  <2> QED
    BY <2>2 DEF Attended
<1> QED
  BY <1>2 DEF AttendedInv

\* when no request is pending, all are attended
LEMMA NoneToAttend ==
    ASSUME AutoApprove => \A u \in User \ stuck' : PendingOf(u)' = {} PROVE AttendedInv'
BY DEF AttendedInv, Attended

\* a request of the web server is approved next
LEMMA AttendedNew ==
    ASSUME LoginTypes, LoginTypes', AttendedInv, CommandInv, NEW p \in Process, CreateRequest(p)
    PROVE  AttendedInv'
<1>1. PICK u \in User : u = proc[p].id
  BY DEF CreateRequest, LoginTypes, ProcTyped
<1>2. RequestAdded(u) /\ tokens' = tokens /\ stuck' = stuck
  BY <1>1, RequestAddition DEF CreateRequest, history
<1>3. ProcTyped /\ "cli" \in Process /\ "web" \in Process /\ "cli" # "web"
  BY DEF LoginTypes, Process
<1>4. ASSUME NEW v, NEW r \in PendingOf(v)'
      PROVE  r \in PendingOf(v) \/ (v = u /\ r = Len(requests) + 1)
  <2>1. r \in DOMAIN requests' /\ requests'[r].user = v /\ requests'[r].st = "pending"
    BY <1>4, PendingRowNext
  <2>2. CASE r \in DOMAIN requests
    BY <1>2, <2>1, <2>2, PendingRow DEF RequestAdded
  <2>3. CASE r \notin DOMAIN requests
    BY <1>2, <2>1, <2>3 DEF RequestAdded
  <2> QED
    BY <2>2, <2>3
<1>5. CASE p = "cli"
  <2>1. u \in stuck
    BY <1>1, <1>5 DEF CreateRequest, CommandInv
  <2>2. \A v \in User \ stuck' : PendingOf(v)' \subseteq PendingOf(v)
    BY <1>2, <1>4, <2>1
  <2>3. proc'["web"] = proc["web"]
    BY <1>3, <1>5 DEF CreateRequest, Step, ProcTyped
  <2> QED
    BY <1>2, <2>2, <2>3, AttendedLasts
<1>6. CASE p = "web"
  <2>1. ASSUME AutoApprove, NEW v \in User \ stuck' PROVE Attended(v)'
    <3>1. PendingOf(v) = {}
      BY <1>2, <1>6, <2>1, NonePending DEF CreateRequest
    <3>2. Step("web", "approving", u)
      BY <1>1, <1>6, <2>1 DEF CreateRequest
    <3>3. proc'["web"].pc = "approving" /\ proc'["web"].id = u
      BY <1>3, <3>2, ProcMoves
    <3>4. \A r \in PendingOf(v)' : v = u /\ r = Len(requests) + 1
      BY <1>4, <3>1
    <3> QED
      BY <3>3, <3>4 DEF Attended
  <2> QED
    BY <2>1 DEF AttendedInv
<1> QED
  BY <1>5, <1>6 DEF Process

\* the request that it was approving is the one that it finds
LEMMA AttendedFound ==
    ASSUME LoginTypes, AttendedInv, NEW p \in Process, FindRequest(p)
    PROVE  AttendedInv'
<1>1. PICK u : u = proc[p].id
  OBVIOUS
<1>2. UNCHANGED <<requests, tokens, stuck>>
  BY DEF FindRequest, rows
<1>3. \A v : PendingOf(v)' = PendingOf(v)
  BY <1>2 DEF PendingOf
<1>4. ProcTyped /\ "cli" \in Process /\ "web" \in Process /\ "cli" # "web"
  BY DEF LoginTypes, Process
<1>5. CASE p = "cli"
  <2>1. proc'["web"] = proc["web"]
    BY <1>4, <1>5 DEF FindRequest, Step, ProcTyped
  <2> QED
    BY <1>2, <1>3, <2>1, AttendedLasts
<1>6. CASE p = "web"
  <2>1. proc["web"].pc = "approving"
    BY <1>6 DEF FindRequest
  <2>2. ASSUME AutoApprove, NEW v \in User \ stuck, NEW r \in PendingOf(v)
        PROVE  v = u /\ \A s \in PendingOf(u) : s = r
    BY <1>1, <1>6, <2>1, <2>2 DEF AttendedInv, Attended, Works
  <2>3. CASE PendingOf(u) = {}
    <3>1. AutoApprove => \A v \in User \ stuck' : PendingOf(v)' = {}
      BY <1>2, <1>3, <2>2, <2>3
    <3> QED
      BY <3>1, NoneToAttend
  <2>4. CASE PendingOf(u) # {}
    <3>1. PICK f \in PendingOf(u) : f = FirstPending(u)
      BY <2>4, FirstIsPending
    <3>2. Step("web", "minting", f)
      BY <1>1, <1>6, <2>4, <3>1 DEF FindRequest
    <3>3. proc'["web"].pc = "minting" /\ proc'["web"].id = f
      BY <1>4, <3>2, ProcMoves
    <3>4. ASSUME AutoApprove, NEW v \in User \ stuck, NEW r \in PendingOf(v)
          PROVE  r = f /\ \A s \in PendingOf(v) : s = r
      BY <2>2, <3>1, <3>4
    <3>5. Works("web", f)'
      BY <3>3 DEF Works
    <3> QED
      BY <1>2, <1>3, <3>4, <3>5 DEF AttendedInv, Attended
  <2> QED
    BY <2>3, <2>4
<1> QED
  BY <1>5, <1>6 DEF Process

\* and the one for which it mints a token
LEMMA AttendedMinted ==
    ASSUME LoginTypes, AttendedInv, NEW p \in Process, Mint(p)
    PROVE  AttendedInv'
<1>1. PICK f \in DOMAIN requests : f = proc[p].id
  BY DEF Mint, LoginTypes, ProcTyped
<1>2. TokenAdded(f) /\ UNCHANGED <<requests, stuck>>
  BY <1>1, TokenAddition DEF Mint, history
<1>3. \A v : PendingOf(v)' = PendingOf(v)
  BY <1>2 DEF PendingOf
<1>4. ProcTyped /\ "cli" \in Process /\ "web" \in Process /\ "cli" # "web"
  BY DEF LoginTypes, Process
<1>5. CASE p = "cli"
  <2>1. proc'["web"] = proc["web"]
    BY <1>4, <1>5 DEF Mint, Step, ProcTyped
  <2>2. \A t \in DOMAIN tokens : tokens'[t].request = tokens[t].request
    BY <1>2 DEF TokenAdded
  <2> QED
    BY <1>2, <1>3, <2>1, <2>2, AttendedLasts
<1>6. CASE p = "web"
  <2>1. proc["web"].pc = "minting" /\ proc["web"].id = f
    BY <1>1, <1>6 DEF Mint
  <2>2. Step("web", "fulfilling", Len(tokens) + 1)
    BY <1>2, <1>6 DEF Mint, TokenAdded
  <2>3. proc'["web"].pc = "fulfilling" /\ proc'["web"].id = Len(tokens) + 1
    BY <1>4, <2>2, ProcMoves
  <2>4. Works("web", f)'
    BY <1>2, <2>3 DEF Works, TokenAdded
  <2>5. ASSUME AutoApprove, NEW v \in User \ stuck, NEW r \in PendingOf(v)
        PROVE  r = f /\ \A s \in PendingOf(v) : s = r
    BY <2>1, <2>5 DEF AttendedInv, Attended, Works
  <2> QED
    BY <1>2, <1>3, <2>4, <2>5 DEF AttendedInv, Attended
<1> QED
  BY <1>5, <1>6 DEF Process

\* until it fulfils it
LEMMA AttendedFulfilled ==
    ASSUME LoginTypes, LoginTypes', TokensInv, AttendedInv, NEW p \in Process, Fulfill(p)
    PROVE  AttendedInv'
<1>1. PICK t \in DOMAIN tokens : t = proc[p].id
  BY DEF Fulfill, LoginTypes, ProcTyped
<1>2. PICK f \in DOMAIN requests : f = tokens[t].request
  BY DEF TokensInv
<1>3. RequestFulfilled(f) /\ UNCHANGED <<tokens, stuck>>
  BY <1>1, <1>2, RequestFulfillment DEF Fulfill, history
<1>4. ASSUME NEW v, NEW r \in PendingOf(v)' PROVE r \in PendingOf(v) /\ r # f
  BY <1>3, <1>4, PendingRow, PendingRowNext DEF RequestFulfilled
<1>5. CASE p = "cli"
  <2>1. proc'["web"] = proc["web"]
    BY <1>5 DEF Fulfill, LoginTypes, ProcTyped, Process
  <2>2. \A v \in User \ stuck' : PendingOf(v)' \subseteq PendingOf(v)
    BY <1>4
  <2> QED
    BY <1>3, <2>1, <2>2, AttendedLasts
<1>6. CASE p = "web"
  <2>1. proc["web"].pc = "fulfilling" /\ tokens[proc["web"].id].request = f
    BY <1>1, <1>2, <1>6 DEF Fulfill
  <2>2. ASSUME AutoApprove, NEW v \in User \ stuck, NEW r \in PendingOf(v) PROVE r = f
    BY <2>1, <2>2 DEF AttendedInv, Attended, Works
  <2>3. AutoApprove => \A v \in User \ stuck' : PendingOf(v)' = {}
    BY <1>3, <1>4, <2>2
  <2> QED
    BY <2>3, NoneToAttend
<1> QED
  BY <1>5, <1>6 DEF Process

\* a restart leaves the request to the command line
LEMMA AttendedRestart ==
    ASSUME LoginTypes, TokensInv, AttendedInv, CockpitRestarts PROVE AttendedInv'
<1>1. UNCHANGED <<requests, tokens>> /\ stuck' = stuck \cup UserOf("web")
  BY DEF CockpitRestarts, rows
<1>2. \A v : PendingOf(v)' = PendingOf(v)
  BY <1>1 DEF PendingOf
<1>3. ASSUME AutoApprove, NEW v \in User \ stuck', NEW r \in PendingOf(v) PROVE FALSE
  <2>1. r \in DOMAIN requests /\ requests[r].user = v
    BY PendingRow
  <2>2. (proc["web"].pc = "approving" /\ proc["web"].id = v) \/ Works("web", r)
    BY <1>1, <1>3 DEF AttendedInv, Attended
  <2>3. v \in UserOf("web")
    <3>1. CASE proc["web"].pc = "approving" /\ proc["web"].id = v
      BY <3>1 DEF UserOf
    <3>2. CASE proc["web"].pc = "minting" /\ proc["web"].id = r
      BY <2>1, <3>2 DEF UserOf
    <3>3. CASE proc["web"].pc = "fulfilling" /\ tokens[proc["web"].id].request = r
      <4>1. proc["web"].id \in DOMAIN tokens
        BY <3>3 DEF LoginTypes, ProcTyped, Process
      <4>2. tokens[proc["web"].id].user = v
        BY <2>1, <3>3, <4>1 DEF TokensInv
      <4> QED
        BY <3>3, <4>2 DEF UserOf
    <3> QED
      BY <2>2, <3>1, <3>2, <3>3 DEF Works
  <2> QED
    BY <1>1, <1>3, <2>3
<1>4. AutoApprove => \A v \in User \ stuck' : PendingOf(v)' = {}
  BY <1>2, <1>3
<1> QED
  BY <1>4, NoneToAttend

\* requests stay attended in every step
LEMMA AttendedStep ==
    ASSUME LoginTypes, LoginTypes', TokensInv, AttendedInv, CommandInv, [LoginNext]_loginVars
    PROVE  AttendedInv'
<1>1. ProcTyped /\ "cli" \in Process /\ "web" \in Process /\ "cli" # "web"
  BY DEF LoginTypes, Process
<1>2. ASSUME requests' = requests, stuck \subseteq stuck', proc'["web"] = proc["web"],
             \A t \in DOMAIN tokens : tokens'[t].request = tokens[t].request
      PROVE  AttendedInv'
  <2>1. \A u : PendingOf(u)' = PendingOf(u)
    BY <1>2 DEF PendingOf
  <2> QED
    BY <1>2, <2>1, AttendedLasts
<1>3. ASSUME NEW u \in User, PostLogin(u) PROVE AttendedInv'
  <2>1. UNCHANGED <<requests, tokens, stuck>>
    BY <1>3 DEF PostLogin, rows
  <2>2. proc["web"].pc = "idle"
    BY <1>3 DEF PostLogin, Resting
  <2>3. \A v : PendingOf(v)' = PendingOf(v)
    BY <2>1 DEF PendingOf
  <2>4. AutoApprove => \A v \in User \ stuck' : PendingOf(v)' = {}
    BY <2>1, <2>2, <2>3, NonePending
  <2> QED
    BY <2>4, NoneToAttend
<1>4. ASSUME NEW u \in User, RequestCreate(u) \/ RequestApprove(u) PROVE AttendedInv'
  <2>1. UNCHANGED <<requests, tokens>> /\ stuck \subseteq stuck'
        /\ (Step("cli", "creating", u) \/ Step("cli", "approving", u))
    BY <1>4 DEF RequestCreate, RequestApprove, rows, history
  <2>2. proc'["web"] = proc["web"]
    BY <1>1, <2>1, ProcMoves
  <2> QED
    BY <1>2, <2>1, <2>2
<1>5. ASSUME NEW u \in User, Disable(u) PROVE AttendedInv'
  BY <1>2, <1>5 DEF Disable, rows, history
<1>6. ASSUME NEW t \in DOMAIN tokens, SendMagicLink(t) PROVE AttendedInv'
  BY <1>2, <1>6 DEF SendMagicLink, rows, history
<1>7. ASSUME NEW t \in DOMAIN tokens, Consume(t) PROVE AttendedInv'
  <2>1. TokensKept({t}) /\ UNCHANGED <<requests, proc, stuck>>
    BY <1>7, TokenConsumption DEF Consume, history
  <2> QED
    BY <1>2, <2>1 DEF TokensKept
<1>8. ASSUME CleanUp PROVE AttendedInv'
  <2>1. TokensKept({}) /\ UNCHANGED <<requests, proc, stuck>>
    BY <1>8, TokenDeletion DEF CleanUp, history
  <2> QED
    BY <1>2, <2>1 DEF TokensKept
<1>9. ASSUME CommandAborts PROVE AttendedInv'
  <2>1. UNCHANGED <<requests, tokens, stuck>> /\ proc' = [proc EXCEPT !["cli"] = Resting]
    BY <1>9 DEF CommandAborts, rows, history
  <2>2. proc'["web"] = proc["web"]
    BY <1>1, <2>1 DEF ProcTyped
  <2> QED
    BY <1>2, <2>1, <2>2
<1>10. ASSUME Tick \/ UNCHANGED loginVars PROVE AttendedInv'
  BY <1>2, <1>10 DEF Tick, loginVars, rows, history
<1> QED
  BY <1>3, <1>4, <1>5, <1>6, <1>7, <1>8, <1>9, <1>10,
     AttendedNew, AttendedFound, AttendedMinted, AttendedFulfilled, AttendedRestart DEF LoginNext

-----------------------------------------------------------------------------
(* Logins: the theorems.                                                    *)

\* the invariant holds at first
LEMMA LoginInvInit == LoginInit => LoginInv
<1> SUFFICES ASSUME LoginInit PROVE LoginInv
  OBVIOUS
<1>1. LoginTypes
  BY LoginTypesInit
<1>2. DOMAIN requests = {} /\ DOMAIN tokens = {}
  BY DEF LoginInit
<1>3. TokensInv /\ ApprovalInv
  BY <1>2 DEF TokensInv, ApprovalInv
<1>4. SpentInv
  <2>1. \A u \in User : Spent(u) = {}
    BY <1>2 DEF Spent
  <2>2. Cardinality({}) = 0
    BY FS_EmptySet
  <2>3. \A u \in User : sessions[u] = 0
    BY DEF LoginInit
  <2>4. \A u \in User : Cardinality(Spent(u)) = 0
    BY <2>1, <2>2
  <2> QED
    BY <2>3, <2>4 DEF SpentInv
<1>5. AttendedInv
  BY <1>2 DEF AttendedInv, Attended, PendingOf
<1>6. CommandInv
  BY DEF LoginInit, CommandInv, Process, Resting
<1>7. LimiterInv
  <2>1. allowed \in Seq(Int) /\ hits \in Seq(Int) /\ Len(allowed) = 0 /\ Len(hits) = 0
    BY DEF LoginInit
  <2> QED
    BY <2>1 DEF LimiterInv, Remembers, Paced
<1> QED
  BY <1>1, <1>3, <1>4, <1>5, <1>6, <1>7 DEF LoginInv

\* and every step keeps it
LEMMA LoginInvStep == LoginInv /\ [LoginNext]_loginVars => LoginInv'
<1> SUFFICES ASSUME LoginInv, [LoginNext]_loginVars PROVE LoginInv'
  OBVIOUS
<1>1. LoginTypes /\ TokensInv /\ SpentInv /\ ApprovalInv /\ AttendedInv /\ CommandInv /\ LimiterInv
  BY DEF LoginInv
<1>2. LoginTypes'
  BY <1>1, LoginTypesStep
<1>3. TokensInv' /\ SpentInv' /\ ApprovalInv'
  BY <1>1, TokensStep, SpentStep, ApprovalStep
<1>4. AttendedInv' /\ CommandInv' /\ LimiterInv'
  BY <1>1, <1>2, AttendedStep, CommandStep, LimiterStep
<1> QED
  BY <1>2, <1>3, <1>4 DEF LoginInv

\* spent tokens of one user are for different fulfilled requests
LEMMA SessionsOfRequests == LoginInv => SessionsAreApproved
<1> SUFFICES ASSUME LoginInv, NEW u \in User \ doubled
             PROVE  sessions[u] <= Cardinality({r \in DOMAIN requests :
                        requests[r].user = u /\ requests[r].st = "fulfilled"})
  BY DEF SessionsAreApproved
<1> DEFINE F == {r \in DOMAIN requests : requests[r].user = u /\ requests[r].st = "fulfilled"}
           f == [t \in Spent(u) |-> tokens[t].request]
<1>1. LoginTypes /\ TokensInv /\ SpentInv /\ ApprovalInv
  BY DEF LoginInv
<1>2. \A t \in Spent(u) : /\ t \in outbox \cup links /\ tokens[t].request \in DOMAIN requests
                          /\ requests[tokens[t].request].user = u
  BY <1>1 DEF Spent, TokensInv
<1>3. \A t \in Spent(u) : tokens[t].request \in F
  BY <1>1, <1>2 DEF ApprovalInv
<1>4. \A t, v \in Spent(u) : tokens[t].request = tokens[v].request => t = v
  BY <1>1, <1>2 DEF ApprovalInv
<1>5. f \in Injection(Spent(u), F)
  <2>1. f \in [Spent(u) -> F]
    BY <1>3
  <2>2. \A t, v \in Spent(u) : f[t] = f[v] => t = v
    BY <1>4
  <2> QED
    BY <2>1, <2>2 DEF Injection, IsInjective
<1>6. IsFiniteSet(F) /\ Cardinality(F) \in Nat
  <2>1. IsFiniteSet(1..Len(requests)) /\ F \in SUBSET (1..Len(requests))
    BY <1>1, RowNumbers, FS_Interval
  <2> QED
    BY <2>1, FS_Subset, FS_CardinalityType
<1> HIDE DEF F, f
<1>7. Cardinality(Spent(u)) <= Cardinality(F)
  BY <1>5, <1>6, FS_Injection
<1>8. sessions[u] <= Cardinality(Spent(u)) /\ sessions[u] \in Nat
      /\ Cardinality(Spent(u)) \in Nat
  BY <1>1, SpentFinite DEF SpentInv, LoginTypes
<1>9. sessions[u] <= Cardinality(F)
  BY <1>6, <1>7, <1>8
<1> QED
  BY <1>9 DEF F

\* For any users, bounds, lifetimes and limits: a user starts no more sessions than requests of
\* theirs were approved, unless one request was approved twice at the same time.
THEOREM SessionsAreApprovedAlways == LoginSpec => []SessionsAreApproved
BY LoginInvInit, LoginInvStep, SessionsOfRequests, PTL DEF LoginSpec

\* A cockpit that approves by itself leaves no request pending while its web server rests,
\* unless the command line created it or a restart interrupted its approval.
THEOREM NobodyIsLockedOutAlways == LoginSpec => []NobodyIsLockedOut
<1>1. LoginInv => NobodyIsLockedOut
  BY NonePending DEF LoginInv, NobodyIsLockedOut, Resting
<1> QED
  BY <1>1, LoginInvInit, LoginInvStep, PTL DEF LoginSpec

\* No closed interval of one window holds more allowed posts than the limit.
THEOREM WindowsAreLimitedAlways == LoginSpec => []WindowsAreLimited
<1>1. LoginInv => WindowsAreLimited
  <2> SUFFICES ASSUME LoginInv, NEW i \in DOMAIN allowed
               PROVE  Cardinality({j \in DOMAIN allowed :
                                       allowed[j] - allowed[i] \in 0..Window}) <= MaxAttempts
    BY DEF WindowsAreLimited
  <2>1. allowed \in Seq(Int) /\ Paced(allowed)
    BY DEF LoginInv, LimiterInv
  <2>2. i \in 1..Len(allowed)
    BY <2>1
  <2> QED
    BY <2>1, <2>2, PacedIsLimited
<1> QED
  BY <1>1, LoginInvInit, LoginInvStep, PTL DEF LoginSpec

=============================================================================
