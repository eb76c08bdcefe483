--------------------------- MODULE DatasourceConfig ---------------------------
(* The configuration of one data source, a JSON column: how to reach its       *)
(* warehouse, with a credential that is encrypted where it is stored and never *)
(* shown, and its participant types.  The keys are the server's environment;   *)
(* operators add and drop them, and restart it.                               *)
(*                                                                           *)
(* Every request that changes a part loads, decrypts, changes, encrypts and    *)
(* writes the whole.  What the server remembers of texts it decrypted           *)
(* (_decrypt_string) is not state of the model: a process has one set of keys. *)
EXTENDS Integers, Sequences, FiniteSets, SequencesExt

CONSTANTS
  Editors,     \* requests at work
  Dsns,        \* bound: what clients send, of the form of Dsn(kind, host, secret)
  TypeNames,   \* bound: names of participant types, <<name, case>>
  MaxKeys,     \* bound: keys made
  MaxCommits   \* bound: changes committed

VARIABLES
  config,    \* Datasource.config, or NoConfig when there is no such row
  keyset,    \* NaclProviderKeyset.keys: the first encrypts, any decrypts
  backend,   \* XNGIN_SECRETS_BACKEND: "nacl", or "noop" (development only)
  keysMade,  \* keys made so far
  edit,      \* what each request loaded and was asked for
  commits,   \* changes committed so far
  revealed,  \* history: the credential last revealed by a request that was committed
  overtaken, \* history: some request wrote what it had loaded before another's commit
  writtenAt  \* history: keysMade and backend when the configuration was last written

configVars == <<config, keyset, backend, keysMade, edit, commits, revealed, overtaken, writtenAt>>

\* Credentials: a password, a service account, or the path of its file.
Credential(class, text) == [class |-> class, text |-> text]
NoCredential == Credential("none", "none")
Account == Credential("account", "sa")

\* settings.Dwh; the rest of a DSN is copied as it is.
NoDwh == [driver |-> "none", host |-> "none", secret |-> NoCredential]
NoConfig == [dwh |-> [NoDwh EXCEPT !.driver = "absent"], types |-> <<>>]
Dwh(driver, host, secret) == [driver |-> driver, host |-> host, secret |-> secret]

\* A DSN as clients send it has a kind, a host, and a credential or "hidden".
Dsn(kind, host, secret) == [kind |-> kind, host |-> host, secret |-> secret]
Hidden == Credential("hidden", "hidden")

\* The classes of credential of each kind: what the API types let through.
IsDsn(d) ==
  /\ d = Dsn(d.kind, d.host, Credential(d.secret.class, d.secret.text))
  /\ \/ d.kind = "api_only" /\ d.host = "none" /\ d.secret = NoCredential
     \/ d.kind = "bigquery" /\ d.host = "none" /\ (d.secret.class = "account" \/ d.secret = Hidden)
     \/ /\ d.kind \in {"postgres", "redshift"} /\ d.host \in {"plain", "redshift"}
        /\ d.secret.class = "password" \/ d.secret = Hidden

ASSUME ConfigAssumption ==
  /\ \A d \in Dsns : IsDsn(d)
  /\ MaxKeys \in Nat \ {0} /\ MaxCommits \in Nat

\* What a request was asked for (op, dsn, name, new) and what it loaded.
NoDsn == Dsn("none", "none", NoCredential)
NoName == <<"none", "none">>
NoEdit == [op |-> "none", dsn |-> NoDsn, name |-> NoName, new |-> NoName,
           dwh |-> NoDwh, types |-> <<>>, stale |-> FALSE]

-----------------------------------------------------------------------------
(* Encryption: a stored credential says what it was encrypted with.            *)

Plain == <<"plain", 0>>
Noop == <<"noop", 0>>

Encrypted(dwh) ==
  IF dwh.secret.class \in {"password", "account"}
  THEN [dwh EXCEPT !.secret = [class |-> @.class, text |-> @.text,
                               by |-> IF backend = "noop" THEN Noop ELSE <<"nacl", keyset[1]>>]]
  ELSE [dwh EXCEPT !.secret = [class |-> @.class, text |-> @.text, by |-> Plain]]

\* SecretService.decrypt: by the provider named in the text, nacl's with any of its keys.
\* A text without the prefix is from before there was encryption, or needs none.
Decryptable(secret) ==
  CASE secret.by = Plain -> TRUE
    [] secret.by = Noop -> backend = "noop"
    [] OTHER -> secret.by[2] \in ToSet(keyset)

Decrypted(dwh) == [dwh EXCEPT !.secret = Credential(@.class, @.text)]

Configured == config # NoConfig
Readable == Configured /\ Decryptable(config.dwh.secret)

-----------------------------------------------------------------------------
(* Conversion (admin_api_converters).                                        *)

Drivers == [postgres |-> "psycopg", redshift |-> "psycopg2", bigquery |-> "bigquery", api_only |-> "none"]
Kind(dwh) ==
  CASE dwh.driver = "none" -> "api_only"
    [] dwh.driver = "bigquery" -> "bigquery"
    [] OTHER -> IF dwh.host = "redshift" THEN "redshift" ELSE "postgres"

SameClass(driver, current) ==
  IF driver = "bigquery" THEN current.driver = "bigquery" ELSE current.driver \in {"psycopg", "psycopg2"}

\* Mutant: a hidden credential is taken from whatever there is.
CompatibleAny(dsn, current) == dsn.secret = Hidden => current # NoDwh

\* A credential may be hidden where the current one is of the same type.
Compatible(dsn, current) == dsn.secret = Hidden => SameClass(Drivers[dsn.kind], current)

ApiDsnToSettings(dsn, current) ==
  IF dsn.kind = "api_only" THEN NoDwh
  ELSE Dwh(Drivers[dsn.kind], dsn.host, IF dsn.secret = Hidden THEN current.secret ELSE dsn.secret)

\* What is shown never has the credential.
SettingsToApiDsn(dwh) ==
  IF dwh.driver = "none" THEN Dsn("api_only", "none", NoCredential) ELSE Dsn(Kind(dwh), dwh.host, Hidden)

\* check_redshift_safe: a Redshift host is reached with the other driver.
Safe(dwh) == dwh.host = "redshift" => dwh.driver = "psycopg2"

-----------------------------------------------------------------------------
(* Participant types.                                                       *)

\* find_participants: the first name that is the same when case is ignored.
Matching(types, name) == {i \in DOMAIN types : types[i][1] = name[1]}
Found(types, name) == CHOOSE i \in Matching(types, name) : \A j \in Matching(types, name) : i <= j

\* check_unique_participant_types
Unique(types) == \A i, j \in DOMAIN types : types[i] = types[j] => i = j

-----------------------------------------------------------------------------
(* Requests: each loads the configuration, which fails unless it decrypts, and  *)
(* may wait for the warehouse before it writes.                                 *)

ConfigInit ==
  /\ config \in {NoConfig,
                 [dwh |-> [driver |-> "psycopg", host |-> "plain",
                           secret |-> [class |-> "password", text |-> "old", by |-> Plain]], types |-> <<>>],
                 [dwh |-> [driver |-> "bigquery", host |-> "none",
                           secret |-> [class |-> "file", text |-> "path", by |-> Plain]], types |-> <<>>]}
  /\ keyset = <<1>> /\ keysMade = 1 /\ backend \in {"nacl", "noop"}
  /\ edit = [e \in Editors |-> NoEdit] /\ commits = 0
  /\ revealed = IF Configured THEN Decrypted(config.dwh).secret ELSE NoCredential
  /\ overtaken = FALSE /\ writtenAt = [keys |-> 0, backend |-> backend]

\* What is stored is validated once more as a whole (set_config).
Valid(dwh, types) == Safe(dwh) /\ Unique(types)

Writes(dwh, types) ==
  /\ config' = [dwh |-> Encrypted(dwh), types |-> types]
  /\ writtenAt' = [keys |-> keysMade, backend |-> backend]
  /\ commits < MaxCommits /\ commits' = commits + 1

\* create_datasource: a credential cannot be hidden, for there is none yet.
CreateDatasource ==
  /\ ~Configured
  /\ \E dsn \in Dsns :
       /\ dsn.secret # Hidden /\ Valid(ApiDsnToSettings(dsn, NoDwh), <<>>)
       /\ Writes(ApiDsnToSettings(dsn, NoDwh), <<>>)
       /\ revealed' = dsn.secret
  /\ overtaken' = FALSE
  /\ UNCHANGED <<keyset, backend, keysMade, edit>>

LoadConfig(e, op, dsn, name, new) ==
  /\ edit[e] = NoEdit /\ Readable
  /\ edit' = [edit EXCEPT ![e] = [op |-> op, dsn |-> dsn, name |-> name, new |-> new,
                                  dwh |-> Decrypted(config.dwh), types |-> config.types, stale |-> FALSE]]
  /\ UNCHANGED <<config, keyset, backend, keysMade, commits, revealed, overtaken, writtenAt>>

\* update_datasource; one with another name only writes no configuration.
LoadToUpdateDsn(e) == \E dsn \in Dsns : LoadConfig(e, "update", dsn, NoName, NoName)

\* create_participant_type, update_participant_type and delete_participant.
LoadToChangeTypes(e) ==
  \E n, new \in TypeNames :
    \/ LoadConfig(e, "add", NoDsn, NoName, new)
    \/ Matching(config.types, n) # {} /\ LoadConfig(e, "change", NoDsn, n, new)
    \/ Matching(config.types, n) # {} /\ LoadConfig(e, "delete", NoDsn, n, NoName)

\* Another's commit makes what the others loaded stale.
EndsEdit(e) ==
  edit' = [f \in Editors |-> IF f = e THEN NoEdit
                             ELSE IF edit[f] = NoEdit THEN NoEdit ELSE [edit[f] EXCEPT !.stale = TRUE]]

UpdateDatasource(e) ==
  /\ edit[e].op = "update" /\ Configured
  /\ LET dsn == edit[e].dsn
         dwh == ApiDsnToSettings(dsn, edit[e].dwh)
     IN /\ Compatible(dsn, edit[e].dwh) /\ Valid(dwh, edit[e].types)
        /\ Writes(dwh, edit[e].types)
        /\ revealed' = IF dsn.secret = Hidden THEN revealed ELSE dsn.secret
  /\ overtaken' = (overtaken \/ edit[e].stale)
  /\ EndsEdit(e)
  /\ UNCHANGED <<keyset, backend, keysMade>>

\* A type that is changed goes to the end of the list.
NewTypes(types, change) ==
  LET rest == RemoveAt(types, Found(types, change.name)) IN
  CASE change.op = "add" -> Append(types, change.new)
    [] change.op = "change" -> Append(rest, change.new)
    [] change.op = "delete" -> rest

ChangeTypes(e) ==
  /\ edit[e].op \in {"add", "change", "delete"} /\ Configured
  /\ LET types == NewTypes(edit[e].types, edit[e])
     IN Valid(edit[e].dwh, types) /\ Writes(edit[e].dwh, types)
  /\ overtaken' = (overtaken \/ edit[e].stale)
  /\ EndsEdit(e)
  /\ UNCHANGED <<keyset, backend, keysMade, revealed>>

\* CredentialsUnavailableError, ValidationError, a warehouse that does not answer, a host
\* that is not found, or the row is gone.
EditFails(e) ==
  /\ edit[e] # NoEdit
  /\ edit' = [edit EXCEPT ![e] = NoEdit]
  /\ UNCHANGED <<config, keyset, backend, keysMade, commits, revealed, overtaken, writtenAt>>

\* Whoever has loaded the row can only fail: another data source has another id.
DeleteDatasource ==
  /\ Configured
  /\ config' = NoConfig
  /\ revealed' = NoCredential
  /\ edit' = [e \in Editors |-> NoEdit]
  /\ UNCHANGED <<keyset, backend, keysMade, commits, overtaken, writtenAt>>

-----------------------------------------------------------------------------
(* The operator.                                                            *)

Restart == edit' = [e \in Editors |-> NoEdit]

\* NaclProviderKeyset.with_new_key
WithNewKey(keys, key) == <<key>> \o keys

RotateKeys ==
  /\ keysMade < MaxKeys
  /\ keysMade' = keysMade + 1
  /\ keyset' = WithNewKey(keyset, keysMade + 1)
  /\ Restart
  /\ UNCHANGED <<config, backend, commits, revealed, overtaken, writtenAt>>

\* Older keys are dropped from the environment.
DropOldKeys ==
  /\ Len(keyset) > 1
  /\ keyset' = <<keysMade>>
  /\ Restart
  /\ UNCHANGED <<config, backend, keysMade, commits, revealed, overtaken, writtenAt>>

SwitchBackend ==
  /\ backend' = IF backend = "noop" THEN "nacl" ELSE "noop"
  /\ Restart
  /\ UNCHANGED <<config, keyset, keysMade, commits, revealed, overtaken, writtenAt>>

ConfigNext ==
  \/ CreateDatasource \/ DeleteDatasource \/ RotateKeys \/ DropOldKeys \/ SwitchBackend
  \/ \E e \in Editors : LoadToUpdateDsn(e) \/ LoadToChangeTypes(e) \/ UpdateDatasource(e) \/ ChangeTypes(e) \/ EditFails(e)
ConfigSpec == ConfigInit /\ [][ConfigNext]_configVars

-----------------------------------------------------------------------------
(* Properties.                                                              *)

ConfigTypeOK ==
  /\ Configured => /\ config.dwh.driver \in {"none", "psycopg", "psycopg2", "bigquery"}
              /\ ToSet(config.types) \subseteq TypeNames
  /\ keysMade \in 1 .. MaxKeys /\ ToSet(keyset) \subseteq 1 .. keysMade /\ keyset # <<>>
  /\ backend \in {"nacl", "noop"} /\ commits \in 0 .. MaxCommits /\ overtaken \in BOOLEAN

\* Through updates that hide it, changes of the participant types and rotations of the
\* keys, the credential is the one last revealed, unless a request wrote what it had
\* loaded before another was committed.
CredentialIsTheLastRevealed ==
  Configured /\ ~overtaken /\ config.dwh.driver # "none" => Decrypted(config.dwh).secret = revealed

\* Whatever overtakes what, a warehouse is reached with a credential of its own type.
CredentialFitsDriver ==
  Configured => config.dwh.secret.class \in
    CASE config.dwh.driver = "none" -> {"none"}
      [] config.dwh.driver = "bigquery" -> {"account", "file"}
      [] OTHER -> {"password"}

\* A configuration written after the last key was made, with the backend there is now, is
\* readable whichever older keys are dropped: any change of it takes it to the new key.
WrittenSinceStaysReadable ==
  Configured /\ writtenAt.keys = keysMade /\ writtenAt.backend = backend => Readable

\* The configuration that is shown, sent back as it is, changes nothing, but for a
\* Redshift that is reached by a name of the customer's own: it is taken for Postgres.
ShownIsTheSame ==
  Configured => LET dwh == Decrypted(config.dwh)
               again == ApiDsnToSettings(SettingsToApiDsn(dwh), dwh)
           IN /\ Compatible(SettingsToApiDsn(dwh), dwh) \/ dwh = NoDwh
              /\ again = dwh \/ (dwh.driver = "psycopg2" /\ dwh.host = "plain" /\ again.driver = "psycopg")
              /\ Valid(again, config.types)

\* A participant type is found by its name, unless another's differs only in case.
NamesAreFound ==
  Configured => \A i \in DOMAIN config.types :
    \/ Found(config.types, config.types[i]) = i
    \/ \E j \in 1 .. i - 1 : config.types[j][1] = config.types[i][1] /\ config.types[j] # config.types[i]

ConfigInv ==
  /\ ConfigTypeOK /\ CredentialIsTheLastRevealed /\ CredentialFitsDriver
  /\ WrittenSinceStaysReadable /\ ShownIsTheSame /\ NamesAreFound
=============================================================================
