------------------------------- MODULE Vault -------------------------------
(***************************************************************************)
(* The encrypted vault of the command-line tool (encrypted_vault.rs,       *)
(* key_manager.rs, keypair_manager.rs and the keymanager and keypair       *)
(* commands of main.rs).  A program using the library holds one vault in   *)
(* memory; every command of the tool is a process of its own that builds   *)
(* a vault from the environment.  Both share one vault file.               *)
(*                                                                         *)
(* A key string is what its validation and its owner tell apart: the       *)
(* secret or the public half of a keypair, the secret half with a character *)
(* of several bytes typed into either end, or a string too short to be any *)
(* of these.  Encryption is authenticated: a ciphertext opens under the      *)
(* master key that made it and under no other.                             *)
(***************************************************************************)
EXTENDS Naturals

(* Operators named F_... are faulty variants of the one that follows them; *)
(* the specification uses none of them.                                    *)

CONSTANTS Keys,        \* keypairs the operator owns
          Passwords,   \* master passwords
          HexKeys,     \* hex-encoded master keys
          Absent,      \* an absent value
          MaxOps       \* bound: operations in one behaviour

VARIABLES env,        \* the operator's .env file
          vault,      \* the EncryptedVault of the running program, or Absent
          vaultFile,  \* lines of the vault file, or Absent
          saved,      \* history: the vault of the last completed save
          reply,      \* the last operation and what it answered
          ops

vaultVars == <<env, vault, vaultFile, saved, reply, ops>>

Secret(k) == [kind |-> "secret", key |-> k]
Public(k) == [kind |-> "public", key |-> k]
Wide(k)   == [kind |-> "wide", key |-> k]
Short     == [kind |-> "short", key |-> "none"]

Ok(cmd)       == reply' = [cmd |-> cmd, result |-> "ok"]
Error(cmd)    == reply' = [cmd |-> cmd, result |-> "error"]
-----------------------------------------------------------------------------
(* KeyManager: a master key is a hashed password or the decoded hex key.   *)

FromPassword(p) == [from |-> "password", of |-> p]
FromHexKey(h)   == [from |-> "hex", of |-> h]

Encrypt(m, s) == [master |-> m, secret |-> s]
Decrypt(m, c) == IF c # Short /\ c.master = m THEN c.secret ELSE Absent

F_ValidSecret(s) == s.kind # "public"

\* The first letter and the number of bytes are all that is looked at.
ValidSecret(s) == s.kind \in {"secret", "wide"}

ValidPublic(s) == s.kind = "public"
-----------------------------------------------------------------------------
(* EncryptedVault.                                                         *)

\* The empty map, and a map with one more entry.
Empty == [n \in {} |-> Absent]
Insert(f, n, x) == [m \in DOMAIN f \cup {n} |-> IF m = n THEN x ELSE f[m]]
Get(f, n) == IF n \in DOMAIN f THEN f[n] ELSE Absent

VaultOf(m) == [manager |-> m, secrets |-> Empty, publics |-> Empty]

PutSecret(v, n, s) == [v EXCEPT !.secrets = Insert(@, n, Encrypt(v.manager, s))]
PutPublic(v, n, s) == [v EXCEPT !.publics = Insert(@, n, s)]

CanStoreSecret(v, s) == ValidSecret(s) /\ v.manager # Absent

RetrieveSecret(v, n) ==
  IF Get(v.secrets, n) = Absent \/ v.manager = Absent
  THEN Absent ELSE Decrypt(v.manager, v.secrets[n])

\* The vault a process of the tool starts from: both master variables are
\* read as passwords, and only these four names are looked up.
EnvVault ==
  LET password == IF env.password # Absent THEN env.password ELSE env.masterKey
      Found(f, n, x) == IF x = Absent THEN f ELSE Insert(f, n, x)
  IN [manager |-> IF password = Absent THEN Absent ELSE FromPassword(password),
      secrets |-> Found(Found(Empty, "admin_secret_key", env.adminEncrypted),
                        "issuing_secret_key", env.issuingEncrypted),
      publics |-> Found(Found(Empty, "admin_public_key", env.adminPublic),
                        "issuing_public_key", env.issuingPublic)]

\* The lines of a vault file: public keys first, then the secrets, whose
\* names carry the suffix _ENCRYPTED.
PublicLines(v) ==
  {[name |-> n, encrypted |-> FALSE, value |-> v.publics[n]] : n \in DOMAIN v.publics}
SecretLines(v) ==
  {[name |-> n, encrypted |-> TRUE, value |-> v.secrets[n]] : n \in DOMAIN v.secrets}
Lines(v) == PublicLines(v) \cup SecretLines(v)

\* What an interrupted write leaves of them: the file is truncated first,
\* the lines follow in order and the last one written may be cut short.  All
\* lines are there when only setting the file's permissions failed.
F_TornLines(v) ==
  LET Cut(l) == [l EXCEPT !.value = Short]
      Ends(s) == {{}} \cup {{Cut(l)} : l \in Lines(v) \ s}
      InOrder(s) == (\E l \in s : ~l.encrypted) => SecretLines(v) \subseteq s
  IN {s \in UNION {{w \cup e : e \in Ends(w)} : w \in SUBSET Lines(v)} :
        InOrder(s)}

TornLines(v) ==
  LET Cut(l) == [l EXCEPT !.value = Short]
      Ends(s) == {{}} \cup {{Cut(l)} : l \in Lines(v) \ s}
      InOrder(s) == (\E l \in s : l.encrypted) => PublicLines(v) \subseteq s
  IN {s \in UNION {{w \cup e : e \in Ends(w)} : w \in SUBSET Lines(v)} :
        InOrder(s)}

\* Loading never tries the password: any password gives a vault.
F_Load(lines, p) ==
  LET Map(part) == [n \in {l.name : l \in part} |-> (CHOOSE l \in part : l.name = n).value]
  IN [manager |-> FromPassword(p), secrets |-> Empty, publics |-> Map(lines)]

Load(lines, p) ==
  LET Part(enc) == {l \in lines : l.encrypted = enc}
      Map(part) == [n \in {l.name : l \in part} |-> (CHOOSE l \in part : l.name = n).value]
  IN [manager |-> FromPassword(p), secrets |-> Map(Part(TRUE)),
      publics |-> Map(Part(FALSE))]
-----------------------------------------------------------------------------
(* MasterKeypair and DistributionAccount: several keys stored as one, the  *)
(* secret first.  A store that fails keeps what was stored before.         *)

StoreSecret(v, n, s) ==
  IF CanStoreSecret(v, s)
  THEN [ok |-> TRUE, vault |-> PutSecret(v, n, s)]
  ELSE [ok |-> FALSE, vault |-> v]

StorePublic(v, n, s) ==
  IF ValidPublic(s)
  THEN [ok |-> TRUE, vault |-> PutPublic(v, n, s)]
  ELSE [ok |-> FALSE, vault |-> v]

\* The next key, unless one before it was refused.
AndPublic(r, n, s) == IF r.ok THEN StorePublic(r.vault, n, s) ELSE r

StoreMaster(v, pair) ==
  AndPublic(StoreSecret(v, "master_secret_key", pair.secret),
            "master_public_key", pair.public)

StoreDistribution(v, pair, issuing) ==
  AndPublic(AndPublic(StoreSecret(v, "distribution_secret_key", pair.secret),
                      "distribution_public_key", pair.public),
            "distribution_issuing_key", issuing)

LoadPair(v, publicName, secretName) ==
  IF Get(v.publics, publicName) = Absent \/ RetrieveSecret(v, secretName) = Absent
  THEN Absent
  ELSE [public |-> v.publics[publicName], secret |-> RetrieveSecret(v, secretName)]

LoadMaster(v) == LoadPair(v, "master_public_key", "master_secret_key")

LoadDistribution(v) ==
  IF Get(v.publics, "distribution_issuing_key") = Absent THEN Absent
  ELSE LoadPair(v, "distribution_public_key", "distribution_secret_key")

\* display_safe slices four bytes off either end of the secret, which have to be
\* there and to be whole characters.
Displayed(pair) == IF pair.secret.kind \in {"short", "wide"} THEN "panic" ELSE "ok"

\* What the show commands answer for a loaded keypair, or for none.
Shown(pair) == IF pair = Absent THEN "not found" ELSE Displayed(pair)

\* The validate commands also check the strings, and that a distribution
\* account is not its own issuer.
Validated(pair, issuing) ==
  IF pair = Absent THEN "not found"
  ELSE IF ValidPublic(pair.public) /\ ValidSecret(pair.secret) /\ pair.public # issuing
       THEN Displayed(pair) ELSE "invalid"

Answers(v) ==
  {Shown(LoadMaster(v)), Shown(LoadDistribution(v)), Validated(LoadMaster(v), Absent),
   Validated(LoadDistribution(v), Get(v.publics, "distribution_issuing_key"))}

\* generate never calls a generator: both halves are empty strings.
Generated == [public |-> Short, secret |-> Short]
-----------------------------------------------------------------------------
(* The inputs: keypairs as their owner has them, those of which one half   *)
(* was mistyped, and the one generate returns.                             *)

Pairs == {[public |-> Public(k), secret |-> Secret(k)] : k \in Keys}
           \cup {[public |-> Short, secret |-> Secret(k)] : k \in Keys}
           \cup {[public |-> Public(k), secret |-> Wide(k)] : k \in Keys}
           \cup {Generated}

NetworkNames == {"testnet", "mainnet", "other"}

\* Strings given alone, which are never displayed: Secret(k) stands for Wide(k).
Strings == {Secret(k) : k \in Keys} \cup {Public(k) : k \in Keys} \cup {Short}

\* A copy of .env.example.
VaultInit ==
  /\ env = [password |-> Absent, masterKey |-> Absent, network |-> "testnet",
            adminPublic |-> Short, issuingPublic |-> Short,
            adminEncrypted |-> Absent, issuingEncrypted |-> Absent]
  /\ vault = Absent /\ vaultFile = Absent /\ saved = Absent
  /\ reply = [cmd |-> "start", result |-> "ok"]
  /\ ops = 0

Count == ops < MaxOps /\ ops' = ops + 1
-----------------------------------------------------------------------------
(* The program that uses the library.                                      *)

Open(v, cmd) ==
  /\ Count
  /\ vault' = v
  /\ Ok(cmd)
  /\ UNCHANGED <<env, vaultFile, saved>>

New                == Open(VaultOf(Absent), "new")
WithPassword(p)    == Open(VaultOf(FromPassword(p)), "with_password")
WithHexKey(h)      == Open(VaultOf(FromHexKey(h)), "with_hex_key")
FromEnv            == Open(EnvVault, "from_env")
LoadFromFile(p)    == vaultFile # Absent /\ Open(Load(vaultFile, p), "load_from_file")

\* The process ends: what was not saved is gone.
Exit == vault # Absent /\ Open(Absent, "exit")

Result(cmd, r) ==
  /\ vault' = r.vault
  /\ IF r.ok THEN Ok(cmd) ELSE Error(cmd)
  /\ UNCHANGED <<env, vaultFile, saved>>

StoreAdminSecret(s) ==
  /\ Count /\ vault # Absent
  /\ Result("store_secret_key", StoreSecret(vault, "admin_secret_key", s))

StoreAdminPublic(s) ==
  /\ Count /\ vault # Absent
  /\ Result("store_public_key", StorePublic(vault, "admin_public_key", s))

StoreMasterPair(pair) ==
  /\ Count /\ vault # Absent
  /\ Result("store_in_vault", StoreMaster(vault, pair))

StoreDistributionPair(pair, issuing) ==
  /\ Count /\ vault # Absent
  /\ Result("store_in_vault", StoreDistribution(vault, pair, issuing))

WriteFile(v) == vaultFile' = Lines(v) /\ saved' = v

\* A program displays what it loads from its own vault; a panic ends it.
Display ==
  /\ Count /\ vault # Absent
  /\ \E r \in Answers(vault) :
       /\ reply' = [cmd |-> "display", result |-> r]
       /\ vault' = IF r = "panic" THEN Absent ELSE vault
  /\ UNCHANGED <<env, vaultFile, saved>>

SaveToFile ==
  /\ Count /\ vault # Absent
  /\ WriteFile(vault)
  /\ Ok("save_to_file")
  /\ UNCHANGED <<env, vault>>

\* The disk fills up or the process is killed during fs::write.
SaveInterrupted ==
  /\ Count /\ vault # Absent
  /\ vaultFile' \in TornLines(vault)
  /\ saved' = Absent
  /\ Error("save_to_file")
  /\ UNCHANGED <<env, vault>>

-----------------------------------------------------------------------------
(* The commands, each a process of its own, and the operator's edits of    *)
(* .env between them.                                                      *)

Reply(cmd, result) ==
  /\ Count
  /\ reply' = [cmd |-> cmd, result |-> result]
  /\ UNCHANGED <<env, vault, vaultFile, saved>>

\* keymanager encrypt: the operator pastes what it prints into .env.
EncryptForEnv(p, s) ==
  /\ Count
  /\ IF ValidSecret(s)
     THEN /\ \E c \in {Encrypt(FromPassword(p), s)} :
               \/ env' = [env EXCEPT !.adminEncrypted = c]
               \/ env' = [env EXCEPT !.issuingEncrypted = c]
          /\ Ok("encrypt")
     ELSE env' = env /\ Error("encrypt")
  /\ UNCHANGED <<vault, vaultFile, saved>>

\* keymanager decrypt, of a ciphertext found in .env or in the vault file.
DecryptCommand(p) ==
  LET known == {env.adminEncrypted, env.issuingEncrypted}
                 \cup (IF vaultFile = Absent THEN {} ELSE {l.value : l \in {l \in vaultFile : l.encrypted}})
  IN \E c \in known \ {Absent} :
       Reply("decrypt", IF Decrypt(FromPassword(p), c) = Absent THEN "error" ELSE "ok")

EditEnv ==
  /\ Count
  /\ \/ \E p \in Passwords : env' = [env EXCEPT !.password = p]
     \/ \E p \in HexKeys : env' = [env EXCEPT !.masterKey = p]
     \/ \E n \in NetworkNames : env' = [env EXCEPT !.network = n]
     \/ \E k \in Keys : env' = [env EXCEPT !.adminPublic = Public(k)]
  /\ Ok("edit")
  /\ UNCHANGED <<vault, vaultFile, saved>>

\* keymanager vault-save replaces the file by the vault of the environment.
VaultSave ==
  /\ Count
  /\ WriteFile(EnvVault)
  /\ Ok("vault-save")
  /\ UNCHANGED <<env, vault>>

\* keymanager vault-load prints the status of what it loads, whatever the
\* password.
VaultLoad(p) == Reply("vault-load", IF vaultFile = Absent THEN "error" ELSE "ok")

\* keymanager init-vault and vault-status only print what they built.
PrintStatus == Reply("vault-status", "ok")

GenerateMaster ==
  Reply("generate", IF env.network = "other" THEN "error" ELSE Displayed(Generated))

GenerateDistribution(issuing) ==
  Reply("generate", IF ValidPublic(issuing) THEN Displayed(Generated) ELSE "error")

\* keypair show-... and validate-..., of the vault of the environment.
Show == \E r \in Answers(EnvVault) : Reply("show", r)

Fund(account, positive) ==
  Reply("fund", IF ValidPublic(account) /\ positive /\ env.network = "testnet"
                 THEN "ok" ELSE "error")
-----------------------------------------------------------------------------
VaultNext ==
  \/ New \/ FromEnv \/ Exit \/ Display \/ SaveToFile \/ SaveInterrupted
  \/ \E p \in Passwords : \/ WithPassword(p) \/ LoadFromFile(p)
                          \/ DecryptCommand(p) \/ VaultLoad(p)
                          \/ \E s \in Strings : EncryptForEnv(p, s)
  \/ \E h \in HexKeys : WithHexKey(h)
  \/ \E s \in Strings : \/ StoreAdminSecret(s) \/ StoreAdminPublic(s)
                        \/ GenerateDistribution(s)
                        \/ \E positive \in BOOLEAN : Fund(s, positive)
  \/ \E pair \in Pairs : \/ StoreMasterPair(pair)
                         \/ \E s \in Strings : StoreDistributionPair(pair, s)
  \/ EditEnv \/ VaultSave \/ PrintStatus \/ GenerateMaster \/ Show

VaultSpec == VaultInit /\ [][VaultNext]_vaultVars
-----------------------------------------------------------------------------
(* Properties.                                                             *)

\* The vault in memory, under its own master key and under every password it
\* could be saved and loaded with, and what a program would load from the file.
VaultsHeld ==
  (IF vault = Absent THEN {}
   ELSE {vault} \cup {[vault EXCEPT !.manager = FromPassword(p)] : p \in Passwords})
  \cup (IF vaultFile = Absent THEN {} ELSE {Load(vaultFile, p) : p \in Passwords})

\* A keypair that loads although its halves are not of one key.
Mixed(v) ==
  \E pair \in {LoadMaster(v), LoadDistribution(v)} \ {Absent} :
    pair.public # Public(pair.secret.key)

\* A keypair that opens in a vault, under any password, is one keypair, unless
\* a store of two keys has answered an error after the first: neither a save
\* cut short at any byte, nor a load under another password, nor stores under
\* two passwords in one vault pair the secret of one key with the public half
\* of another.
PairsStayTogether ==
  [][(\E v \in VaultsHeld' : Mixed(v)) =>
       \/ \E v \in VaultsHeld : Mixed(v)
       \/ reply' = [cmd |-> "store_in_vault", result |-> "error"]]_vaultVars

\* What a completed save wrote comes back with a load: the same public keys,
\* and under each password the secrets the saved vault would have opened
\* with it, also where the vault held secrets under several passwords.
SavedVaultComesBack ==
  saved # Absent =>
    \A p \in Passwords :
      LET v == Load(vaultFile, p)
          w == [saved EXCEPT !.manager = FromPassword(p)]
      IN /\ v.publics = w.publics
         /\ \A n \in DOMAIN v.secrets \cup DOMAIN w.secrets :
              RetrieveSecret(v, n) = RetrieveSecret(w, n)

\* Only two things make the display of a keypair panic: the empty one that
\* generate returns, which no way of storing, saving, loading or pasting brings
\* into a vault, and a secret with a character of several bytes where display
\* cuts it, which validation lets into one.
OnlyOddSecretsPanic ==
  [][reply'.result = "panic" =>
       \/ reply'.cmd = "generate"
       \/ /\ vault # Absent
          /\ \E pair \in {LoadMaster(vault), LoadDistribution(vault)} \ {Absent} :
               pair.secret.kind = "wide"]_vaultVars
=============================================================================
