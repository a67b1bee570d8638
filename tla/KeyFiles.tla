------------------------------- MODULE KeyFiles -----------------------------
(***************************************************************************)
(* ortd/src/main.rs and ortc/src/main.rs over ort-cli/src/lib.rs: the key  *)
(* directory of an ortd and the key file of an ortc.  The commands that    *)
(* write to the directory (gen-key, gen-cert) run one after the other, and *)
(* each may stop half-way: a file is truncated, then filled.  An ortd may  *)
(* be started meanwhile, and reads its key and its certificate one after   *)
(* the other.  Several ortcs may be started on one key file together.  The *)
(* n-th command draws key n; a public key stands for the pair.             *)
(***************************************************************************)
EXTENDS Integers, ServerVerifier

CONSTANTS
    Ortc,                \* the ortcs that may be starting at a time
    MaxCommands          \* bound on the commands run

ASSUME MaxCommandsAssumption == MaxCommands \in Nat

\* The files of the directory, in the order in which a command writes them.
KEM_KEY_FILE == 1
SIGN_KEY_FILE == 2
CERT_FILE == 3
cert_signing_key == 4
File == 1 .. 4

Absent == 0              \* no such file
Cut == -1                \* a file that was truncated and not filled
Key == 1 .. MaxCommands
Content == {Absent, Cut} \cup Key

VARIABLES
    file,                \* what each file holds; cert.der: the key it binds
    writer,              \* the running command's next and last file, the key
                         \* it writes, and whether the next file is truncated
    starting,            \* the key an ortd has read, not yet its certificate
    loaded,              \* the configuration of the ortd started last
    served,              \* history: the keys ortds on the directory served
    finished,            \* history: gen-cert did its last write, the last so far
    rekeyed,             \* history: gen-key was run
    client_key,          \* what the key file of the ortcs holds
    drawn,               \* the key each starting ortc is going to write there,
                         \* and whether it has truncated the file
    identities,          \* history: the keys ortcs on the key file used
    raced,               \* history: two first starts of ortc overlapped
    commands             \* how many commands were run

dirVars == <<file, writer, starting, loaded, served, finished, rekeyed>>
clientVars == <<client_key, drawn, identities, raced>>
FilesVars == <<dirVars, clientVars, commands>>

NoWrites == [at |-> 0, until |-> 0, key |-> Absent, open |-> FALSE]
Writes(from, until, k) ==
    [at |-> from, until |-> until, key |-> k, open |-> FALSE]

NoDraw == [key |-> Absent, open |-> FALSE]
Draws(k) == [key |-> k, open |-> FALSE]

NotLoaded == [server_pk |-> Absent, certificate |-> Absent]

FilesInit ==
    /\ file = [f \in File |-> Absent]
    /\ writer = NoWrites
    /\ starting = Absent
    /\ loaded = NotLoaded
    /\ served = {}
    /\ finished = FALSE
    /\ rekeyed = FALSE
    /\ client_key = Absent
    /\ drawn = [p \in Ortc |-> NoDraw]
    /\ identities = {}
    /\ raced = FALSE
    /\ commands = 0

-----------------------------------------------------------------------------
\* A command starts; what it draws is new.
Command == commands < MaxCommands /\ commands' = commands + 1

fresh_key == commands + 1

gen_key ==
    /\ Command
    /\ writer = NoWrites
    /\ writer' = Writes(KEM_KEY_FILE, SIGN_KEY_FILE, fresh_key)
    /\ rekeyed' = TRUE
    /\ UNCHANGED <<file, starting, loaded, served, finished, clientVars>>

\* Faulty variant: new keys are made whether or not there are some.
load_or_make_kem_always ==
    Writes(KEM_KEY_FILE, cert_signing_key, fresh_key)

\* Faulty variant: the certificate binds a key that is not the stored one.
load_or_make_kem_unbound ==
    IF file[KEM_KEY_FILE] = Cut THEN NoWrites
    ELSE Writes(CERT_FILE, cert_signing_key, fresh_key)

\* What gen_cert has to write: the certificate of the key there is, if it
\* decodes, or new keys and their certificate.
load_or_make_kem ==
    CASE file[KEM_KEY_FILE] \in Key ->
           Writes(CERT_FILE, cert_signing_key, file[KEM_KEY_FILE])
      [] file[KEM_KEY_FILE] = Absent ->
           Writes(KEM_KEY_FILE, cert_signing_key, fresh_key)
      [] OTHER -> NoWrites

gen_cert ==
    /\ Command
    /\ writer = NoWrites
    /\ writer' = load_or_make_kem
    /\ UNCHANGED <<file, starting, loaded, served, finished, rekeyed,
                   clientVars>>

\* std::fs::write truncates the file ...
Truncate ==
    /\ writer # NoWrites /\ ~writer.open
    /\ file' = [file EXCEPT ![writer.at] = Cut]
    /\ writer' = [writer EXCEPT !.open = TRUE]
    /\ finished' = FALSE
    /\ UNCHANGED <<starting, loaded, served, rekeyed, clientVars, commands>>

\* ... and fills it; the command goes on to its next file or is done.
Fill ==
    /\ writer.open
    /\ file' = [file EXCEPT ![writer.at] = writer.key]
    /\ writer' = IF writer.at = writer.until THEN NoWrites
                 ELSE Writes(writer.at + 1, writer.until, writer.key)
    /\ finished' = (writer.at = cert_signing_key)
    /\ UNCHANGED <<starting, loaded, served, rekeyed, clientVars, commands>>

write_key == Truncate \/ Fill

\* The command is killed, or a write fails.
Stop ==
    /\ writer # NoWrites
    /\ writer' = NoWrites
    /\ UNCHANGED <<file, starting, loaded, served, finished, rekeyed,
                   clientVars, commands>>

-----------------------------------------------------------------------------
\* Faulty variant: the length of the seed is not checked.
kem_secret_from_bytes_unchecked(content) == content # Absent

\* read_key finds the file and kem_secret_from_bytes its 64 bytes.
kem_secret_from_bytes(content) == content \in Key

\* run --cert reads the key ...
LoadKey ==
    /\ Command
    /\ starting = Absent
    /\ starting' = IF kem_secret_from_bytes(file[KEM_KEY_FILE])
                     THEN file[KEM_KEY_FILE] ELSE Absent
    /\ UNCHANGED <<file, writer, loaded, served, finished, rekeyed, clientVars>>

\* ... then the certificate, which may be missing and is not looked at.
LoadCertificate ==
    /\ starting # Absent
    /\ loaded' = [server_pk |-> starting, certificate |-> file[CERT_FILE]]
    /\ served' = served \cup {starting}
    /\ starting' = Absent
    /\ UNCHANGED <<file, writer, finished, rekeyed, clientVars, commands>>

\* run without --cert: a key for this run, and no certificate.
LoadEphemeral ==
    /\ Command
    /\ starting = Absent
    /\ loaded' = [server_pk |-> fresh_key, certificate |-> Absent]
    /\ UNCHANGED <<file, writer, starting, served, finished, rekeyed,
                   clientVars>>

load_server_config == LoadKey \/ LoadCertificate \/ LoadEphemeral

-----------------------------------------------------------------------------
\* Faulty variant: every start makes a new key.
load_client_config_always(p) ==
    /\ Command
    /\ drawn[p] = NoDraw
    /\ drawn' = [drawn EXCEPT ![p] = Draws(fresh_key)]
    /\ raced' = (raced \/ \E q \in Ortc : drawn[q] # NoDraw)
    /\ UNCHANGED <<dirVars, client_key, identities>>

\* ortc --client-key: the key there is, if it decodes, or a new one, which is
\* written before it is used.  A file that exists does not go away, so that
\* path.exists() and read_key count as one step; nothing keeps other ortcs
\* out between path.exists() and write_key.
load_client_config(p) ==
    /\ Command
    /\ drawn[p] = NoDraw
    /\ CASE client_key \in Key ->
              /\ identities' = identities \cup {client_key}
              /\ UNCHANGED <<drawn, raced>>
         [] client_key = Absent ->
              /\ drawn' = [drawn EXCEPT ![p] = Draws(fresh_key)]
              /\ raced' = (raced \/ \E q \in Ortc : drawn[q] # NoDraw)
              /\ UNCHANGED identities
         [] OTHER -> UNCHANGED <<drawn, raced, identities>>
    /\ UNCHANGED <<dirVars, client_key>>

TruncateClientKey(p) ==
    /\ drawn[p] # NoDraw /\ ~drawn[p].open
    /\ client_key' = Cut
    /\ drawn' = [drawn EXCEPT ![p].open = TRUE]
    /\ UNCHANGED <<dirVars, identities, raced, commands>>

FillClientKey(p) ==
    /\ drawn[p].open
    /\ client_key' = drawn[p].key
    /\ identities' = identities \cup {drawn[p].key}
    /\ drawn' = [drawn EXCEPT ![p] = NoDraw]
    /\ UNCHANGED <<dirVars, raced, commands>>

write_client_key(p) == TruncateClientKey(p) \/ FillClientKey(p)

\* ortc is killed before its key is written, or the write fails.
StopClient(p) ==
    /\ drawn[p] # NoDraw
    /\ drawn' = [drawn EXCEPT ![p] = NoDraw]
    /\ UNCHANGED <<dirVars, client_key, identities, raced, commands>>

-----------------------------------------------------------------------------
FilesNext ==
    \/ gen_key \/ gen_cert \/ write_key \/ Stop
    \/ load_server_config
    \/ \E p \in Ortc :
          load_client_config(p) \/ write_client_key(p) \/ StopClient(p)

FilesSpec == FilesInit /\ [][FilesNext]_FilesVars

-----------------------------------------------------------------------------
\* Type invariant; a configuration that was loaded has a complete key.
FilesTypeOK ==
    /\ file \in [File -> Content]
    /\ writer \in [at : File, until : File, key : Key, open : BOOLEAN]
                     \cup {NoWrites}
    /\ starting \in Key \cup {Absent}
    /\ loaded \in [server_pk : Key, certificate : Content] \cup {NotLoaded}
    /\ served \subseteq Key
    /\ finished \in BOOLEAN
    /\ rekeyed \in BOOLEAN
    /\ client_key \in Content
    /\ drawn \in [Ortc -> [key : Key, open : BOOLEAN] \cup {NoDraw}]
    /\ identities \subseteq Key
    /\ raced \in BOOLEAN
    /\ commands \in 0 .. MaxCommands

\* As long as gen-key is not used, an ortd never presents a certificate of
\* another key, wherever gen-cert was interrupted, however often it was
\* repeated and whenever during it the ortd was started.
CertMatchesUnlessRekeyed ==
    ~rekeyed => loaded.certificate \in {Absent, Cut, loaded.server_pk}

\* Only gen-key makes an ortd on the directory serve another key than one
\* before it: the pins of its clients outlive restarts and new certificates.
ServedKeyKept == ~rekeyed => \A j, k \in served : j = k

\* Every ortc started with the same --client-key signs with the same key,
\* wherever a start before it was interrupted and however later starts
\* overlap, unless two of them found no file before either had written it:
\* between path.exists() and write_key nothing keeps the second one out, and
\* each goes on with the key it drew.
ClientKeyKept == ~raced => \A j, k \in identities : j = k

\* What load_server_config reads from cert.der parses only if it is whole.
CertificateOf(content) ==
    IF content \in Key THEN SelfSigned(content) ELSE NoCertificate

\* Once gen-cert has returned Ok, and until the next command writes, strict
\* clients accept an ortd started on the directory: such a gen-cert has also
\* repaired the certificate that gen-key or an interrupted gen-cert left.  (It
\* does not return Ok on a server_kem.key that was truncated and not filled.)
GenCertRepairs ==
    finished =>
        /\ kem_secret_from_bytes(file[KEM_KEY_FILE])
        /\ verify(Strict(NoCa), file[KEM_KEY_FILE],
                  CertificateOf(file[CERT_FILE]))

\* The certificate of a ServerConfig is one "binding `server_pk` (empty if
\* none configured)", or a file gen-cert did not finish.
CertificateBindsKey ==
    loaded.certificate \in {Absent, Cut, loaded.server_pk}
=============================================================================
