------------------------------- MODULE AdminApi -------------------------------
(***************************************************************************)
(* The Admin HTTP application (admin/mod.rs) and the secrets on their way  *)
(* through it: the mask put over them on a read, restored on a write       *)
(* (graph_mutation/secrets.rs), and the envelopes they are stored in       *)
(* (utils/encryption.rs) while keyrings are rotated, enabled and disabled. *)
(*                                                                         *)
(* A resource is the sequence of its secret leaves (the keys[] of a        *)
(* key-auth, the key of a certificate); <<>> is "does not exist".  A       *)
(* gateway's only state here is its keyring, so one that restarts with any *)
(* keyring at any time stands for a fleet.  The race of two writers is     *)
(* GraphStore's; here the compare-and-swap is its outcome.                 *)
(***************************************************************************)
EXTENDS Integers, Sequences, FiniteSets

CONSTANTS
  AdminIds,           \* resources
  SslIds,             \* those that are certificates: the leaf must be a PEM key
  MaxLeaves,          \* bound: secret leaves of a resource
  SlotValues,         \* what a client may send in a leaf, see below
  LeavesMove,         \* do clients drop leaves from the middle of a list?
  DataEncryption,     \* the data_encryption sections gateways are started with
  AdminHttp           \* requests as the HTTP layer sees them

\* "***" is the mask: a client that sends it keeps a secret, whatever it means.
ASSUME AdminAssumption ==
  /\ LeavesMove \in BOOLEAN
  /\ \A slot \in SlotValues :
       /\ slot[1] \in {"new", "kept", "pasted"}
       /\ slot[1] = "new" => slot[2] # "***"
  /\ \A section \in DataEncryption : section.enable \in BOOLEAN

VARIABLES
  adminStore,   \* [AdminIds -> sequences of stored leaves]
  intended,     \* [AdminIds -> sequences of secrets]: what the clients asked for
  keyring,      \* the data_encryption the gateway runs with
  adminReply    \* the last answer

adminVars == <<adminStore, intended, keyring, adminReply>>

-----------------------------------------------------------------------------
(***************************************************************************)
(* encryption.rs.  A leaf is a text or an envelope around one.             *)
(***************************************************************************)
Text(s) == <<"text", s>>
Envelope(version, k, s) == <<"envelope", version, k, s>>
CIPHERTEXT_VERSION == "v1"
REDACTED == Text("***")
Undecryptable == <<"error">>

is_ciphertext(leaf) == leaf[1] = "envelope"

\* DataEncryption::validate_keyring and Keyring::from_secrets: with `enable`,
\* at least one key and none empty, or the process does not start.
Starts(section) ==
  section.enable => (section.keys # <<>> /\ \A i \in DOMAIN section.keys : section.keys[i] # "")

\* KeyringService: no keys at all when encryption is disabled.
KeysOf(section) ==
  IF section.enable THEN {section.keys[i] : i \in DOMAIN section.keys} ELSE {}

\* encrypt: with the first key; ciphertext and a disabled service pass through.
encrypt(section, leaf) ==
  IF ~section.enable \/ is_ciphertext(leaf) THEN leaf
  ELSE Envelope(CIPHERTEXT_VERSION, section.keys[1], leaf[2])

\* Mutant of decrypt: the keys after the first are not tried.
DecryptFirst(section, leaf) ==
  IF ~is_ciphertext(leaf) THEN leaf
  ELSE IF section.enable /\ leaf[2] = CIPHERTEXT_VERSION /\ leaf[3] = section.keys[1]
         THEN Text(leaf[4]) ELSE Undecryptable

\* decrypt: plaintext passes; an envelope needs its version known and its key
\* anywhere in the keyring.
decrypt(section, leaf) ==
  IF ~is_ciphertext(leaf) THEN leaf
  ELSE IF leaf[2] = CIPHERTEXT_VERSION /\ leaf[3] \in KeysOf(section)
         THEN Text(leaf[4]) ELSE Undecryptable

\* transform_resource_secrets over the marked leaves of a resource.
EncryptAll(section, leaves) == [i \in DOMAIN leaves |-> encrypt(section, leaves[i])]
DecryptAll(section, leaves) == [i \in DOMAIN leaves |-> decrypt(section, leaves[i])]

Readable(leaves) == \A i \in DOMAIN leaves : leaves[i] # Undecryptable

\* decode_graph with SecretMode::DecryptForRuntime: one leaf that cannot be
\* decrypted refuses the whole graph.
Loads(section) ==
  \A id \in AdminIds : Readable(DecryptAll(section, adminStore[id]))
Loaded(section) == [id \in AdminIds |-> DecryptAll(section, adminStore[id])]

\* decrypt_for_read and encrypt_for_storage do nothing when it is disabled.
decrypt_for_read(section, leaves) ==
  IF section.enable THEN DecryptAll(section, leaves) ELSE leaves
encrypt_for_storage(section, leaves) ==
  IF section.enable THEN EncryptAll(section, leaves) ELSE leaves

-----------------------------------------------------------------------------
(***************************************************************************)
(* What a client sends.  In each leaf: a new secret, the mask it was shown *)
(* over leaf j of an earlier read, or an envelope it pastes.               *)
(***************************************************************************)
New(s) == <<"new", s>>
Kept(j) == <<"kept", j>>
Pasted(k, s) == <<"pasted", k, s>>

Wire(slot) ==
  CASE slot[1] = "new"    -> Text(slot[2])
    [] slot[1] = "kept"   -> REDACTED
    [] slot[1] = "pasted" -> Envelope(CIPHERTEXT_VERSION, slot[2], slot[3])

\* What it asks for with it: a mask stands for the secret it was put over,
\* as long as that one is still there.
Meant(id, slot) ==
  CASE slot[1] = "new"    -> slot[2]
    [] slot[1] = "kept"   -> IF slot[2] \in DOMAIN intended[id]
                               THEN intended[id][slot[2]] ELSE "***"
    [] slot[1] = "pasted" -> slot[3]

\* The mask of leaf j comes back in leaf j, even when the resource has changed
\* since the read, unless the client dropped a leaf before it.
MaskPlaced(id, slots) ==
  \A i \in DOMAIN slots :
    slots[i][1] = "kept" =>
      (slots[i][2] = i \/ (LeavesMove /\ slots[i][2] > i /\ slots[i][2] \in DOMAIN intended[id]))

ClientBodies(id) ==
  {slots \in UNION {[1 .. n -> SlotValues] : n \in 0 .. MaxLeaves} : MaskPlaced(id, slots)}

-----------------------------------------------------------------------------
(***************************************************************************)
(* ConfigurationGraph::put up to the compare-and-swap.                     *)
(***************************************************************************)
\* restore_walk goes by position: a mask at position i gets the stored leaf i.
restore_redacted_secrets(incoming, existing) ==
  [i \in DOMAIN incoming |->
     IF incoming[i] = REDACTED /\ i \in DOMAIN existing THEN existing[i] ELSE incoming[i]]

contains_redaction_sentinel(leaves) == \E i \in DOMAIN leaves : leaves[i] = REDACTED

\* The plaintext a masked leaf is restored from.
Existing(section, id) == decrypt_for_read(section, adminStore[id])

Restored(section, id, incoming) ==
  IF contains_redaction_sentinel(incoming)
    THEN restore_redacted_secrets(incoming, Existing(section, id))
    ELSE incoming

\* validate_resource_json: a certificate needs a parseable key (neither a mask
\* nor an envelope is), a plugin at least one non-empty secret.
ValidResource(id, leaves) ==
  /\ leaves # <<>>
  /\ id \in SslIds => (Len(leaves) = 1 /\ ~is_ciphertext(leaves[1]) /\ leaves[1] # REDACTED)

\* Secret (Restore) and InvalidResource are errors before anything is written.
PutAccepted(section, id, incoming) ==
  /\ contains_redaction_sentinel(incoming) => Readable(Existing(section, id))
  /\ ValidResource(id, Restored(section, id, incoming))

StoredForm(section, id, incoming) ==
  encrypt_for_storage(section, Restored(section, id, incoming))

-----------------------------------------------------------------------------
(***************************************************************************)
(* AdminHttpApp::response.                                                 *)
(***************************************************************************)
\* The routes registered by AdminHttpApp::new.
Handlers ==
  [resource     |-> {"PUT", "GET", "DELETE"},
   list         |-> {"GET"},
   publications |-> {"GET"}]

\* validate_api_key, the router, the methods of the route: 0 when a handler
\* takes the request.
Undispatched(http) ==
  IF http.apiKey # "right" THEN 403
  ELSE IF http.path \notin DOMAIN Handlers THEN 404
  ELSE IF http.method \notin Handlers[http.path] THEN 405
  ELSE 0

\* Mutant of WellFormed: the content type is not looked at.
AnyContentType(http) == http.id = "valid" /\ http.body = "json"

\* extract_key, validate_content_type, read_request_body (MAX_BODY_SIZE) and
\* the JSON parser, for the requests that have a body.
WellFormed(http) ==
  /\ http.id = "valid"
  /\ http.contentType = "application/json"
  /\ http.body = "json"

\* GraphStore's compare-and-swap: applied, refused, not reached, or applied
\* with the answer lost on the way back.
CasOutcomes == {"applied", "conflict", "unavailable", "lost"}
Applied(cas) == cas \in {"applied", "lost"}
CasStatus(cas) ==
  CASE cas = "applied" -> 200
    [] cas = "conflict" -> 409
    [] OTHER -> 503

NoRequest == [http |-> [apiKey |-> "none", path |-> "none", method |-> "none",
                        contentType |-> "none", body |-> "none", id |-> "none"],
              id |-> "none", status |-> 0, pasted |-> {}]

\* An answer to a request that wrote, and to one that did not.
AdminAnswer(http, id, status, pasted) ==
  adminReply' = [http |-> http, id |-> id, status |-> status, pasted |-> pasted]

Unwritten(status) ==
  /\ adminReply' = [NoRequest EXCEPT !.status = status]
  /\ UNCHANGED <<adminStore, intended>>

PastedAt(slots) == {i \in DOMAIN slots : slots[i][1] = "pasted"}

\* ResourceHandler::handle.
Put(http, id) ==
  /\ http.path = "resource" /\ http.method = "PUT"
  /\ IF ~WellFormed(http)
       THEN Unwritten(400)
       ELSE \E slots \in ClientBodies(id) :
         LET incoming == [i \in DOMAIN slots |-> Wire(slots[i])]
         IN  IF ~PutAccepted(keyring, id, incoming)
               THEN Unwritten(400)
               ELSE \E cas \in CasOutcomes :
                 IF Applied(cas)
                   THEN /\ adminStore' = [adminStore EXCEPT ![id] = StoredForm(keyring, id, incoming)]
                        /\ intended' = [intended EXCEPT ![id] =
                                          [i \in DOMAIN slots |-> Meant(id, slots[i])]]
                        /\ AdminAnswer(http, id, CasStatus(cas), PastedAt(slots))
                   ELSE Unwritten(CasStatus(cas))
  /\ UNCHANGED keyring

\* DeleteHandler::handle.  Whether the graph without the resource still decodes and
\* validates is GraphStore's; here either may be (ReferentialConflict).
Delete(http, id) ==
  /\ http.path = "resource" /\ http.method = "DELETE"
  /\ \E cas \in CasOutcomes, referenced \in BOOLEAN :
       LET found == http.id = "valid" /\ adminStore[id] # <<>>
       IN  IF found /\ ~referenced /\ Applied(cas)
             THEN /\ adminStore' = [adminStore EXCEPT ![id] = <<>>]
                  /\ intended' = [intended EXCEPT ![id] = <<>>]
                  /\ AdminAnswer(http, id, CasStatus(cas), {})
             ELSE Unwritten(CASE http.id # "valid" -> 400
                              [] http.id = "valid" /\ ~found -> 404
                              [] found /\ referenced -> 409
                              [] found /\ ~referenced -> CasStatus(cas))
  /\ UNCHANGED keyring

\* GetHandler::handle and ListHandler::handle decrypt before they mask, and
\* answer 400 when they cannot; the body, all masks, is left out.
ReadStatus(leaves) ==
  IF Readable(decrypt_for_read(keyring, leaves)) THEN 200 ELSE 400

Get(http, id) ==
  /\ http.path = "resource" /\ http.method = "GET"
  /\ Unwritten(CASE http.id # "valid" -> 400
                 [] http.id = "valid" /\ adminStore[id] = <<>> -> 404
                 [] OTHER -> ReadStatus(adminStore[id]))
  /\ UNCHANGED keyring

\* A list is of one kind: one resource of it that cannot be read fails it.
List(http) ==
  /\ http.path = "list"
  /\ \E kind \in {SslIds, AdminIds \ SslIds} :
       Unwritten(IF \A id \in kind : ReadStatus(adminStore[id]) = 200 THEN 200 ELSE 400)
  /\ UNCHANGED keyring

\* Each of the four reads the store first, which may fail.
StoreUnreachable(http) ==
  /\ http.path = "list" \/ (http.path = "resource" /\ http.id = "valid")
  /\ http.method = "PUT" => WellFormed(http)
  /\ Unwritten(503)
  /\ UNCHANGED keyring

\* PublicationHandler::handle; the records are PublicationRegistry's.
Publication(http) ==
  /\ http.path = "publications"
  /\ \E found \in BOOLEAN :
       Unwritten(CASE http.id # "valid" -> 400
                   [] http.id = "valid" /\ found -> 200
                   [] OTHER -> 404)
  /\ UNCHANGED keyring

response(http, id) ==
  IF Undispatched(http) # 0
    THEN Unwritten(Undispatched(http)) /\ UNCHANGED keyring
    ELSE \/ Put(http, id)
         \/ Delete(http, id)
         \/ Get(http, id)
         \/ List(http)
         \/ StoreUnreachable(http)
         \/ Publication(http)

\* GatewayState::build: the gateway, or another one of the fleet.
Restart ==
  /\ \E section \in DataEncryption : Starts(section) /\ keyring' = section
  /\ adminReply' = NoRequest
  /\ UNCHANGED <<adminStore, intended>>

AdminInit ==
  /\ adminStore = [id \in AdminIds |-> <<>>]
  /\ intended = [id \in AdminIds |-> <<>>]
  /\ keyring \in {section \in DataEncryption : Starts(section)}
  /\ adminReply = NoRequest

AdminNext ==
  \/ \E http \in AdminHttp, id \in AdminIds : response(http, id)
  \/ Restart

AdminSpec == AdminInit /\ [][AdminNext]_adminVars

-----------------------------------------------------------------------------
\* Through any series of writes, masked resaves and restarts with keyrings
\* rotated, enabled and disabled: a gateway whose keyring holds every key the
\* stored envelopes were sealed with loads exactly the secrets the clients
\* asked for (no mask in the place of a secret, none sealed twice, none of
\* another leaf), and one that lacks a key loads nothing at all.
SecretsSurvive ==
  \A section \in DataEncryption :
    Starts(section) =>
      LET sealedWith == {leaf[3] : leaf \in
                          {l \in UNION {{adminStore[id][i] : i \in DOMAIN adminStore[id]} :
                                          id \in AdminIds} : is_ciphertext(l)}}
      IN  IF sealedWith \subseteq KeysOf(section)
            THEN Loaded(section) = [id \in AdminIds |->
                                      [i \in DOMAIN intended[id] |-> Text(intended[id][i])]]
            ELSE ~Loads(section)

\* The store changes only for an authenticated, well-formed JSON request that
\* is answered 200 or 503 (the answer of the store was lost), and after a PUT
\* through a gateway with encryption enabled no leaf of the resource is left
\* in the clear: every leaf the client did not paste is under the first key,
\* a masked one included (the migration by resaving a redacted body).
AdminWritesSealed ==
  [][adminStore' # adminStore =>
       LET reply == adminReply'
           leaves == adminStore'[reply.id]
       IN  /\ reply.http.apiKey = "right" /\ reply.status \in {200, 503}
           /\ \A id \in AdminIds \ {reply.id} : adminStore'[id] = adminStore[id]
           /\ reply.http.method = "PUT" =>
                (/\ reply.http.contentType = "application/json"
                 /\ keyring.enable =>
                      \A i \in DOMAIN leaves :
                        /\ is_ciphertext(leaves[i])
                        /\ i \notin reply.pasted => leaves[i][3] = keyring.keys[1])
    ]_adminVars
=============================================================================
