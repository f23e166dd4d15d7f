----------------------------- MODULE DataPlaneProofs -----------------------------
(***************************************************************************)
(* Proofs about the Admin API and the secrets it stores, for any resources *)
(* and clients, any number of leaves and any keyrings a gateway is         *)
(* restarted with; and about the file-logger, for any number of requests,  *)
(* reloads and chunks; about the runtime snapshots, for any configuration  *)
(* graphs and any number of compilations; and about mirrored requests, for *)
(* any requests, instances, permits and queues.                            *)
(***************************************************************************)
EXTENDS AdminApi, FileLogger, SnapshotCompile, ProxyMirror, FiniteSetTheorems, TLAPS

--------------------------------------------------------------------------------
(* Leaves. *)

\* The leaf is the secret s, in the clear or sealed.
LeafHolds(leaf, s) == leaf = Text(s) \/ \E k : leaf = Envelope(CIPHERTEXT_VERSION, k, s)

\* encryption.rs tells a text, an envelope and a failure apart.
LEMMA LeafForms ==
  ASSUME NEW s, NEW k
  PROVE  /\ ~is_ciphertext(Text(s)) /\ Text(s)[2] = s /\ Text(s) # Undecryptable
         /\ is_ciphertext(Envelope(CIPHERTEXT_VERSION, k, s))
         /\ Envelope(CIPHERTEXT_VERSION, k, s)[2] = CIPHERTEXT_VERSION
         /\ Envelope(CIPHERTEXT_VERSION, k, s)[3] = k /\ Envelope(CIPHERTEXT_VERSION, k, s)[4] = s
         /\ Envelope(CIPHERTEXT_VERSION, k, s) # Undecryptable
<1>1. Text(s)[1] = "text" /\ Undecryptable[1] = "error" /\ Envelope(CIPHERTEXT_VERSION, k, s)[1] = "envelope"
  BY DEF Text, Envelope, Undecryptable
<1>2. "text" # "error" /\ "envelope" # "error" /\ "text" # "envelope"
  OBVIOUS
<1> QED BY <1>1, <1>2 DEF Text, Envelope, Undecryptable, is_ciphertext

\* encrypt seals a secret or leaves it, and never seals it twice.
LEMMA EncryptHolds ==
  ASSUME NEW section, NEW leaf, NEW s, LeafHolds(leaf, s)
  PROVE  LeafHolds(encrypt(section, leaf), s)
<1>1. CASE leaf = Text(s)
  <2>1. ~is_ciphertext(leaf) /\ leaf[2] = s
    BY <1>1, LeafForms
  <2> QED BY <1>1, <2>1 DEF encrypt, LeafHolds
<1>2. CASE \E k : leaf = Envelope(CIPHERTEXT_VERSION, k, s)
  <2>1. is_ciphertext(leaf)
    BY <1>2, LeafForms
  <2> QED BY <1>2, <2>1 DEF encrypt, LeafHolds
<1> QED BY <1>1, <1>2 DEF LeafHolds

\* decrypt gives the secret, or fails for want of the key.
LEMMA DecryptHolds ==
  ASSUME NEW section, NEW leaf, NEW s, LeafHolds(leaf, s)
  PROVE  /\ decrypt(section, leaf) \in {Text(s), Undecryptable}
         /\ decrypt(section, leaf) = Undecryptable
              <=> (is_ciphertext(leaf) /\ leaf[3] \notin KeysOf(section))
<1>1. CASE leaf = Text(s)
  <2>1. ~is_ciphertext(leaf) /\ leaf # Undecryptable
    BY <1>1, LeafForms
  <2> QED BY <1>1, <2>1 DEF decrypt
<1>2. CASE \E k : leaf = Envelope(CIPHERTEXT_VERSION, k, s)
  <2>1. PICK k : leaf = Envelope(CIPHERTEXT_VERSION, k, s)
    BY <1>2
  <2>2. is_ciphertext(leaf) /\ leaf[2] = CIPHERTEXT_VERSION /\ leaf[4] = s
    BY <2>1, LeafForms
  <2>3. decrypt(section, leaf) = IF leaf[3] \in KeysOf(section) THEN Text(s) ELSE Undecryptable
    BY <2>2 DEF decrypt
  <2>4. Text(s) # Undecryptable
    BY LeafForms
  <2> QED BY <2>2, <2>3, <2>4
<1> QED BY <1>1, <1>2 DEF LeafHolds

--------------------------------------------------------------------------------
(* Resources. *)

\* The leaves hold the secrets, one by one.
HoldsAll(leaves, secrets) ==
  /\ DOMAIN leaves = DOMAIN secrets
  /\ \A i \in DOMAIN leaves : LeafHolds(leaves[i], secrets[i])

AdminInv ==
  /\ DOMAIN adminStore = AdminIds /\ DOMAIN intended = AdminIds
  /\ keyring \in DataEncryption
  /\ \A id \in AdminIds : HoldsAll(adminStore[id], intended[id])

\* What a client sends for leaf i, if no client drops leaves before it.
LEMMA Sent ==
  ASSUME ~LeavesMove, NEW id \in AdminIds, NEW slots \in ClientBodies(id), NEW i \in DOMAIN slots
  PROVE  /\ slots[i] \in SlotValues
         /\ slots[i][1] = "kept" => slots[i][2] = i
<1>1. MaskPlaced(id, slots) /\ \E n \in 0..MaxLeaves : slots \in [1..n -> SlotValues]
  BY DEF ClientBodies
<1>2. slots[i] \in SlotValues
  BY <1>1
<1>3. slots[i][1] = "kept" => slots[i][2] = i
  BY <1>1 DEF MaskPlaced
<1> QED BY <1>2, <1>3

\* put restores a mask by its position: the leaf that is written holds what the
\* client meant, also when the mask had nothing to be restored from.
LEMMA RestoredHolds ==
  ASSUME AdminInv, ~LeavesMove, NEW id \in AdminIds, NEW slots \in ClientBodies(id),
         NEW incoming, incoming = [i \in DOMAIN slots |-> Wire(slots[i])],
         PutAccepted(keyring, id, incoming)
  PROVE  HoldsAll(Restored(keyring, id, incoming), [i \in DOMAIN slots |-> Meant(id, slots[i])])
<1> DEFINE meant == [i \in DOMAIN slots |-> Meant(id, slots[i])]
           restored == Restored(keyring, id, incoming)
           existing == Existing(keyring, id)
<1>1. DOMAIN restored = DOMAIN slots
  BY DEF Restored, restore_redacted_secrets
<1>2. HoldsAll(adminStore[id], intended[id])
  BY DEF AdminInv
<1>3. ASSUME NEW i \in DOMAIN slots PROVE LeafHolds(restored[i], Meant(id, slots[i]))
  <2> DEFINE slot == slots[i]
  <2>1. slot \in SlotValues /\ (slot[1] = "kept" => slot[2] = i) /\ slot[1] \in {"new", "kept", "pasted"}
        /\ (slot[1] = "new" => slot[2] # "***")
    BY Sent, AdminAssumption
  <2>2. incoming[i] = Wire(slot)
    OBVIOUS
  <2>3. restored[i] = IF incoming[i] = REDACTED /\ i \in DOMAIN existing THEN existing[i] ELSE incoming[i]
    BY DEF Restored, restore_redacted_secrets, contains_redaction_sentinel
  <2> HIDE DEF slot, restored, existing
  <2>4. CASE slot[1] = "new"
    <3>1. incoming[i] = Text(slot[2]) /\ Meant(id, slot) = slot[2]
      BY <2>2, <2>4 DEF Wire, Meant
    <3>2. incoming[i] # REDACTED
      <4>1. Text(slot[2])[2] = slot[2] /\ REDACTED[2] = "***"
        BY DEF Text, REDACTED
      <4> QED BY <2>1, <2>4, <3>1, <4>1
    <3> QED BY <2>3, <3>1, <3>2 DEF LeafHolds, slot
  <2>5. CASE slot[1] = "pasted"
    <3>1. incoming[i] = Envelope(CIPHERTEXT_VERSION, slot[2], slot[3]) /\ Meant(id, slot) = slot[3]
      BY <2>2, <2>5 DEF Wire, Meant
    <3>2. incoming[i] # REDACTED
      BY <3>1, LeafForms DEF REDACTED
    <3> QED BY <2>3, <3>1, <3>2 DEF LeafHolds, slot
  <2>6. CASE slot[1] = "kept"
    <3>1. incoming[i] = REDACTED
          /\ Meant(id, slot) = IF i \in DOMAIN intended[id] THEN intended[id][i] ELSE "***"
      BY <2>1, <2>2, <2>6 DEF Wire, Meant
    <3>2. DOMAIN existing = DOMAIN intended[id]
      BY <1>2 DEF existing, Existing, decrypt_for_read, DecryptAll, HoldsAll
    <3>3. CASE i \notin DOMAIN intended[id]
      <4>1. restored[i] = Text("***") /\ Meant(id, slot) = "***"
        BY <2>3, <3>1, <3>2, <3>3 DEF REDACTED
      <4> QED BY <4>1 DEF LeafHolds, slot
    <3>4. CASE i \in DOMAIN intended[id]
      <4>1. restored[i] = existing[i] /\ Meant(id, slot) = intended[id][i]
        BY <2>3, <3>1, <3>2, <3>4
      <4>2. LeafHolds(adminStore[id][i], intended[id][i]) /\ i \in DOMAIN adminStore[id]
        BY <1>2, <3>4 DEF HoldsAll
      <4>3. Readable(existing)
        BY <3>1 DEF PutAccepted, contains_redaction_sentinel, existing
      <4>4. existing[i] # Undecryptable
        BY <3>2, <3>4, <4>3 DEF Readable
      <4>5. CASE keyring.enable
        <5>1. existing[i] = decrypt(keyring, adminStore[id][i])
          BY <4>2, <4>5 DEF existing, Existing, decrypt_for_read, DecryptAll
        <5>2. existing[i] = Text(intended[id][i])
          BY <4>2, <4>4, <5>1, DecryptHolds
        <5> QED BY <4>1, <5>2 DEF LeafHolds, slot
      <4>6. CASE ~keyring.enable
        <5>1. existing[i] = adminStore[id][i]
          BY <4>6 DEF existing, Existing, decrypt_for_read
        <5> QED BY <4>1, <4>2, <5>1 DEF slot
      <4> QED BY <4>5, <4>6
    <3> QED BY <3>3, <3>4
  <2> QED BY <2>1, <2>4, <2>5, <2>6
<1>4. DOMAIN meant = DOMAIN slots /\ \A i \in DOMAIN slots : meant[i] = Meant(id, slots[i])
  OBVIOUS
<1> HIDE DEF restored, meant
<1>5. HoldsAll(restored, meant)
  BY <1>1, <1>3, <1>4 DEF HoldsAll
<1> QED BY <1>5 DEF restored, meant

\* encrypt_for_storage keeps what the leaves hold.
LEMMA StoredHolds ==
  ASSUME NEW section, NEW leaves, NEW secrets, HoldsAll(leaves, secrets)
  PROVE  HoldsAll(encrypt_for_storage(section, leaves), secrets)
<1>1. CASE section.enable
  <2>1. /\ DOMAIN encrypt_for_storage(section, leaves) = DOMAIN leaves
        /\ \A i \in DOMAIN leaves : encrypt_for_storage(section, leaves)[i] = encrypt(section, leaves[i])
    BY <1>1 DEF encrypt_for_storage, EncryptAll
  <2> QED BY <2>1, EncryptHolds DEF HoldsAll
<1>2. CASE ~section.enable
  BY <1>2 DEF encrypt_for_storage
<1> QED BY <1>1, <1>2

\* ResourceHandler::handle.
LEMMA PutKeeps ==
  ASSUME AdminInv, ~LeavesMove, NEW http, NEW id \in AdminIds, Put(http, id)
  PROVE  AdminInv'
<1>1. keyring' = keyring
  BY DEF Put
<1>2. CASE UNCHANGED <<adminStore, intended>>
  BY <1>1, <1>2 DEF AdminInv
<1>3. ASSUME NEW slots \in ClientBodies(id), NEW incoming,
             incoming = [i \in DOMAIN slots |-> Wire(slots[i])],
             PutAccepted(keyring, id, incoming),
             adminStore' = [adminStore EXCEPT ![id] = StoredForm(keyring, id, incoming)],
             intended' = [intended EXCEPT ![id] = [i \in DOMAIN slots |-> Meant(id, slots[i])]]
      PROVE  AdminInv'
  <2> DEFINE meant == [i \in DOMAIN slots |-> Meant(id, slots[i])]
             stored == StoredForm(keyring, id, incoming)
  <2>1. HoldsAll(Restored(keyring, id, incoming), meant)
    BY <1>3, RestoredHolds
  <2> HIDE DEF meant
  <2>2. HoldsAll(stored, meant)
    BY <2>1, StoredHolds DEF StoredForm
  <2> HIDE DEF stored
  <2>3. adminStore' = [adminStore EXCEPT ![id] = stored] /\ intended' = [intended EXCEPT ![id] = meant]
    BY <1>3 DEF stored, meant
  <2> QED BY <1>1, <2>2, <2>3 DEF AdminInv
<1>4. \/ UNCHANGED <<adminStore, intended>>
      \/ \E slots \in ClientBodies(id) :
           LET incoming == [i \in DOMAIN slots |-> Wire(slots[i])]
           IN  /\ PutAccepted(keyring, id, incoming)
               /\ adminStore' = [adminStore EXCEPT ![id] = StoredForm(keyring, id, incoming)]
               /\ intended' = [intended EXCEPT ![id] = [i \in DOMAIN slots |-> Meant(id, slots[i])]]
  BY DEF Put, Unwritten
<1> QED BY <1>2, <1>3, <1>4

\* DeleteHandler::handle.
LEMMA DeleteKeeps ==
  ASSUME AdminInv, NEW http, NEW id \in AdminIds, Delete(http, id)
  PROVE  AdminInv'
<1>1. /\ keyring' = keyring
      /\ \/ UNCHANGED <<adminStore, intended>>
         \/ adminStore' = [adminStore EXCEPT ![id] = <<>>] /\ intended' = [intended EXCEPT ![id] = <<>>]
  BY DEF Delete, Unwritten
<1>2. CASE UNCHANGED <<adminStore, intended>>
  BY <1>1, <1>2 DEF AdminInv
<1>3. CASE adminStore' = [adminStore EXCEPT ![id] = <<>>] /\ intended' = [intended EXCEPT ![id] = <<>>]
  <2>1. HoldsAll(<<>>, <<>>)
    BY DEF HoldsAll
  <2> QED BY <1>1, <1>3, <2>1 DEF AdminInv
<1> QED BY <1>1, <1>2, <1>3

\* Every request and every restart.
LEMMA AdminInvNext ==
  ASSUME AdminInv, ~LeavesMove, [AdminNext]_adminVars
  PROVE  AdminInv'
<1>1. CASE UNCHANGED adminVars
  BY <1>1 DEF AdminInv, adminVars
<1>2. CASE Restart
  BY <1>2 DEF AdminInv, Restart
<1>3. ASSUME NEW http \in AdminHttp, NEW id \in AdminIds, response(http, id)
      PROVE  AdminInv'
  <2>1. CASE UNCHANGED <<adminStore, intended, keyring>>
    BY <2>1 DEF AdminInv
  <2>2. CASE Put(http, id)
    BY <2>2, PutKeeps
  <2>3. CASE Delete(http, id)
    BY <2>3, DeleteKeeps
  <2> QED BY <1>3, <2>1, <2>2, <2>3 DEF response, Unwritten, Get, List, StoreUnreachable, Publication
<1> QED BY <1>1, <1>2, <1>3 DEF AdminNext

\* An empty store.
LEMMA AdminInvInit == AdminInit => AdminInv
<1>1. HoldsAll(<<>>, <<>>)
  BY DEF HoldsAll
<1> QED BY <1>1 DEF AdminInit, AdminInv

\* A graph loads when its keys are there, and then gives the secrets; without one
\* of them it does not load.
LEMMA LoadsWhatIsHeld ==
  ASSUME AdminInv, NEW section \in DataEncryption
  PROVE  LET sealedWith == {leaf[3] : leaf \in
                             {l \in UNION {{adminStore[id][i] : i \in DOMAIN adminStore[id]} :
                                             id \in AdminIds} : is_ciphertext(l)}}
         IN  IF sealedWith \subseteq KeysOf(section)
               THEN Loaded(section) = [id \in AdminIds |->
                                         [i \in DOMAIN intended[id] |-> Text(intended[id][i])]]
               ELSE ~Loads(section)
<1> DEFINE leaves == UNION {{adminStore[id][i] : i \in DOMAIN adminStore[id]} : id \in AdminIds}
           sealedWith == {leaf[3] : leaf \in {l \in leaves : is_ciphertext(l)}}
<1>1. \A id \in AdminIds : /\ DOMAIN adminStore[id] = DOMAIN intended[id]
                           /\ \A i \in DOMAIN adminStore[id] : LeafHolds(adminStore[id][i], intended[id][i])
  BY DEF AdminInv, HoldsAll
<1>2. \A id \in AdminIds : \A i \in DOMAIN adminStore[id] : adminStore[id][i] \in leaves
  OBVIOUS
<1>3. \A l \in leaves : \E id \in AdminIds : \E i \in DOMAIN adminStore[id] : l = adminStore[id][i]
  OBVIOUS
<1> HIDE DEF leaves
<1>4. CASE sealedWith \subseteq KeysOf(section)
  <2>1. ASSUME NEW id \in AdminIds, NEW i \in DOMAIN adminStore[id]
        PROVE  decrypt(section, adminStore[id][i]) = Text(intended[id][i])
    <3>1. is_ciphertext(adminStore[id][i]) => adminStore[id][i][3] \in KeysOf(section)
      BY <1>2, <1>4, <2>1
    <3>2. LeafHolds(adminStore[id][i], intended[id][i])
      BY <1>1, <2>1
    <3> QED BY <3>1, <3>2, DecryptHolds
  <2>2. ASSUME NEW id \in AdminIds
        PROVE  DecryptAll(section, adminStore[id]) = [i \in DOMAIN intended[id] |-> Text(intended[id][i])]
    BY <1>1, <2>1, <2>2 DEF DecryptAll
  <2>3. Loaded(section) = [id \in AdminIds |-> [i \in DOMAIN intended[id] |-> Text(intended[id][i])]]
    BY <2>2 DEF Loaded
  <2> QED BY <1>4, <2>3 DEF leaves
<1>5. CASE ~(sealedWith \subseteq KeysOf(section))
  <2>1. PICK l \in leaves : is_ciphertext(l) /\ l[3] \notin KeysOf(section)
    BY <1>5
  <2>2. PICK id \in AdminIds : \E i \in DOMAIN adminStore[id] : l = adminStore[id][i]
    BY <1>3
  <2>3. PICK i \in DOMAIN adminStore[id] : l = adminStore[id][i]
    BY <2>2
  <2>4. LeafHolds(adminStore[id][i], intended[id][i])
    BY <1>1
  <2>5. decrypt(section, adminStore[id][i]) = Undecryptable
    BY <2>1, <2>3, <2>4, DecryptHolds
  <2>6. ~Readable(DecryptAll(section, adminStore[id]))
    BY <2>3, <2>5 DEF Readable, DecryptAll
  <2>7. ~Loads(section)
    BY <2>6 DEF Loads
  <2> QED BY <1>5, <2>7 DEF leaves
<1> QED BY <1>4, <1>5

\* No series of writes, masked resaves and restarts loses, mixes up or seals a
\* secret twice, as long as clients do not drop leaves from the middle of a list.
THEOREM SecretsKept == ~LeavesMove /\ AdminSpec => []SecretsSurvive
<1> SUFFICES ASSUME ~LeavesMove PROVE AdminSpec => []SecretsSurvive
  OBVIOUS
<1>1. AdminInit => AdminInv
  BY AdminInvInit
<1>2. AdminInv /\ [AdminNext]_adminVars => AdminInv'
  BY AdminInvNext
<1>3. AdminInv => SecretsSurvive
  BY LoadsWhatIsHeld DEF SecretsSurvive
<1> QED BY <1>1, <1>2, <1>3, PTL DEF AdminSpec

--------------------------------------------------------------------------------
(* Writes. *)

\* AdminHttpApp::response lets a request through to a handler only with the key.
LEMMA DispatchedAuthenticated ==
  ASSUME NEW http, Undispatched(http) = 0
  PROVE  http.apiKey = "right"
BY DEF Undispatched

\* With encryption enabled, put writes no leaf in the clear: a restored one has
\* been decrypted and is sealed anew under the first key.
LEMMA StoredSealed ==
  ASSUME NEW id \in AdminIds, NEW slots \in ClientBodies(id),
         NEW incoming, incoming = [i \in DOMAIN slots |-> Wire(slots[i])],
         keyring.enable, PutAccepted(keyring, id, incoming),
         NEW i \in DOMAIN StoredForm(keyring, id, incoming)
  PROVE  LET leaf == StoredForm(keyring, id, incoming)[i] IN
         is_ciphertext(leaf) /\ (i \notin PastedAt(slots) => leaf[3] = keyring.keys[1])
<1> DEFINE restored == Restored(keyring, id, incoming)
           existing == Existing(keyring, id)
           slot == slots[i]
           leaf == StoredForm(keyring, id, incoming)[i]
<1>1. DOMAIN restored = DOMAIN slots
  BY DEF Restored, restore_redacted_secrets
<1>2. i \in DOMAIN slots /\ leaf = encrypt(keyring, restored[i])
  BY <1>1 DEF StoredForm, encrypt_for_storage, EncryptAll
<1>3. restored[i] = IF incoming[i] = REDACTED /\ i \in DOMAIN existing THEN existing[i] ELSE incoming[i]
  BY <1>2 DEF Restored, restore_redacted_secrets, contains_redaction_sentinel
<1>4. incoming[i] = Wire(slot) /\ slot[1] \in {"new", "kept", "pasted"}
  <2>1. \E n \in 0..MaxLeaves : slots \in [1..n -> SlotValues]
    BY DEF ClientBodies
  <2> QED BY <1>2, <2>1, AdminAssumption
<1>5. incoming[i] = REDACTED => Readable(existing)
  BY <1>2 DEF PutAccepted, contains_redaction_sentinel
<1>6. i \in DOMAIN existing => existing[i] = decrypt(keyring, adminStore[id][i])
  BY DEF Existing, decrypt_for_read, DecryptAll
<1> HIDE DEF restored, existing, slot, leaf
<1>7. ASSUME is_ciphertext(restored[i]) PROVE slot[1] = "pasted"
  <2>1. \A s : ~is_ciphertext(Text(s))
    BY LeafForms
  <2>2. CASE incoming[i] = REDACTED /\ i \in DOMAIN existing
    <3>1. existing[i] = decrypt(keyring, adminStore[id][i]) /\ existing[i] # Undecryptable
      BY <1>5, <1>6, <2>2 DEF Readable
    <3>2. ~is_ciphertext(existing[i])
      BY <2>1, <3>1 DEF decrypt
    <3> QED BY <1>3, <1>7, <2>2, <3>2
  <2>3. CASE ~(incoming[i] = REDACTED /\ i \in DOMAIN existing)
    <3>1. is_ciphertext(Wire(slot))
      BY <1>3, <1>4, <1>7, <2>3
    <3>2. slot[1] = "new" => Wire(slot) = Text(slot[2])
      BY DEF Wire
    <3>3. slot[1] = "kept" => Wire(slot) = Text("***")
      BY DEF Wire, REDACTED
    <3> QED BY <1>4, <2>1, <3>1, <3>2, <3>3
  <2> QED BY <2>2, <2>3
<1>8. CASE is_ciphertext(restored[i])
  <2>1. leaf = restored[i] /\ i \in PastedAt(slots)
    BY <1>2, <1>7, <1>8 DEF encrypt, PastedAt, slot
  <2> QED BY <1>8, <2>1 DEF leaf
<1>9. CASE ~is_ciphertext(restored[i])
  <2>1. leaf = Envelope(CIPHERTEXT_VERSION, keyring.keys[1], restored[i][2])
    BY <1>2, <1>9 DEF encrypt
  <2>2. is_ciphertext(leaf) /\ leaf[3] = keyring.keys[1]
    BY <2>1, LeafForms
  <2> QED BY <2>2 DEF leaf
<1> QED BY <1>8, <1>9

\* What a step that changes the store must have been.
Sealed ==
  adminStore' # adminStore =>
    LET reply == adminReply'
        leaves == adminStore'[reply.id]
    IN  /\ reply.http.apiKey = "right" /\ reply.status \in {200, 503}
        /\ \A id \in AdminIds \ {reply.id} : adminStore'[id] = adminStore[id]
        /\ reply.http.method = "PUT" =>
             (/\ reply.http.contentType = "application/json"
              /\ keyring.enable =>
                   \A i \in DOMAIN leaves :
                     /\ is_ciphertext(leaves[i])
                     /\ i \notin reply.pasted => leaves[i][3] = keyring.keys[1])

\* ResourceHandler::handle, for a request that was let through.
LEMMA PutSealed ==
  ASSUME DOMAIN adminStore = AdminIds, NEW http, NEW id \in AdminIds, Put(http, id), Undispatched(http) = 0
  PROVE  Sealed
<1> SUFFICES ASSUME adminStore' # adminStore PROVE Sealed
  BY DEF Sealed
<1>1. /\ WellFormed(http)
      /\ \E slots \in ClientBodies(id), cas \in CasOutcomes :
           LET incoming == [i \in DOMAIN slots |-> Wire(slots[i])]
           IN  /\ PutAccepted(keyring, id, incoming) /\ Applied(cas)
               /\ adminStore' = [adminStore EXCEPT ![id] = StoredForm(keyring, id, incoming)]
               /\ AdminAnswer(http, id, CasStatus(cas), PastedAt(slots))
  BY DEF Put, Unwritten
<1>2. PICK slots \in ClientBodies(id), cas \in CasOutcomes :
           LET incoming == [i \in DOMAIN slots |-> Wire(slots[i])]
           IN  /\ PutAccepted(keyring, id, incoming) /\ Applied(cas)
               /\ adminStore' = [adminStore EXCEPT ![id] = StoredForm(keyring, id, incoming)]
               /\ AdminAnswer(http, id, CasStatus(cas), PastedAt(slots))
  BY <1>1
<1> DEFINE incoming == [i \in DOMAIN slots |-> Wire(slots[i])]
           stored == StoredForm(keyring, id, incoming)
<1>3. /\ adminReply'.http = http /\ adminReply'.id = id /\ adminReply'.pasted = PastedAt(slots)
      /\ adminReply'.status = CasStatus(cas)
  BY <1>2 DEF AdminAnswer
<1>4. CasStatus(cas) \in {200, 503}
  BY <1>2 DEF CasStatus, Applied
<1>5. keyring.enable => \A i \in DOMAIN stored :
        is_ciphertext(stored[i]) /\ (i \notin PastedAt(slots) => stored[i][3] = keyring.keys[1])
  BY <1>2, StoredSealed
<1>6. adminStore'[id] = stored /\ \A j \in AdminIds \ {id} : adminStore'[j] = adminStore[j]
  BY <1>2
<1> HIDE DEF stored
<1>7. http.contentType = "application/json" /\ http.apiKey = "right"
  BY <1>1, DispatchedAuthenticated DEF WellFormed
<1> QED BY <1>3, <1>4, <1>5, <1>6, <1>7 DEF Sealed

\* DeleteHandler::handle, for a request that was let through.
LEMMA DeleteSealed ==
  ASSUME DOMAIN adminStore = AdminIds, NEW http, NEW id \in AdminIds, Delete(http, id), Undispatched(http) = 0
  PROVE  Sealed
<1> SUFFICES ASSUME adminStore' # adminStore PROVE Sealed
  BY DEF Sealed
<1>1. PICK cas \in CasOutcomes :
        /\ Applied(cas) /\ http.method = "DELETE"
        /\ adminStore' = [adminStore EXCEPT ![id] = <<>>]
        /\ AdminAnswer(http, id, CasStatus(cas), {})
  BY DEF Delete, Unwritten
<1>2. adminReply'.http = http /\ adminReply'.id = id /\ adminReply'.status = CasStatus(cas)
  BY <1>1 DEF AdminAnswer
<1>3. CasStatus(cas) \in {200, 503}
  BY <1>1 DEF CasStatus, Applied
<1>4. \A j \in AdminIds \ {id} : adminStore'[j] = adminStore[j]
  BY <1>1
<1>5. http.apiKey = "right" /\ http.method # "PUT"
  BY <1>1, DispatchedAuthenticated
<1> QED BY <1>2, <1>3, <1>4, <1>5 DEF Sealed

\* The store changes only for authenticated writes that are answered as such, and a
\* PUT through a gateway with encryption enabled leaves no leaf in the clear; this
\* needs nothing of the clients.
THEOREM WritesAreSealed == AdminSpec => AdminWritesSealed
<1> DEFINE Mapped == DOMAIN adminStore = AdminIds
<1>1. AdminInit => Mapped
  BY DEF AdminInit
<1>2. Mapped /\ [AdminNext]_adminVars => Mapped'
  <2> SUFFICES ASSUME Mapped, [AdminNext]_adminVars, adminStore' # adminStore PROVE Mapped'
    OBVIOUS
  <2>1. PICK http \in AdminHttp, id \in AdminIds : response(http, id)
    BY DEF AdminNext, adminVars, Restart
  <2>2. CASE Put(http, id)
    <3>1. \E leaves : adminStore' = [adminStore EXCEPT ![id] = leaves]
      BY <2>2 DEF Put, Unwritten
    <3> QED BY <3>1
  <2>3. CASE Delete(http, id)
    BY <2>3 DEF Delete, Unwritten
  <2> QED BY <2>1, <2>2, <2>3 DEF response, Unwritten, Get, List, StoreUnreachable, Publication
<1>3. Mapped /\ [AdminNext]_adminVars => [Sealed]_adminVars
  <2> SUFFICES ASSUME Mapped, [AdminNext]_adminVars, adminStore' # adminStore PROVE Sealed
    BY DEF Sealed
  <2>1. PICK http \in AdminHttp, id \in AdminIds : response(http, id)
    BY DEF AdminNext, adminVars, Restart
  <2>2. Undispatched(http) = 0 /\ (Put(http, id) \/ Delete(http, id))
    BY <2>1 DEF response, Unwritten, Get, List, StoreUnreachable, Publication
  <2> QED BY <2>2, PutSealed, DeleteSealed
<1> QED BY <1>1, <1>2, <1>3, PTL DEF AdminSpec, AdminWritesSealed, Sealed

--------------------------------------------------------------------------------
(* file-logger: queues of lines. *)

Lines == [request : LogRequests, instance : Instances, body : Nat, truncated : BOOLEAN]

\* A sequence of lines that holds each at most once.
Distinct(s) == s \in Seq(Lines) /\ \A j, k \in 1..Len(s) : s[j] = s[k] => j = k

\* try_send puts a new line at the end.
LEMMA AppendDistinct ==
  ASSUME NEW s, Distinct(s), NEW x \in Lines, x \notin ToSet(s)
  PROVE  Distinct(Append(s, x)) /\ ToSet(Append(s, x)) = ToSet(s) \cup {x}
<1> DEFINE n == Len(s)
           t == Append(s, x)
<1>1. s \in Seq(Lines) /\ n \in Nat /\ DOMAIN s = 1..n /\ \A j, k \in 1..n : s[j] = s[k] => j = k
  BY DEF Distinct
<1>2. /\ t \in Seq(Lines) /\ Len(t) = n + 1 /\ DOMAIN t = 1..(n + 1) /\ t[n + 1] = x
      /\ \A k \in 1..n : t[k] = s[k]
  BY <1>1
<1> HIDE DEF t, n
<1>3. \A k \in 1..n : s[k] # x
  BY <1>1 DEF ToSet
<1>4. \A k \in 1..(n + 1) : k \in 1..n \/ k = n + 1
  BY <1>1
<1>5. \A k \in 1..n : k \in 1..(n + 1)
  BY <1>1
<1>6. n + 1 \in 1..(n + 1)
  BY <1>1
<1>7. \A j, k \in 1..(n + 1) : t[j] = t[k] => j = k
  BY <1>1, <1>2, <1>3, <1>4
<1>8. ToSet(t) = ToSet(s) \cup {x}
  BY <1>1, <1>2, <1>4, <1>5, <1>6 DEF ToSet
<1>9. Distinct(t)
  BY <1>2, <1>7 DEF Distinct
<1> QED BY <1>8, <1>9 DEF t

\* recv takes the first line out.
LEMMA TailDistinct ==
  ASSUME NEW s, Distinct(s), s # <<>>
  PROVE  /\ Distinct(Tail(s)) /\ ToSet(Tail(s)) = ToSet(s) \ {Head(s)}
         /\ Head(s) \in ToSet(s) /\ Head(s) \in Lines
<1> DEFINE n == Len(s)
           t == Tail(s)
           x == Head(s)
<1>1. s \in Seq(Lines) /\ n \in Nat /\ n >= 1 /\ DOMAIN s = 1..n /\ \A j, k \in 1..n : s[j] = s[k] => j = k
  BY DEF Distinct
<1>2. /\ t \in Seq(Lines) /\ Len(t) = n - 1 /\ DOMAIN t = 1..(n - 1)
      /\ \A k \in 1..(n - 1) : t[k] = s[k + 1]
      /\ x = s[1] /\ x \in Lines
  BY <1>1
<1> HIDE DEF t, n, x
<1>3. \A k \in 1..(n - 1) : k + 1 \in 1..n /\ k + 1 # 1
  BY <1>1
<1>4. \A k \in 1..n : k = 1 \/ (k - 1 \in 1..(n - 1) /\ (k - 1) + 1 = k)
  BY <1>1
<1>5. \A j, k \in 1..(n - 1) : t[j] = t[k] => j = k
  <2> TAKE j, k \in 1..(n - 1)
  <2> HAVE t[j] = t[k]
  <2>1. j + 1 = k + 1
    BY <1>1, <1>2, <1>3
  <2> QED BY <1>1, <2>1
<1>6. 1 \in 1..n
  BY <1>1
<1>7. \A y \in ToSet(t) : y \in ToSet(s) /\ y # x
  <2> TAKE y \in ToSet(t)
  <2>1. PICK k \in 1..(n - 1) : y = t[k]
    BY <1>2 DEF ToSet
  <2>2. y = s[k + 1] /\ k + 1 \in 1..n /\ k + 1 # 1
    BY <1>2, <1>3, <2>1
  <2>3. y \in ToSet(s)
    BY <1>1, <2>2 DEF ToSet
  <2> QED BY <1>1, <1>2, <1>6, <2>2, <2>3
<1>8. \A y \in ToSet(s) : y = x \/ y \in ToSet(t)
  <2> TAKE y \in ToSet(s)
  <2>1. PICK k \in 1..n : y = s[k]
    BY <1>1 DEF ToSet
  <2>2. CASE k = 1
    BY <1>2, <2>1, <2>2
  <2>3. CASE k # 1
    <3>1. k - 1 \in 1..(n - 1) /\ t[k - 1] = s[k]
      BY <1>2, <1>4, <2>3
    <3> QED BY <1>2, <2>1, <3>1 DEF ToSet
  <2> QED BY <2>2, <2>3
<1>9. x \in ToSet(s)
  BY <1>1, <1>2, <1>6 DEF ToSet
<1>10. Distinct(t)
  BY <1>2, <1>5 DEF Distinct
<1> QED BY <1>2, <1>7, <1>8, <1>9, <1>10 DEF t, x

\* write_all appends the one line in hand to the file.
LEMMA WriteDistinct ==
  ASSUME NEW s, Distinct(s), NEW x \in Lines, x \notin ToSet(s)
  PROVE  Distinct(s \o <<x>>) /\ ToSet(s \o <<x>>) = ToSet(s) \cup {x}
<1>1. s \in Seq(Lines)
  BY DEF Distinct
<1>2. s \o <<x>> = Append(s, x)
  BY <1>1
<1>3. Distinct(Append(s, x)) /\ ToSet(Append(s, x)) = ToSet(s) \cup {x}
  BY AppendDistinct
<1> QED BY <1>2, <1>3, Zenon

\* The lines of an empty queue or hand, and of a hand with one line.
LEMMA SmallSets ==
  ASSUME NEW x
  PROVE  ToSet(<<>>) = {} /\ ToSet(<<x>>) = {x} /\ Distinct(<<>>)
<1>1. DOMAIN <<>> = {} /\ Len(<<>>) = 0
  OBVIOUS
<1>2. DOMAIN <<x>> = {1} /\ <<x>>[1] = x
  OBVIOUS
<1>3. ToSet(<<x>>) = {x}
  BY <1>2 DEF ToSet
<1> QED BY <1>1, <1>3 DEF ToSet, Distinct

--------------------------------------------------------------------------------
(* file-logger: the invariant. *)

LogSteps == {"new", "body", "end", "drop", "join", "done"}

LogRequestRecord ==
  [step : LogSteps, instance : Instances, sent : Nat, buffer : [bytes : Nat, exceeded : BOOLEAN]]

\* A buffer holds the prefix of the body that fits, and knows if there was more.
Prefix(q) ==
  /\ q.buffer.bytes = IF q.sent < MaxBodyBytes THEN q.sent ELSE MaxBodyBytes
  /\ q.buffer.exceeded <=> q.sent > MaxBodyBytes

RequestsSound ==
  /\ current \in Instances
  /\ DOMAIN logging = LogRequests
  /\ \A r \in LogRequests :
       logging[r] \in LogRequestRecord /\ logging[r].instance <= current /\ Prefix(logging[r])

\* One writer: it has a line in hand only between recv and write_all, and it is
\* past its budget only at its end.
WriterSound(w) ==
  /\ w = [queue |-> w.queue, closing |-> w.closing, connected |-> w.connected, pc |-> w.pc,
          hand |-> w.hand, closingSeen |-> w.closingSeen, drained |-> w.drained,
          writesAfterClose |-> w.writesAfterClose]
  /\ w.closing \in BOOLEAN /\ w.connected \in BOOLEAN /\ w.closingSeen \in BOOLEAN
  /\ w.drained \in Nat /\ w.writesAfterClose \in Nat
  /\ w.pc \in {"recv", "write", "check", "done"}
  /\ Distinct(w.queue)
  /\ w.pc = "write" => \E x \in Lines : w.hand = <<x>>
  /\ w.pc # "write" => w.hand = <<>>
  /\ w.drained <= DrainBudget
  /\ w.pc # "done" => w.drained < DrainBudget
  /\ w.writesAfterClose <= w.drained + (IF w.pc = "check" /\ w.closing THEN 1 ELSE 0)
  /\ w.closingSeen => w.closing
  /\ w.pc = "done" => w.queue = <<>> /\ (w.closing \/ ~w.connected)

\* Nobody can log through the instance any more.
Unused(i) ==
  i < current /\ \A r \in LogRequests : logging[r].step \in {"body", "end"} => logging[r].instance # i

WritersSound ==
  /\ DOMAIN writers = Instances
  /\ \A i \in Instances :
       /\ WriterSound(writers[i])
       /\ \A x \in ToSet(writers[i].queue) \cup ToSet(writers[i].hand) : x.instance = i
       /\ writers[i].closing \/ ~writers[i].connected => Unused(i)
  /\ \A r \in LogRequests : logging[r].step = "drop" => writers[logging[r].instance].closing

\* The line of a request that has logged.
Known(x, requests) ==
  LET q == requests[x.request] IN
  /\ q.step \notin {"new", "body"}
  /\ x.instance = q.instance /\ x.body = q.buffer.bytes /\ x.truncated = q.buffer.exceeded

One(b) == IF b THEN 1 ELSE 0

\* In how many places a line is.
Copies(x, w, file, given) ==
  One(x \in ToSet(w[x.instance].queue)) + One(x \in ToSet(w[x.instance].hand)) + One(x \in ToSet(file))
  + One(x \in given["full"]) + One(x \in given["failed"]) + One(x \in given["abandoned"])

LinesKept ==
  /\ Distinct(logged)
  /\ fileLost \in [LossReasons -> SUBSET Lines]
  /\ \A x \in Lines : Copies(x, writers, logged, fileLost) = One(Known(x, logging))
  /\ \A x \in fileLost["abandoned"] : writers[x.instance].drained = DrainBudget

FileLogInv == RequestsSound /\ WritersSound /\ LinesKept

\* BodyBuffer::append keeps the prefix, whatever the chunks.
LEMMA AppendPrefix ==
  ASSUME NEW q \in LogRequestRecord, Prefix(q), NEW size \in Nat
  PROVE  LET next == [q EXCEPT !.sent = @ + size, !.buffer = BodyAppend(@, size)] IN
         next \in LogRequestRecord /\ Prefix(next) /\ next.step = q.step /\ next.instance = q.instance
<1> DEFINE b == BodyAppend(q.buffer, size)
           next == [q EXCEPT !.sent = @ + size, !.buffer = BodyAppend(@, size)]
           accepted == IF MaxBodyBytes - q.buffer.bytes < size THEN MaxBodyBytes - q.buffer.bytes ELSE size
<1>1. /\ q = [step |-> q.step, instance |-> q.instance, sent |-> q.sent, buffer |-> q.buffer]
      /\ q.step \in LogSteps /\ q.instance \in Instances
      /\ q.sent \in Nat /\ q.buffer \in [bytes : Nat, exceeded : BOOLEAN] /\ q.buffer.bytes \in Nat
      /\ q.buffer.exceeded \in BOOLEAN
  BY DEF LogRequestRecord
<1>2. MaxBodyBytes \in Nat
  BY FileLoggerAssumption
<1>3. b \in [bytes : Nat, exceeded : BOOLEAN]
      /\ b.bytes = (IF q.sent + size < MaxBodyBytes THEN q.sent + size ELSE MaxBodyBytes)
      /\ (b.exceeded <=> q.sent + size > MaxBodyBytes)
  <2>1. CASE q.buffer.exceeded
    BY <1>1, <1>2, <2>1 DEF BodyAppend, Prefix
  <2>2. CASE ~q.buffer.exceeded
    <3>1. b = [bytes |-> q.buffer.bytes + accepted, exceeded |-> accepted < size]
      BY <2>2 DEF BodyAppend
    <3> HIDE DEF b, accepted
    <3>0. b.bytes = q.buffer.bytes + accepted /\ b.exceeded = (accepted < size)
      BY <3>1
    <3>5. b \in [bytes : {b.bytes}, exceeded : BOOLEAN]
      <4>1. (accepted < size) \in BOOLEAN
        OBVIOUS
      <4>2. b \in [bytes : {q.buffer.bytes + accepted}, exceeded : BOOLEAN]
        BY <3>1, <4>1, Zenon
      <4> QED BY <3>0, <4>2, Zenon
    <3>2. q.buffer.bytes = q.sent /\ q.sent <= MaxBodyBytes
      BY <1>1, <1>2, <2>2 DEF Prefix
    <3>3. CASE MaxBodyBytes - q.buffer.bytes < size
      <4>1. accepted = MaxBodyBytes - q.sent /\ MaxBodyBytes - q.sent \in Nat
        BY <1>1, <1>2, <3>2, <3>3 DEF accepted
      <4>2. b \in [bytes : Nat, exceeded : BOOLEAN] /\ b.bytes = MaxBodyBytes /\ b.exceeded
        <5>1. accepted < size /\ q.sent + accepted = MaxBodyBytes
          BY <1>1, <1>2, <3>2, <3>3, <4>1
        <5> QED BY <1>2, <3>0, <3>2, <3>5, <5>1
      <4>3. MaxBodyBytes < q.sent + size
        BY <1>1, <1>2, <3>2, <3>3
      <4> QED BY <1>1, <1>2, <4>2, <4>3
    <3>4. CASE ~(MaxBodyBytes - q.buffer.bytes < size)
      <4>1. accepted = size /\ q.sent + size <= MaxBodyBytes
        BY <1>1, <1>2, <3>2, <3>4 DEF accepted
      <4>2. b \in [bytes : Nat, exceeded : BOOLEAN] /\ b.bytes = q.sent + size /\ ~b.exceeded
        <5>1. ~(accepted < size) /\ q.sent + size \in Nat
          BY <1>1, <4>1
        <5> QED BY <1>1, <3>0, <3>2, <3>5, <4>1, <5>1
      <4> QED BY <1>1, <1>2, <4>1, <4>2
    <3> QED BY <3>3, <3>4
  <2> QED BY <2>1, <2>2
<1>4. next = [step |-> q.step, instance |-> q.instance, sent |-> q.sent + size, buffer |-> b]
  <2>1. next = [q EXCEPT !.sent = q.sent + size, !.buffer = b]
    BY <1>1, Zenon
  <2> HIDE DEF b, next
  <2> QED BY <1>1, <2>1, Zenon
<1> HIDE DEF b
<1> HIDE DEF next
<1>5. next.step = q.step /\ next.instance = q.instance /\ next.sent = q.sent + size /\ next.buffer = b
  BY <1>4
<1>6. next \in LogRequestRecord
  BY <1>1, <1>3, <1>4 DEF LogRequestRecord
<1>7. Prefix(next)
  BY <1>3, <1>5 DEF Prefix
<1> QED BY <1>5, <1>6, <1>7 DEF next

\* recv: the first line of the queue is in hand.
LEMMA ReceiveSound ==
  ASSUME NEW w, WriterSound(w), w.pc = "recv", w.queue # <<>>,
         NEW after, after = [w EXCEPT !.queue = Tail(@), !.hand = <<Head(w.queue)>>, !.pc = "write"]
  PROVE  /\ WriterSound(after)
         /\ after.queue = Tail(w.queue) /\ after.hand = <<Head(w.queue)>>
         /\ after.closing = w.closing /\ after.connected = w.connected /\ after.drained = w.drained
<1>1. after = [queue |-> Tail(w.queue), closing |-> w.closing, connected |-> w.connected, pc |-> "write",
               hand |-> <<Head(w.queue)>>, closingSeen |-> w.closingSeen, drained |-> w.drained,
               writesAfterClose |-> w.writesAfterClose]
  BY DEF WriterSound
<1>2. Distinct(Tail(w.queue)) /\ Head(w.queue) \in Lines
  BY TailDistinct DEF WriterSound
<1>3. \E x \in Lines : after.hand = <<x>>
  BY <1>1, <1>2
<1>4. /\ after.queue = Tail(w.queue) /\ after.closing = w.closing /\ after.connected = w.connected
      /\ after.pc = "write" /\ after.hand = <<Head(w.queue)>> /\ after.closingSeen = w.closingSeen
      /\ after.drained = w.drained /\ after.writesAfterClose = w.writesAfterClose
  BY <1>1
<1>5. w.drained \in Nat /\ w.writesAfterClose \in Nat /\ DrainBudget \in Nat
  BY FileLoggerAssumption DEF WriterSound
<1> QED BY <1>1, <1>2, <1>3, <1>4, <1>5 DEF WriterSound

\* The writer after write_all.
Written(w) == [w EXCEPT !.hand = <<>>, !.pc = "check",
                        !.writesAfterClose = IF w.closing THEN @ + 1 ELSE @]

\* write_all: the hand is empty again, and a write after the flag is counted.
LEMMA WriteSound ==
  ASSUME NEW w, WriterSound(w), w.pc = "write", NEW after, after = Written(w)
  PROVE  /\ WriterSound(after)
         /\ after.queue = w.queue /\ after.hand = <<>>
         /\ after.closing = w.closing /\ after.connected = w.connected /\ after.drained = w.drained
<1> DEFINE writes == IF w.closing THEN w.writesAfterClose + 1 ELSE w.writesAfterClose
<1>1. after = [queue |-> w.queue, closing |-> w.closing, connected |-> w.connected, pc |-> "check",
               hand |-> <<>>, closingSeen |-> w.closingSeen, drained |-> w.drained,
               writesAfterClose |-> writes]
  <2>1. w = [queue |-> w.queue, closing |-> w.closing, connected |-> w.connected, pc |-> w.pc,
             hand |-> w.hand, closingSeen |-> w.closingSeen, drained |-> w.drained,
             writesAfterClose |-> w.writesAfterClose]
    BY DEF WriterSound
  <2> QED BY <2>1, Zenon DEF Written
<1>2. w.drained \in Nat /\ w.writesAfterClose \in Nat /\ DrainBudget \in Nat /\ w.closing \in BOOLEAN
  BY FileLoggerAssumption DEF WriterSound
<1>3. writes \in Nat /\ writes <= w.drained + (IF w.closing THEN 1 ELSE 0)
  <2>1. w.writesAfterClose <= w.drained + 0
    BY DEF WriterSound
  <2> QED BY <1>2, <2>1
<1> HIDE DEF writes
<1>4. /\ after.queue = w.queue /\ after.closing = w.closing /\ after.connected = w.connected
      /\ after.pc = "check" /\ after.hand = <<>> /\ after.closingSeen = w.closingSeen
      /\ after.drained = w.drained /\ after.writesAfterClose = writes
  <2> SUFFICES ASSUME NEW next, next = after PROVE
        /\ next.queue = w.queue /\ next.closing = w.closing /\ next.connected = w.connected
        /\ next.pc = "check" /\ next.hand = <<>> /\ next.closingSeen = w.closingSeen
        /\ next.drained = w.drained /\ next.writesAfterClose = writes
    OBVIOUS
  <2>1. next = [queue |-> w.queue, closing |-> w.closing, connected |-> w.connected, pc |-> "check",
               hand |-> <<>>, closingSeen |-> w.closingSeen, drained |-> w.drained,
               writesAfterClose |-> writes]
    BY <1>1, Zenon
  <2> QED BY ONLY <2>1
<1> QED BY <1>1, <1>2, <1>3, <1>4 DEF WriterSound

\* The look at the flag after a write: the drain counts up to its budget, at which the
\* queue is given up as a whole.
LEMMA CheckSound ==
  ASSUME NEW w, WriterSound(w), w.pc = "check"
  PROVE  LET after == AfterWrite(w) IN
         /\ WriterSound(after)
         /\ after.hand = w.hand /\ after.closing = w.closing /\ after.connected = w.connected
         /\ \/ after.queue = w.queue
            \/ after.queue = <<>> /\ after.drained = DrainBudget
<1> DEFINE seen == w.closingSeen \/ w.closing
           drained == IF seen THEN w.drained + 1 ELSE w.drained
           over == seen /\ drained >= DrainBudget
           pc == IF over THEN "done" ELSE "recv"
           queue == IF over THEN <<>> ELSE w.queue
           after == AfterWrite(w)
<1>1. after = [queue |-> queue, closing |-> w.closing, connected |-> w.connected, pc |-> pc,
               hand |-> w.hand, closingSeen |-> seen, drained |-> drained,
               writesAfterClose |-> w.writesAfterClose]
  <2>1. w = [queue |-> w.queue, closing |-> w.closing, connected |-> w.connected, pc |-> w.pc,
             hand |-> w.hand, closingSeen |-> w.closingSeen, drained |-> w.drained,
             writesAfterClose |-> w.writesAfterClose]
    BY DEF WriterSound
  <2>2. after = [w EXCEPT !.closingSeen = seen, !.drained = drained, !.pc = pc, !.queue = queue]
    BY <2>1, Zenon DEF AfterWrite
  <2> HIDE DEF seen, drained, pc, queue, after
  <2> QED BY <2>1, <2>2
<1>2. /\ w.drained \in Nat /\ w.writesAfterClose \in Nat /\ DrainBudget \in Nat
      /\ w.closing \in BOOLEAN /\ w.closingSeen \in BOOLEAN /\ w.connected \in BOOLEAN
      /\ w.drained < DrainBudget /\ (w.closingSeen => w.closing)
      /\ w.writesAfterClose <= w.drained + (IF w.closing THEN 1 ELSE 0)
  BY FileLoggerAssumption DEF WriterSound
<1>3. /\ seen \in BOOLEAN /\ (seen <=> w.closing)
      /\ drained \in Nat /\ drained <= DrainBudget /\ w.writesAfterClose <= drained
      /\ (over => drained = DrainBudget) /\ (~over => drained < DrainBudget)
      /\ (over => w.closing)
  BY <1>2
<1>4. Distinct(queue)
  BY SmallSets DEF WriterSound
<1>5. /\ pc \in {"recv", "done"} /\ (pc = "done" <=> over) /\ (over => queue = <<>>) /\ (~over => queue = w.queue)
  OBVIOUS
<1>6. w.hand = <<>>
  BY DEF WriterSound
<1> HIDE DEF seen, drained, over, pc, queue, after
<1>7. /\ after.queue = queue /\ after.closing = w.closing /\ after.connected = w.connected
      /\ after.pc = pc /\ after.hand = w.hand /\ after.closingSeen = seen
      /\ after.drained = drained /\ after.writesAfterClose = w.writesAfterClose
  BY <1>1
<1>8. WriterSound(after)
  BY <1>1, <1>2, <1>3, <1>4, <1>5, <1>6, <1>7 DEF WriterSound
<1>9. after.queue = w.queue \/ (after.queue = <<>> /\ after.drained = DrainBudget)
  BY <1>3, <1>5, <1>7
<1> QED BY <1>7, <1>8, <1>9 DEF after

\* write_line puts a new line into the queue of a thread that has not ended.
LEMMA PushSound ==
  ASSUME NEW w, WriterSound(w), w.pc # "done", NEW x \in Lines, x \notin ToSet(w.queue),
         NEW after, after = [w EXCEPT !.queue = Append(@, x)]
  PROVE  /\ WriterSound(after) /\ ToSet(after.queue) = ToSet(w.queue) \cup {x}
         /\ after.hand = w.hand /\ after.closing = w.closing /\ after.connected = w.connected
         /\ after.drained = w.drained
<1>1. w = [queue |-> w.queue, closing |-> w.closing, connected |-> w.connected, pc |-> w.pc,
           hand |-> w.hand, closingSeen |-> w.closingSeen, drained |-> w.drained,
           writesAfterClose |-> w.writesAfterClose]
  BY DEF WriterSound
<1>2. after = [queue |-> Append(w.queue, x), closing |-> w.closing, connected |-> w.connected,
               pc |-> w.pc, hand |-> w.hand, closingSeen |-> w.closingSeen,
               drained |-> w.drained, writesAfterClose |-> w.writesAfterClose]
  BY <1>1, Zenon
<1>3. Distinct(Append(w.queue, x)) /\ ToSet(Append(w.queue, x)) = ToSet(w.queue) \cup {x}
  BY AppendDistinct DEF WriterSound
<1>4. /\ after.queue = Append(w.queue, x) /\ after.closing = w.closing
      /\ after.connected = w.connected /\ after.pc = w.pc /\ after.hand = w.hand
      /\ after.closingSeen = w.closingSeen /\ after.drained = w.drained
      /\ after.writesAfterClose = w.writesAfterClose
  BY ONLY <1>2
<1>5. WriterSound(after)
  BY <1>2, <1>3, <1>4 DEF WriterSound
<1> QED BY <1>3, <1>4, <1>5

\* The destructor only ever sets the flag and drops the sender.
LEMMA FlagsSound ==
  ASSUME NEW w, WriterSound(w), NEW closing \in BOOLEAN, NEW connected \in BOOLEAN,
         w.closing => closing, connected => w.connected,
         NEW after,
         after = [queue |-> w.queue, closing |-> closing, connected |-> connected, pc |-> w.pc,
                  hand |-> w.hand, closingSeen |-> w.closingSeen, drained |-> w.drained,
                  writesAfterClose |-> w.writesAfterClose]
  PROVE  /\ WriterSound(after) /\ after.queue = w.queue /\ after.hand = w.hand
         /\ after.closing = closing /\ after.connected = connected /\ after.drained = w.drained
<1>1. /\ after.queue = w.queue /\ after.closing = closing /\ after.connected = connected
      /\ after.pc = w.pc /\ after.hand = w.hand /\ after.closingSeen = w.closingSeen
      /\ after.drained = w.drained /\ after.writesAfterClose = w.writesAfterClose
  OBVIOUS
<1>2. after = [queue |-> after.queue, closing |-> after.closing, connected |-> after.connected,
               pc |-> after.pc, hand |-> after.hand, closingSeen |-> after.closingSeen,
               drained |-> after.drained, writesAfterClose |-> after.writesAfterClose]
  BY <1>1
<1>3. after.writesAfterClose <= after.drained + (IF after.pc = "check" /\ after.closing THEN 1 ELSE 0)
  <2>1. w.writesAfterClose <= w.drained + (IF w.pc = "check" /\ w.closing THEN 1 ELSE 0)
    BY DEF WriterSound
  <2>2. w.writesAfterClose \in Nat /\ w.drained \in Nat
    BY DEF WriterSound
  <2> QED BY <1>1, <2>1, <2>2
<1>4. WriterSound(after)
  BY <1>1, <1>2, <1>3 DEF WriterSound
<1> QED BY <1>1, <1>4

\* recv on a disconnected, empty queue ends the thread.
LEMMA EndSound ==
  ASSUME NEW w, WriterSound(w), w.pc = "recv", w.queue = <<>>, ~w.connected,
         NEW after, after = [w EXCEPT !.pc = "done"]
  PROVE  /\ WriterSound(after) /\ after.queue = w.queue /\ after.hand = w.hand
         /\ after.closing = w.closing /\ after.connected = w.connected
         /\ after.drained = w.drained
<1>1. w = [queue |-> w.queue, closing |-> w.closing, connected |-> w.connected, pc |-> w.pc,
           hand |-> w.hand, closingSeen |-> w.closingSeen, drained |-> w.drained,
           writesAfterClose |-> w.writesAfterClose]
  BY DEF WriterSound
<1>2. after = [queue |-> w.queue, closing |-> w.closing, connected |-> w.connected,
               pc |-> "done", hand |-> w.hand, closingSeen |-> w.closingSeen,
               drained |-> w.drained, writesAfterClose |-> w.writesAfterClose]
  BY <1>1, Zenon
<1>3. /\ after.queue = w.queue /\ after.closing = w.closing /\ after.connected = w.connected
      /\ after.pc = "done" /\ after.hand = w.hand /\ after.closingSeen = w.closingSeen
      /\ after.drained = w.drained /\ after.writesAfterClose = w.writesAfterClose
  BY ONLY <1>2
<1>4. WriterSound(after)
  BY <1>2, <1>3 DEF WriterSound
<1> QED BY <1>3, <1>4

--------------------------------------------------------------------------------
(* file-logger: the steps. *)

\* Only the writer of i becomes after.
Becomes(i, after) ==
  /\ DOMAIN writers' = Instances /\ writers'[i] = after
  /\ \A j \in Instances \ {i} : writers'[j] = writers[j]

\* One writer moves: what the others have is not touched.
LEMMA WritersSoundStep ==
  ASSUME WritersSound, NEW i \in Instances, NEW after, Becomes(i, after),
         WriterSound(after), \A x \in ToSet(after.queue) \cup ToSet(after.hand) : x.instance = i,
         writers[i].closing => after.closing,
         after.closing \/ ~after.connected => Unused(i)',
         \A j \in Instances : Unused(j) => Unused(j)',
         \A r \in LogRequests : logging'[r].step = "drop" =>
           /\ logging'[r].instance \in Instances
           /\ IF logging'[r].instance = i THEN after.closing
              ELSE writers[logging'[r].instance].closing
  PROVE  WritersSound'
<1>1. ASSUME NEW j \in Instances
      PROVE  /\ WriterSound(writers'[j])
             /\ \A x \in ToSet(writers'[j].queue) \cup ToSet(writers'[j].hand) : x.instance = j
             /\ writers'[j].closing \/ ~writers'[j].connected => Unused(j)'
  <2>1. CASE j = i
    BY <2>1 DEF Becomes
  <2>2. CASE j # i
    BY <2>2 DEF Becomes, WritersSound
  <2> QED BY <2>1, <2>2
<1>2. \A r \in LogRequests : logging'[r].step = "drop" => writers'[logging'[r].instance].closing
  BY DEF Becomes
<1>3. \A j \in Instances : WriterSound(writers[j])' <=> WriterSound(writers'[j])
  BY DEF WriterSound
<1> QED BY <1>1, <1>2, <1>3 DEF WritersSound, Becomes

\* No writer moves.
LEMMA WritersSoundKept ==
  ASSUME WritersSound, writers' = writers,
         \A j \in Instances : Unused(j) => Unused(j)',
         \A r \in LogRequests : logging'[r].step = "drop" =>
           writers[logging'[r].instance].closing
  PROVE  WritersSound'
<1>1. \A j \in Instances : WriterSound(writers[j])' <=> WriterSound(writers[j])
  BY DEF WriterSound
<1> QED BY <1>1 DEF WritersSound

\* Lines stay where they are.
LEMMA LinesKeptStill ==
  ASSUME LinesKept, UNCHANGED <<logged, fileLost>>,
         \A j \in Instances : /\ writers'[j].queue = writers[j].queue
                              /\ writers'[j].hand = writers[j].hand
                              /\ writers'[j].drained = writers[j].drained,
         \A x \in Lines : Known(x, logging') <=> Known(x, logging)
  PROVE  LinesKept'
<1>1. \A x \in Lines : x.instance \in Instances
  BY DEF Lines
<1>2. fileLost["abandoned"] \in SUBSET Lines
  BY DEF LinesKept, LossReasons
<1>3. \A x \in Lines : Copies(x, writers', logged, fileLost) = Copies(x, writers, logged, fileLost)
  BY <1>1 DEF Copies
<1>4. \A x \in Lines : One(Known(x, logging')) = One(Known(x, logging))
  BY DEF One
<1> QED BY <1>1, <1>2, <1>3, <1>4 DEF LinesKept

\* Only request r moves, to next.
Turns(r, next) ==
  /\ DOMAIN logging' = LogRequests /\ logging'[r] = next
  /\ \A q \in LogRequests \ {r} : logging'[q] = logging[q]

\* An update of one request leaves the others as they are.
LEMMA TurnsOne ==
  ASSUME RequestsSound, NEW r \in LogRequests, NEW next, logging' = [logging EXCEPT ![r] = next]
  PROVE  Turns(r, next)
BY DEF Turns, RequestsSound

\* The requests stay sound when the one that moves does.
LEMMA RequestsSoundStep ==
  ASSUME RequestsSound, NEW r \in LogRequests, NEW next, Turns(r, next), current' = current,
         next \in LogRequestRecord, next.instance <= current, Prefix(next)
  PROVE  RequestsSound'
<1>1. ASSUME NEW q \in LogRequests
      PROVE  logging'[q] \in LogRequestRecord /\ logging'[q].instance <= current /\ Prefix(logging'[q])
  <2>1. CASE q = r
    BY <2>1 DEF Turns
  <2>2. CASE q # r
    BY <2>2 DEF Turns, RequestsSound
  <2> QED BY <2>1, <2>2
<1>2. \A q \in LogRequests : Prefix(logging[q])' <=> Prefix(logging'[q])
  BY DEF Prefix
<1> QED BY <1>1, <1>2 DEF RequestsSound, Turns

\* A request that has logged keeps what it logged, one that has not is unknown.
LEMMA KnownKept ==
  ASSUME NEW r \in LogRequests, NEW next, Turns(r, next),
         \/ logging[r].step \in {"new", "body"} /\ next.step \in {"new", "body"}
         \/ /\ logging[r].step \notin {"new", "body"} /\ next.step \notin {"new", "body"}
            /\ next.instance = logging[r].instance /\ next.buffer = logging[r].buffer
  PROVE  \A x \in Lines : Known(x, logging') <=> Known(x, logging)
<1> TAKE x \in Lines
<1>1. x.request \in LogRequests
  BY DEF Lines
<1>2. CASE x.request = r
  BY <1>2 DEF Known, Turns
<1>3. CASE x.request # r
  BY <1>1, <1>3 DEF Known, Turns
<1> QED BY <1>2, <1>3

\* Nobody starts to hold an instance that was replaced.
LEMMA UnusedKept ==
  ASSUME NEW r \in LogRequests, NEW next, Turns(r, next), current' = current, current \in Nat,
         next.step \in {"body", "end"} =>
           \/ next.instance = current
           \/ logging[r].step \in {"body", "end"} /\ next.instance = logging[r].instance
  PROVE  \A j \in Instances : Unused(j) => Unused(j)'
<1> SUFFICES ASSUME NEW j \in Instances, Unused(j) PROVE Unused(j)'
  OBVIOUS
<1>1. j < current /\ j \in Nat
  BY DEF Unused, Instances
<1>2. ASSUME NEW q \in LogRequests, logging'[q].step \in {"body", "end"}
      PROVE  logging'[q].instance # j
  <2>1. CASE q = r
    BY <1>1, <1>2, <2>1 DEF Turns, Unused
  <2>2. CASE q # r
    BY <1>2, <2>2 DEF Turns, Unused
  <2> QED BY <2>1, <2>2
<1> QED BY <1>1, <1>2 DEF Unused

\* The fields of a request.
LEMMA RequestFields ==
  ASSUME RequestsSound, NEW r \in LogRequests
  PROVE  /\ logging[r] = [step |-> logging[r].step, instance |-> logging[r].instance,
                          sent |-> logging[r].sent, buffer |-> logging[r].buffer]
         /\ logging[r].step \in LogSteps /\ logging[r].instance \in Instances
         /\ logging[r].sent \in Nat /\ logging[r].buffer \in [bytes : Nat, exceeded : BOOLEAN]
         /\ logging[r].instance <= current /\ Prefix(logging[r])
         /\ current \in Nat /\ logging[r].instance \in Nat
<1>1. logging[r] \in LogRequestRecord /\ logging[r].instance <= current /\ Prefix(logging[r])
      /\ current \in Instances
  BY DEF RequestsSound
<1>2. \A i \in Instances : i \in Nat
  BY DEF Instances
<1> QED BY <1>1, <1>2 DEF LogRequestRecord

\* A request moves one step on.
LEMMA StepsOn ==
  ASSUME RequestsSound, NEW r \in LogRequests, NEW step \in LogSteps, NEW next,
         next = [logging[r] EXCEPT !.step = step]
  PROVE  /\ next \in LogRequestRecord /\ Prefix(next)
         /\ next.step = step /\ next.instance = logging[r].instance
         /\ next.buffer = logging[r].buffer /\ next.instance <= current
<1>0. logging[r] = [step |-> logging[r].step, instance |-> logging[r].instance,
                  sent |-> logging[r].sent, buffer |-> logging[r].buffer]
  BY RequestFields
<1>1. next = [step |-> step, instance |-> logging[r].instance,
              sent |-> logging[r].sent, buffer |-> logging[r].buffer]
  BY <1>0, Zenon
<1>2. /\ next.step = step /\ next.instance = logging[r].instance
      /\ next.sent = logging[r].sent /\ next.buffer = logging[r].buffer
  BY ONLY <1>1
<1> QED BY <1>1, <1>2, RequestFields DEF LogRequestRecord, Prefix

\* A request pins the instance of the published snapshot.
LEMMA StartFields ==
  ASSUME NEW q, q = [step |-> q.step, instance |-> q.instance, sent |-> q.sent, buffer |-> q.buffer],
         NEW instance, NEW next, next = [q EXCEPT !.step = "body", !.instance = instance]
  PROVE  next = [step |-> "body", instance |-> instance, sent |-> q.sent, buffer |-> q.buffer]
BY Zenon

\* A request pins the published instance, which nobody can have replaced yet.
LEMMA StartKeeps ==
  ASSUME FileLogInv, NEW r \in LogRequests, LogRequestStarts(r)
  PROVE  FileLogInv'
<1> DEFINE next == [logging[r] EXCEPT !.step = "body", !.instance = current]
<1>1. RequestsSound /\ WritersSound /\ LinesKept /\ current \in Nat /\ current \in Instances
  BY DEF FileLogInv, RequestsSound, Instances
<1>2. logging[r].step = "new" /\ UNCHANGED <<current, writers, logged, fileLost>>
  BY DEF LogRequestStarts
<1>3. Turns(r, next)
  BY <1>1, TurnsOne DEF LogRequestStarts
<1>4. next = [step |-> "body", instance |-> current,
              sent |-> logging[r].sent, buffer |-> logging[r].buffer]
  <2>1. logging[r] = [step |-> logging[r].step, instance |-> logging[r].instance,
                    sent |-> logging[r].sent, buffer |-> logging[r].buffer]
    BY <1>1, RequestFields
  <2>2. next = [logging[r] EXCEPT !.step = "body", !.instance = current]
    OBVIOUS
  <2> HIDE DEF next
  <2> QED BY <2>1, <2>2, StartFields
<1> HIDE DEF next
<1>5. /\ next.step = "body" /\ next.instance = current
      /\ next.sent = logging[r].sent /\ next.buffer = logging[r].buffer
  BY <1>4
<1>6. next \in LogRequestRecord /\ Prefix(next)
  BY <1>1, <1>4, <1>5, RequestFields DEF LogRequestRecord, LogSteps, Prefix
<1>7. RequestsSound'
  BY <1>1, <1>2, <1>3, <1>5, <1>6, RequestsSoundStep
<1>8. \A j \in Instances : Unused(j) => Unused(j)'
  BY <1>1, <1>2, <1>3, <1>5, UnusedKept
<1>9. WritersSound'
  BY <1>1, <1>2, <1>3, <1>5, <1>8, WritersSoundKept DEF Turns, WritersSound
<1>10. LinesKept'
  BY <1>1, <1>2, <1>3, <1>5, KnownKept, LinesKeptStill
<1> QED BY <1>7, <1>9, <1>10 DEF FileLogInv

\* A chunk of the body changes a buffer and no line.
LEMMA ChunkKeeps ==
  ASSUME FileLogInv, NEW r \in LogRequests, NEW size \in ChunkSizes, LogBodyChunk(r, size)
  PROVE  FileLogInv'
<1> DEFINE q == logging[r]
           next == [q EXCEPT !.sent = @ + size, !.buffer = BodyAppend(@, size)]
<1>1. RequestsSound /\ WritersSound /\ LinesKept /\ current \in Nat /\ size \in Nat
  BY FileLoggerAssumption DEF FileLogInv, RequestsSound, Instances
<1>2. logging[r].step = "body" /\ UNCHANGED <<current, writers, logged, fileLost>>
  BY DEF LogBodyChunk
<1>3. Turns(r, next)
  <2>1. logging' = [logging EXCEPT ![r] = next]
    BY DEF LogBodyChunk
  <2> QED BY <1>1, <2>1, TurnsOne
<1>4. next \in LogRequestRecord /\ Prefix(next) /\ next.step = q.step /\ next.instance = q.instance
  BY <1>1, AppendPrefix DEF RequestsSound
<1> HIDE DEF next
<1>5. q.instance <= current
  BY <1>1 DEF RequestsSound
<1>7. RequestsSound'
  BY <1>1, <1>2, <1>3, <1>4, <1>5, RequestsSoundStep
<1>8. \A j \in Instances : Unused(j) => Unused(j)'
  BY <1>1, <1>2, <1>3, <1>4, UnusedKept
<1>9. WritersSound'
  BY <1>1, <1>2, <1>3, <1>4, <1>8, WritersSoundKept DEF Turns, WritersSound
<1>10. LinesKept'
  BY <1>1, <1>2, <1>3, <1>4, KnownKept, LinesKeptStill
<1> QED BY <1>7, <1>9, <1>10 DEF FileLogInv

\* Whoever can still log through an instance finds its writer connected and alive.
LEMMA HolderConnected ==
  ASSUME RequestsSound, WritersSound, NEW r \in LogRequests, logging[r].step \in {"body", "end"},
         NEW i, i = logging[r].instance
  PROVE  /\ i \in Instances /\ WriterSound(writers[i]) /\ ~Unused(i)
         /\ ~writers[i].closing /\ writers[i].connected /\ writers[i].pc # "done"
<1>1. i \in Instances
  BY RequestFields
<1>2. ~Unused(i)
  BY DEF Unused
<1>3. WriterSound(writers[i]) /\ (writers[i].closing \/ ~writers[i].connected => Unused(i))
  BY <1>1 DEF WritersSound
<1>4. writers[i].pc = "done" => (writers[i].closing \/ ~writers[i].connected)
  BY <1>3 DEF WriterSound
<1> QED BY <1>1, <1>2, <1>3, <1>4

\* The new line of a request that logs, which was nowhere before.
LEMMA NewLine ==
  ASSUME RequestsSound, LinesKept, NEW r \in LogRequests, logging[r].step = "body",
         NEW next, Turns(r, next), next.step = "end",
         next.instance = logging[r].instance, next.buffer = logging[r].buffer
  PROVE  /\ LineOf(r) \in Lines /\ LineOf(r).instance = logging[r].instance
         /\ Copies(LineOf(r), writers, logged, fileLost) = 0
         /\ Known(LineOf(r), logging')
         /\ \A x \in Lines \ {LineOf(r)} : Known(x, logging') <=> Known(x, logging)
<1> DEFINE x == LineOf(r)
<1>1. /\ x = [request |-> r, instance |-> logging[r].instance, body |-> logging[r].buffer.bytes,
              truncated |-> logging[r].buffer.exceeded]
      /\ x.request = r /\ x.instance = logging[r].instance /\ x.body = logging[r].buffer.bytes
      /\ x.truncated = logging[r].buffer.exceeded
  BY DEF LineOf
<1>2. logging[r].buffer \in [bytes : Nat, exceeded : BOOLEAN] /\ logging[r].instance \in Instances
  BY RequestFields
<1>3. x \in Lines
  BY <1>1, <1>2 DEF Lines
<1> HIDE DEF x
<1>4. ~Known(x, logging)
  BY <1>1 DEF Known
<1>5. Copies(x, writers, logged, fileLost) = 0
  BY <1>3, <1>4 DEF LinesKept, One
<1>6. Known(x, logging')
  BY <1>1 DEF Known, Turns
<1>7. ASSUME NEW y \in Lines \ {x} PROVE Known(y, logging') <=> Known(y, logging)
  <2>1. y.request \in LogRequests
    BY DEF Lines
  <2>2. y.request # r => logging'[y.request] = logging[y.request]
    BY <2>1 DEF Turns
  <2>3. CASE y.request = r
    <3>1. ~Known(y, logging)
      BY <2>3 DEF Known
    <3>2. SUFFICES ASSUME Known(y, logging') PROVE FALSE
      BY <3>1
    <3>3. y.instance = x.instance /\ y.body = x.body /\ y.truncated = x.truncated /\ y.request = x.request
      BY <1>1, <2>3, <3>2 DEF Known, Turns
    <3>4. y = [request |-> y.request, instance |-> y.instance, body |-> y.body, truncated |-> y.truncated]
      BY DEF Lines
    <3>5. x = [request |-> x.request, instance |-> x.instance, body |-> x.body, truncated |-> x.truncated]
      BY <1>3 DEF Lines
    <3>6. y = x
      BY <3>3, <3>4, <3>5, Zenon
    <3> QED BY <3>6
  <2>4. CASE y.request # r
    BY <2>2, <2>4 DEF Known
  <2> QED BY <2>3, <2>4
<1> QED BY <1>1, <1>3, <1>5, <1>6, <1>7 DEF x

\* A line of no copies is nowhere, a line of one is in one place only.
LEMMA NoCopy ==
  ASSUME NEW x, NEW w, NEW file, NEW given, Copies(x, w, file, given) = 0
  PROVE  /\ x \notin ToSet(w[x.instance].queue) /\ x \notin ToSet(w[x.instance].hand)
         /\ x \notin ToSet(file)
         /\ x \notin given["full"] /\ x \notin given["failed"] /\ x \notin given["abandoned"]
BY DEF Copies, One

\* A line is in one place once its request has logged it, and in none before.
LEMMA AtMostOne ==
  ASSUME LinesKept, NEW x \in Lines
  PROVE  /\ Copies(x, writers, logged, fileLost) = One(Known(x, logging))
         /\ One(Known(x, logging)) \in {0, 1}
         /\ x.instance \in Instances
BY DEF LinesKept, One, Lines

\* One line changes its place; all the others stay where they are.
LEMMA LinesKeptMoved ==
  ASSUME LinesKept, NEW x \in Lines,
         Distinct(logged'), fileLost' \in [LossReasons -> SUBSET Lines],
         \A y \in Lines \ {x} :
           /\ Copies(y, writers', logged', fileLost') = Copies(y, writers, logged, fileLost)
           /\ Known(y, logging') <=> Known(y, logging),
         Copies(x, writers', logged', fileLost') = One(Known(x, logging')),
         fileLost'["abandoned"] = fileLost["abandoned"],
         \A j \in Instances : writers'[j].drained = writers[j].drained
  PROVE  LinesKept'
<1>1. \A y \in Lines : Copies(y, writers', logged', fileLost') = One(Known(y, logging'))
  <2> TAKE y \in Lines
  <2>1. CASE y = x
    BY <2>1
  <2>2. CASE y # x
    BY <2>2 DEF LinesKept, One
  <2> QED BY <2>1, <2>2
<1>2. \A y \in fileLost["abandoned"] : y.instance \in Instances
  BY DEF LinesKept, LossReasons, Lines
<1> QED BY <1>1, <1>2 DEF LinesKept

\* write_line: the line goes into the queue, or is given up when that is full.
LEMMA LogKeeps ==
  ASSUME FileLogInv, NEW r \in LogRequests, LogRequest(r)
  PROVE  FileLogInv'
<1> DEFINE i == logging[r].instance
           x == LineOf(r)
           next == [logging[r] EXCEPT !.step = "end"]
<1>1. RequestsSound /\ WritersSound /\ LinesKept /\ current \in Nat
  BY DEF FileLogInv, RequestsSound, Instances
<1>2. logging[r].step = "body" /\ UNCHANGED <<current, logged>>
  BY DEF LogRequest
<1>3. Turns(r, next)
  <2>1. logging' = [logging EXCEPT ![r] = next]
    BY DEF LogRequest
  <2> QED BY <1>1, <2>1, TurnsOne
<1>4. /\ next \in LogRequestRecord /\ Prefix(next) /\ next.step = "end"
      /\ next.instance = logging[r].instance
      /\ next.buffer = logging[r].buffer /\ next.instance <= current
  BY <1>1, StepsOn DEF LogSteps
<1> HIDE DEF next
<1>5. RequestsSound'
  BY <1>1, <1>2, <1>3, <1>4, RequestsSoundStep
<1>6. \A j \in Instances : Unused(j) => Unused(j)'
  BY <1>1, <1>2, <1>3, <1>4, UnusedKept
<1>7. /\ x \in Lines /\ x.instance = i /\ Copies(x, writers, logged, fileLost) = 0
      /\ Known(x, logging') /\ \A y \in Lines \ {x} : Known(y, logging') <=> Known(y, logging)
  BY <1>1, <1>2, <1>3, <1>4, NewLine
<1>8. /\ i \in Instances /\ WriterSound(writers[i]) /\ ~Unused(i)
      /\ ~writers[i].closing /\ writers[i].connected /\ writers[i].pc # "done"
  BY <1>1, <1>2, HolderConnected
<1>9. /\ x \notin ToSet(writers[i].queue) /\ x \notin ToSet(writers[i].hand)
      /\ x \notin ToSet(logged)
      /\ x \notin fileLost["full"] /\ x \notin fileLost["failed"] /\ x \notin fileLost["abandoned"]
  BY <1>7, NoCopy
<1>10. \A q \in LogRequests : logging'[q].step = "drop" =>
         logging[q].step = "drop" /\ logging'[q].instance = logging[q].instance
  BY <1>3, <1>4 DEF Turns
<1>11. One(Known(x, logging')) = 1
  BY <1>7 DEF One
<1>12. Distinct(logged') /\ fileLost \in [LossReasons -> SUBSET Lines]
  BY <1>1, <1>2 DEF LinesKept
<1>13. CASE writers' = [writers EXCEPT ![i].queue = Append(@, x)] /\ UNCHANGED fileLost
  <2> DEFINE w == writers[i]
             after == [w EXCEPT !.queue = Append(@, x)]
  <2>1. Becomes(i, after)
    BY <1>1, <1>8, <1>13 DEF Becomes, WritersSound
  <2>2. /\ WriterSound(after) /\ ToSet(after.queue) = ToSet(w.queue) \cup {x}
        /\ after.hand = w.hand /\ after.closing = w.closing /\ after.connected = w.connected
        /\ after.drained = w.drained
    <3>1. WriterSound(w) /\ w.pc # "done" /\ x \in Lines /\ x \notin ToSet(w.queue)
      BY <1>7, <1>8, <1>9
    <3> HIDE DEF w, x
    <3> QED BY <3>1, PushSound
  <2> HIDE DEF w, after, x, i
  <2>3. \A y \in ToSet(after.queue) \cup ToSet(after.hand) : y.instance = i
    BY <1>1, <1>7, <1>8, <2>2 DEF WritersSound, w
  <2>4. \A q \in LogRequests : logging'[q].step = "drop" =>
          /\ logging'[q].instance \in Instances
          /\ IF logging'[q].instance = i THEN after.closing
             ELSE writers[logging'[q].instance].closing
    BY <1>1, <1>10, <2>2, RequestFields DEF WritersSound, w
  <2>5. WritersSound'
    BY <1>1, <1>6, <1>8, <2>1, <2>2, <2>3, <2>4, WritersSoundStep DEF w
  <2>6. \A j \in Instances : writers'[j].drained = writers[j].drained
    BY <2>1, <2>2 DEF Becomes, w
  <2>7. ASSUME NEW y \in Lines \ {x}
        PROVE  Copies(y, writers', logged', fileLost') = Copies(y, writers, logged, fileLost)
    <3>1. y.instance \in Instances
      BY DEF Lines
    <3>2. /\ y \in ToSet(writers'[y.instance].queue) <=> y \in ToSet(writers[y.instance].queue)
          /\ y \in ToSet(writers'[y.instance].hand) <=> y \in ToSet(writers[y.instance].hand)
      BY <2>1, <2>2, <3>1 DEF Becomes, w
    <3> QED BY <1>2, <1>13, <3>2 DEF Copies, One
  <2>8. Copies(x, writers', logged', fileLost') = 1
    <3>1. /\ x \in ToSet(writers'[x.instance].queue)
          /\ x \notin ToSet(writers'[x.instance].hand)
      BY <1>7, <1>9, <2>1, <2>2 DEF Becomes, w
    <3> QED BY <1>2, <1>9, <1>13, <3>1 DEF Copies, One
  <2>9. LinesKept'
    BY <1>1, <1>7, <1>11, <1>12, <1>13, <2>6, <2>7, <2>8, LinesKeptMoved
  <2> QED BY <1>5, <2>5, <2>9 DEF FileLogInv
<1>14. CASE fileLost' = [fileLost EXCEPT !["full"] = @ \cup {x}] /\ UNCHANGED writers
  <2> HIDE DEF x, i
  <2>1. /\ fileLost'["full"] = fileLost["full"] \cup {x}
        /\ fileLost'["failed"] = fileLost["failed"]
        /\ fileLost'["abandoned"] = fileLost["abandoned"]
        /\ fileLost' \in [LossReasons -> SUBSET Lines]
    BY <1>7, <1>12, <1>14 DEF LossReasons
  <2>2. WritersSound'
    BY <1>1, <1>6, <1>10, <1>14, WritersSoundKept DEF WritersSound
  <2>3. \A y \in Lines \ {x} :
          Copies(y, writers', logged', fileLost') = Copies(y, writers, logged, fileLost)
    BY <1>2, <1>14, <2>1 DEF Copies, One
  <2>4. Copies(x, writers', logged', fileLost') = 1
    BY <1>2, <1>7, <1>9, <1>14, <2>1 DEF Copies, One
  <2>5. LinesKept'
    BY <1>1, <1>7, <1>11, <1>12, <1>14, <2>1, <2>3, <2>4, LinesKeptMoved
  <2> QED BY <1>5, <2>2, <2>5 DEF FileLogInv
<1> QED BY <1>13, <1>14 DEF LogRequest

\* Release, the flag of the destructor, its sender and its join: a request that has
\* logged moves on, and of its writer at most the flags change.
LEMMA FlagsKeep ==
  ASSUME FileLogInv, NEW r \in LogRequests, NEW step \in {"drop", "join", "done"},
         logging[r].step \in {"end", "drop", "join"}, logging' = [logging EXCEPT ![r].step = step],
         UNCHANGED <<current, logged, fileLost>>,
         NEW i, i = logging[r].instance,
         NEW closing \in BOOLEAN, NEW connected \in BOOLEAN,
         writers[i].closing => closing, connected => writers[i].connected,
         step = "drop" => closing,
         closing \/ ~connected => Unused(i)',
         NEW after,
         after = [queue |-> writers[i].queue, closing |-> closing, connected |-> connected,
                  pc |-> writers[i].pc, hand |-> writers[i].hand,
                  closingSeen |-> writers[i].closingSeen, drained |-> writers[i].drained,
                  writesAfterClose |-> writers[i].writesAfterClose],
         Becomes(i, after)
  PROVE  FileLogInv'
<1> DEFINE next == [logging[r] EXCEPT !.step = step]
<1>1. RequestsSound /\ WritersSound /\ LinesKept /\ current \in Nat /\ i \in Instances
  BY RequestFields DEF FileLogInv, RequestsSound, Instances
<1>2. Turns(r, next)
  <2>1. logging' = [logging EXCEPT ![r] = next]
    OBVIOUS
  <2> QED BY <1>1, <2>1, TurnsOne
<1>3. /\ next \in LogRequestRecord /\ Prefix(next) /\ next.step = step
      /\ next.instance = logging[r].instance
      /\ next.buffer = logging[r].buffer /\ next.instance <= current
  BY <1>1, StepsOn DEF LogSteps
<1> HIDE DEF next
<1>4. RequestsSound'
  BY <1>1, <1>2, <1>3, RequestsSoundStep
<1>5. \A j \in Instances : Unused(j) => Unused(j)'
  BY <1>1, <1>2, <1>3, UnusedKept
<1>6. WriterSound(writers[i])
  BY <1>1 DEF WritersSound
<1>7. /\ WriterSound(after) /\ after.queue = writers[i].queue /\ after.hand = writers[i].hand
      /\ after.closing = closing /\ after.connected = connected /\ after.drained = writers[i].drained
  BY <1>6, FlagsSound
<1>8. \A q \in LogRequests : logging'[q].step = "drop" =>
        /\ logging'[q].instance \in Instances
        /\ IF logging'[q].instance = i THEN after.closing
           ELSE writers[logging'[q].instance].closing
  <2> TAKE q \in LogRequests
  <2> HAVE logging'[q].step = "drop"
  <2>1. CASE q = r
    BY <1>1, <1>2, <1>3, <1>7, <2>1 DEF Turns
  <2>2. CASE q # r
    <3>1. logging'[q] = logging[q] /\ logging[q].instance \in Instances
      BY <1>1, <1>2, <2>2, RequestFields DEF Turns
    <3>2. writers[logging[q].instance].closing
      BY <1>1, <3>1 DEF WritersSound
    <3> QED BY <1>7, <3>1, <3>2
  <2> QED BY <2>1, <2>2
<1>9. \A x \in ToSet(after.queue) \cup ToSet(after.hand) : x.instance = i
  BY <1>1, <1>7 DEF WritersSound
<1>10. WritersSound'
  BY <1>1, <1>5, <1>7, <1>8, <1>9, WritersSoundStep
<1>11. \A x \in Lines : Known(x, logging') <=> Known(x, logging)
  BY <1>2, <1>3, KnownKept
<1>12. \A j \in Instances : /\ writers'[j].queue = writers[j].queue
                            /\ writers'[j].hand = writers[j].hand
                            /\ writers'[j].drained = writers[j].drained
  BY <1>7 DEF Becomes
<1>13. LinesKept'
  BY <1>1, <1>11, <1>12, LinesKeptStill
<1> QED BY <1>4, <1>10, <1>13 DEF FileLogInv

\* The writer of i with other flags.
LEMMA WriterFlags ==
  ASSUME WritersSound, NEW i \in Instances
  PROVE  /\ WriterSound(writers[i])
         /\ writers[i].closing \in BOOLEAN /\ writers[i].connected \in BOOLEAN
         /\ writers' = writers => Becomes(i, writers[i])
         /\ writers[i] = [queue |-> writers[i].queue, closing |-> writers[i].closing,
                          connected |-> writers[i].connected, pc |-> writers[i].pc,
                          hand |-> writers[i].hand, closingSeen |-> writers[i].closingSeen,
                          drained |-> writers[i].drained,
                          writesAfterClose |-> writers[i].writesAfterClose]
<1>1. WriterSound(writers[i]) /\ DOMAIN writers = Instances
  BY DEF WritersSound
<1> QED BY <1>1 DEF WriterSound, Becomes

\* The last holder of a replaced instance sets the flag of its writer: nobody else can
\* log through it.
LEMMA ReleaseKeeps ==
  ASSUME FileLogInv, NEW r \in LogRequests, Release(r)
  PROVE  FileLogInv'
<1>0. PICK i : i = logging[r].instance
  OBVIOUS
<1> DEFINE last == i # current /\ Holders(i) = {r}
<1>1. RequestsSound /\ WritersSound /\ current \in Nat /\ i \in Instances /\ i \in Nat /\ i <= current
  BY <1>0, RequestFields DEF FileLogInv, RequestsSound, Instances
<1>2. logging[r].step = "end" /\ UNCHANGED <<current, logged, fileLost>>
  BY DEF Release
<1>3. /\ writers[i].closing \in BOOLEAN /\ writers[i].connected \in BOOLEAN
      /\ writers' = writers => Becomes(i, writers[i])
      /\ writers[i] = [queue |-> writers[i].queue, closing |-> writers[i].closing,
                       connected |-> writers[i].connected, pc |-> writers[i].pc,
                       hand |-> writers[i].hand, closingSeen |-> writers[i].closingSeen,
                       drained |-> writers[i].drained,
                       writesAfterClose |-> writers[i].writesAfterClose]
      /\ DOMAIN writers = Instances
  BY <1>1, WriterFlags DEF WritersSound
<1>4. ~writers[i].closing /\ writers[i].connected
  BY <1>0, <1>1, <1>2, HolderConnected
<1>5. CASE last
  <2> DEFINE after ==
        [queue |-> writers[i].queue, closing |-> TRUE, connected |-> writers[i].connected,
         pc |-> writers[i].pc, hand |-> writers[i].hand,
         closingSeen |-> writers[i].closingSeen, drained |-> writers[i].drained,
         writesAfterClose |-> writers[i].writesAfterClose]
  <2>1. logging' = [logging EXCEPT ![r].step = "drop"] /\ writers' = [writers EXCEPT ![i].closing = TRUE]
    BY <1>0, <1>5 DEF Release
  <2>2. Becomes(i, after)
    <3>1. writers'[i] = [writers[i] EXCEPT !.closing = TRUE]
      BY <1>1, <1>3, <2>1
    <3>2. writers'[i] = after
      BY <1>3, <3>1, Zenon
    <3> QED BY <1>3, <2>1, <3>2 DEF Becomes
  <2>3. Unused(i)'
    <3>1. i < current'
      BY <1>1, <1>2, <1>5
    <3>2. ASSUME NEW q \in LogRequests, logging'[q].step \in {"body", "end"} PROVE logging'[q].instance # i
      <4>1. q # r
        BY <1>1, <2>1, <3>2 DEF RequestsSound
      <4>2. logging'[q] = logging[q]
        BY <1>1, <2>1, <4>1 DEF RequestsSound
      <4>3. q \notin Holders(i)
        BY <1>5, <4>1
      <4> QED BY <3>2, <4>2, <4>3 DEF Holders
    <3> QED BY <3>1, <3>2 DEF Unused
  <2> QED BY <1>0, <1>2, <1>3, <2>1, <2>2, <2>3, FlagsKeep
<1>6. CASE ~last
  <2>1. logging' = [logging EXCEPT ![r].step = "done"] /\ writers' = writers
    BY <1>0, <1>6 DEF Release
  <2>2. Becomes(i, writers[i])
    BY <1>3, <2>1
  <2> QED BY <1>0, <1>2, <1>3, <1>4, <2>1, <2>2, FlagsKeep
<1> QED BY <1>5, <1>6

\* The sender is dropped after the flag was set.
LEMMA DropKeeps ==
  ASSUME FileLogInv, NEW r \in LogRequests, DropSender(r)
  PROVE  FileLogInv'
<1>0. PICK i : i = logging[r].instance
  OBVIOUS
<1> DEFINE after ==
             [queue |-> writers[i].queue, closing |-> writers[i].closing, connected |-> FALSE,
              pc |-> writers[i].pc, hand |-> writers[i].hand,
              closingSeen |-> writers[i].closingSeen, drained |-> writers[i].drained,
              writesAfterClose |-> writers[i].writesAfterClose]
<1>1. RequestsSound /\ WritersSound /\ i \in Instances
  BY <1>0, RequestFields DEF FileLogInv
<1>2. /\ logging[r].step = "drop" /\ UNCHANGED <<current, logged, fileLost>>
      /\ logging' = [logging EXCEPT ![r].step = "join"]
      /\ writers' = [writers EXCEPT ![i].connected = FALSE]
  BY <1>0 DEF DropSender
<1>3. /\ writers[i].closing \in BOOLEAN /\ writers[i].connected \in BOOLEAN
      /\ writers[i] = [queue |-> writers[i].queue, closing |-> writers[i].closing,
                       connected |-> writers[i].connected, pc |-> writers[i].pc,
                       hand |-> writers[i].hand, closingSeen |-> writers[i].closingSeen,
                       drained |-> writers[i].drained,
                       writesAfterClose |-> writers[i].writesAfterClose]
      /\ DOMAIN writers = Instances
  BY <1>1, WriterFlags DEF WritersSound
<1>4. Becomes(i, after)
  <2>1. writers'[i] = [writers[i] EXCEPT !.connected = FALSE]
    BY <1>1, <1>2, <1>3
  <2>2. writers'[i] = after
    BY <1>3, <2>1, Zenon
  <2> QED BY <1>2, <1>3, <2>2 DEF Becomes
<1>5. Unused(i)'
  <2>1. writers[i].closing /\ Unused(i)
    BY <1>0, <1>1, <1>2 DEF WritersSound
  <2>2. ASSUME NEW q \in LogRequests, logging'[q].step \in {"body", "end"} PROVE logging'[q].instance # i
    <3>1. q # r
      BY <1>1, <1>2, <2>2 DEF RequestsSound
    <3>2. logging'[q] = logging[q]
      BY <1>1, <1>2, <3>1 DEF RequestsSound
    <3> QED BY <2>1, <2>2, <3>2 DEF Unused
  <2> QED BY <1>2, <2>1, <2>2 DEF Unused
<1> HIDE DEF after
<1> QED BY <1>0, <1>2, <1>3, <1>4, <1>5, FlagsKeep DEF after

\* The join only waits.
LEMMA JoinKeeps ==
  ASSUME FileLogInv, NEW r \in LogRequests, JoinWriter(r)
  PROVE  FileLogInv'
<1> DEFINE i == logging[r].instance
<1>1. RequestsSound /\ WritersSound /\ LinesKept /\ current \in Nat /\ i \in Instances
  BY RequestFields DEF FileLogInv, RequestsSound, Instances
<1>2. /\ logging[r].step = "join" /\ UNCHANGED <<current, writers, logged, fileLost>>
      /\ logging' = [logging EXCEPT ![r].step = "done"]
  BY DEF JoinWriter
<1> DEFINE next == [logging[r] EXCEPT !.step = "done"]
<1>3. Turns(r, next)
  BY <1>1, <1>2, TurnsOne
<1>4. /\ next \in LogRequestRecord /\ Prefix(next) /\ next.step = "done"
      /\ next.instance = logging[r].instance
      /\ next.buffer = logging[r].buffer /\ next.instance <= current
  BY <1>1, StepsOn DEF LogSteps
<1> HIDE DEF next
<1>5. RequestsSound'
  BY <1>1, <1>2, <1>3, <1>4, RequestsSoundStep
<1>6. \A j \in Instances : Unused(j) => Unused(j)'
  BY <1>1, <1>2, <1>3, <1>4, UnusedKept
<1>7. WritersSound'
  BY <1>1, <1>2, <1>3, <1>4, <1>6, WritersSoundKept DEF Turns, WritersSound
<1>8. LinesKept'
  BY <1>1, <1>2, <1>3, <1>4, KnownKept, LinesKeptStill
<1> QED BY <1>5, <1>7, <1>8 DEF FileLogInv

\* A reload without a request in flight runs the destructor of the replaced instance.
LEMMA ReloadKeeps ==
  ASSUME FileLogInv, Reload
  PROVE  FileLogInv'
<1>0. PICK c : c = current
  OBVIOUS
<1>1. /\ RequestsSound /\ WritersSound /\ LinesKept
      /\ c \in Instances /\ c \in Nat /\ ReloadedInstances \in Nat
  BY <1>0, FileLoggerAssumption DEF FileLogInv, RequestsSound, Instances
<1>2. c < ReloadedInstances /\ current' = c + 1 /\ UNCHANGED <<logging, logged, fileLost>>
  BY <1>0 DEF Reload
<1>3. \A j \in Instances : Unused(j) => Unused(j)'
  <2> SUFFICES ASSUME NEW j \in Instances, Unused(j) PROVE Unused(j)'
    OBVIOUS
  <2>1. j < current'
    BY <1>0, <1>1, <1>2 DEF Unused, Instances
  <2> QED BY <1>2, <2>1 DEF Unused
<1>4. RequestsSound'
  <2>1. current' \in Instances
    BY <1>1, <1>2 DEF Instances
  <2>2. ASSUME NEW q \in LogRequests
        PROVE  logging'[q] \in LogRequestRecord /\ logging'[q].instance <= current' /\ Prefix(logging'[q])
    <3>1. logging[q] \in LogRequestRecord /\ logging[q].instance <= c /\ Prefix(logging[q])
      BY <1>0, <1>1 DEF RequestsSound
    <3>2. logging[q].instance \in Nat
      BY <1>1, RequestFields
    <3> QED BY <1>1, <1>2, <3>1, <3>2
  <2>3. \A q \in LogRequests : Prefix(logging[q])' <=> Prefix(logging'[q])
    BY DEF Prefix
  <2> QED BY <1>1, <1>2, <2>1, <2>2, <2>3 DEF RequestsSound
<1>5. \A x \in Lines : Known(x, logging') <=> Known(x, logging)
  BY <1>2
<1>6. CASE Holders(current) = {}
  <2> DEFINE after ==
        [queue |-> writers[c].queue, closing |-> TRUE, connected |-> FALSE,
         pc |-> writers[c].pc, hand |-> writers[c].hand,
         closingSeen |-> writers[c].closingSeen, drained |-> writers[c].drained,
         writesAfterClose |-> writers[c].writesAfterClose]
  <2>1. /\ WriterSound(writers[c]) /\ DOMAIN writers = Instances
        /\ writers[c].closing \in BOOLEAN /\ writers[c].connected \in BOOLEAN
        /\ writers[c] = [queue |-> writers[c].queue, closing |-> writers[c].closing,
                         connected |-> writers[c].connected, pc |-> writers[c].pc,
                         hand |-> writers[c].hand, closingSeen |-> writers[c].closingSeen,
                         drained |-> writers[c].drained,
                         writesAfterClose |-> writers[c].writesAfterClose]
    BY <1>1, WriterFlags DEF WritersSound
  <2>2. Becomes(c, after)
    <3>1. writers' = [writers EXCEPT ![c].closing = TRUE, ![c].connected = FALSE]
      BY <1>0, <1>6 DEF Reload
    <3>2. writers'[c] = [writers[c] EXCEPT !.closing = TRUE, !.connected = FALSE]
      BY <1>1, <2>1, <3>1
    <3>3. writers'[c] = after
      BY <2>1, <3>2, Zenon
    <3>4. DOMAIN writers' = Instances /\ \A j \in Instances \ {c} : writers'[j] = writers[j]
      BY <2>1, <3>1
    <3> QED BY <3>3, <3>4 DEF Becomes
  <2>3. Unused(c)'
    <3>1. \A q \in LogRequests : logging'[q].step \in {"body", "end"} => logging'[q].instance # c
      BY <1>0, <1>2, <1>6 DEF Holders
    <3> QED BY <1>1, <1>2, <3>1 DEF Unused
  <2>4. /\ WriterSound(after) /\ after.queue = writers[c].queue /\ after.hand = writers[c].hand
        /\ after.closing = TRUE /\ after.connected = FALSE /\ after.drained = writers[c].drained
    <3>1. PICK closing \in BOOLEAN : closing = TRUE
      OBVIOUS
    <3>2. PICK connected \in BOOLEAN : connected = FALSE
      OBVIOUS
    <3>3. PICK w : w = writers[c]
      OBVIOUS
    <3>4. after = [queue |-> w.queue, closing |-> closing, connected |-> connected, pc |-> w.pc,
                   hand |-> w.hand, closingSeen |-> w.closingSeen, drained |-> w.drained,
                   writesAfterClose |-> w.writesAfterClose]
      BY <3>1, <3>2, <3>3
    <3>5. WriterSound(w) /\ (w.closing => closing) /\ (connected => w.connected)
      BY <2>1, <3>1, <3>2, <3>3
    <3> HIDE DEF after
    <3>6. /\ WriterSound(after) /\ after.queue = w.queue /\ after.hand = w.hand
          /\ after.closing = closing /\ after.connected = connected /\ after.drained = w.drained
      BY <3>4, <3>5, FlagsSound
    <3> QED BY <3>1, <3>2, <3>3, <3>6
  <2> HIDE DEF after
  <2>5. \A x \in ToSet(after.queue) \cup ToSet(after.hand) : x.instance = c
    BY <1>1, <2>4 DEF WritersSound
  <2>6. \A q \in LogRequests : logging'[q].step = "drop" =>
          /\ logging'[q].instance \in Instances
          /\ IF logging'[q].instance = c THEN after.closing
             ELSE writers[logging'[q].instance].closing
    BY <1>1, <1>2, <2>4, RequestFields DEF WritersSound
  <2>7. WritersSound'
    BY <1>1, <1>3, <2>2, <2>3, <2>4, <2>5, <2>6, WritersSoundStep
  <2>8. \A j \in Instances : /\ writers'[j].queue = writers[j].queue
                             /\ writers'[j].hand = writers[j].hand
                             /\ writers'[j].drained = writers[j].drained
    BY <2>2, <2>4 DEF Becomes
  <2>9. LinesKept'
    BY <1>1, <1>2, <1>5, <2>8, LinesKeptStill
  <2> QED BY <1>4, <2>7, <2>9 DEF FileLogInv
<1>7. CASE Holders(current) # {}
  <2>1. writers' = writers
    BY <1>7 DEF Reload
  <2>2. \A q \in LogRequests : logging'[q].step = "drop" => writers[logging'[q].instance].closing
    BY <1>1, <1>2 DEF WritersSound
  <2>3. WritersSound'
    BY <1>1, <1>3, <2>1, <2>2, WritersSoundKept
  <2>4. LinesKept'
    BY <1>1, <1>2, <1>5, <2>1, LinesKeptStill
  <2> QED BY <1>4, <2>3, <2>4 DEF FileLogInv
<1> QED BY <1>6, <1>7

\* A step of one writer leaves the requests alone and takes no foreign line.
LEMMA WriterOnly ==
  ASSUME FileLogInv, NEW i \in Instances, NEW after, Becomes(i, after), WriterSound(after),
         \A x \in ToSet(after.queue) \cup ToSet(after.hand) :
           x \in ToSet(writers[i].queue) \cup ToSet(writers[i].hand),
         after.closing = writers[i].closing, after.connected = writers[i].connected,
         UNCHANGED <<current, logging>>
  PROVE  /\ RequestsSound' /\ WritersSound'
         /\ \A x \in Lines : Known(x, logging') <=> Known(x, logging)
<1>1. RequestsSound /\ WritersSound
  BY DEF FileLogInv
<1>2. RequestsSound'
  <2>1. \A q \in LogRequests : Prefix(logging[q])' <=> Prefix(logging[q])
    BY DEF Prefix
  <2> QED BY <1>1, <2>1 DEF RequestsSound
<1>3. \A j \in Instances : Unused(j)' <=> Unused(j)
  BY DEF Unused
<1>4. \A x \in ToSet(after.queue) \cup ToSet(after.hand) : x.instance = i
  BY <1>1 DEF WritersSound
<1>5. \A r \in LogRequests : logging'[r].step = "drop" =>
        /\ logging'[r].instance \in Instances
        /\ IF logging'[r].instance = i THEN after.closing
           ELSE writers[logging'[r].instance].closing
  BY <1>1, RequestFields DEF WritersSound
<1>6. after.closing \/ ~after.connected => Unused(i)'
  BY <1>1, <1>3 DEF WritersSound
<1>7. WritersSound'
  BY <1>1, <1>3, <1>4, <1>5, <1>6, WritersSoundStep
<1> QED BY <1>2, <1>7

\* Every line has as many places as before.
LEMMA LinesKeptStep ==
  ASSUME LinesKept, Distinct(logged'), fileLost' \in [LossReasons -> SUBSET Lines],
         \A y \in Lines :
           /\ Copies(y, writers', logged', fileLost') = Copies(y, writers, logged, fileLost)
           /\ Known(y, logging') <=> Known(y, logging),
         \A y \in fileLost'["abandoned"] : writers'[y.instance].drained = DrainBudget
  PROVE  LinesKept'
BY DEF LinesKept, One

\* recv: the first line of the queue is taken in hand.
LEMMA ReceivesKeeps ==
  ASSUME FileLogInv, NEW i \in Instances, WriterReceives(i)
  PROVE  FileLogInv'
<1>0. PICK w : w = writers[i]
  OBVIOUS
<1> DEFINE after == [w EXCEPT !.queue = Tail(@), !.hand = <<Head(w.queue)>>, !.pc = "write"]
<1>1. WritersSound /\ LinesKept /\ WriterSound(w) /\ DOMAIN writers = Instances
  BY <1>0 DEF FileLogInv, WritersSound
<1>2. /\ w.pc = "recv" /\ w.queue # <<>> /\ UNCHANGED <<current, logging, logged, fileLost>>
      /\ writers' = [writers EXCEPT ![i] = after]
  BY <1>0 DEF WriterReceives
<1>3. Becomes(i, after)
  BY <1>1, <1>2 DEF Becomes
<1>4. /\ WriterSound(after)
      /\ after.queue = Tail(w.queue) /\ after.hand = <<Head(w.queue)>>
      /\ after.closing = w.closing /\ after.connected = w.connected /\ after.drained = w.drained
  BY <1>1, <1>2, ReceiveSound
<1> HIDE DEF after
<1>5. /\ ToSet(after.queue) = ToSet(w.queue) \ {Head(w.queue)}
      /\ ToSet(after.hand) = {Head(w.queue)} /\ Head(w.queue) \in ToSet(w.queue)
  BY <1>1, <1>2, <1>4, TailDistinct, SmallSets DEF WriterSound
<1>6. ToSet(w.hand) = {}
  <2>1. w.hand = <<>>
    BY <1>1, <1>2 DEF WriterSound
  <2> QED BY <2>1, SmallSets
<1>7. /\ RequestsSound' /\ WritersSound'
      /\ \A x \in Lines : Known(x, logging') <=> Known(x, logging)
  BY <1>0, <1>2, <1>3, <1>4, <1>5, WriterOnly
<1>8. ASSUME NEW y \in Lines
      PROVE  Copies(y, writers', logged', fileLost') = Copies(y, writers, logged, fileLost)
  <2>1. y.instance \in Instances
    BY DEF Lines
  <2>2. CASE y.instance # i
    <3>1. writers'[y.instance] = writers[y.instance]
      BY <1>3, <2>1, <2>2 DEF Becomes
    <3> QED BY <1>2, <3>1 DEF Copies
  <2>3. CASE y.instance = i
    <3>1. /\ writers'[y.instance] = after /\ writers[y.instance] = w
      BY <1>0, <1>3, <2>3 DEF Becomes
    <3>2. CASE y = Head(w.queue)
      <4>1. /\ y \in ToSet(w.queue) /\ y \notin ToSet(w.hand)
            /\ y \notin ToSet(after.queue) /\ y \in ToSet(after.hand)
        BY <1>5, <1>6, <3>2
      <4> QED BY <1>2, <3>1, <4>1 DEF Copies, One
    <3>3. CASE y # Head(w.queue)
      <4>1. /\ y \in ToSet(w.queue) <=> y \in ToSet(after.queue)
            /\ y \notin ToSet(w.hand) /\ y \notin ToSet(after.hand)
        BY <1>5, <1>6, <3>3
      <4> QED BY <1>2, <3>1, <4>1 DEF Copies, One
    <3> QED BY <3>2, <3>3
  <2> QED BY <2>2, <2>3
<1>9. \A y \in fileLost'["abandoned"] : writers'[y.instance].drained = DrainBudget
  <2>1. \A y \in fileLost["abandoned"] : y.instance \in Instances
    BY <1>1 DEF LinesKept, LossReasons, Lines
  <2>2. \A j \in Instances : writers'[j].drained = writers[j].drained
    BY <1>0, <1>3, <1>4 DEF Becomes
  <2> QED BY <1>1, <1>2, <2>1, <2>2 DEF LinesKept
<1>10. Distinct(logged') /\ fileLost' \in [LossReasons -> SUBSET Lines]
  BY <1>1, <1>2 DEF LinesKept
<1>11. LinesKept'
  BY <1>1, <1>7, <1>8, <1>9, <1>10, LinesKeptStep
<1> QED BY <1>7, <1>11 DEF FileLogInv

\* write_all: the line in hand is in the file, or reported as failed.
LEMMA WritesKeeps ==
  ASSUME FileLogInv, NEW i \in Instances, WriterWrites(i)
  PROVE  FileLogInv'
<1>0. PICK w : w = writers[i]
  OBVIOUS
<1> DEFINE after == Written(w)
<1>1. WritersSound /\ LinesKept /\ WriterSound(w) /\ DOMAIN writers = Instances
  BY <1>0 DEF FileLogInv, WritersSound
<1>2. w.pc = "write" /\ UNCHANGED <<current, logging>> /\ writers' = [writers EXCEPT ![i] = after]
  BY <1>0 DEF WriterWrites, Written
<1>3. Becomes(i, after)
  BY <1>1, <1>2 DEF Becomes
<1>4. /\ WriterSound(after) /\ after.queue = w.queue /\ after.hand = <<>>
      /\ after.closing = w.closing /\ after.connected = w.connected /\ after.drained = w.drained
  BY <1>1, <1>2, WriteSound
<1> HIDE DEF after
<1>5. PICK x \in Lines : w.hand = <<x>>
  BY <1>1, <1>2 DEF WriterSound
<1>6. ToSet(w.hand) = {x} /\ ToSet(after.hand) = {} /\ ToSet(after.queue) = ToSet(w.queue)
  BY <1>4, <1>5, SmallSets
<1>7. x.instance = i
  BY <1>0, <1>1, <1>6 DEF WritersSound
<1>8. /\ RequestsSound' /\ WritersSound'
      /\ \A y \in Lines : Known(y, logging') <=> Known(y, logging)
  BY <1>0, <1>2, <1>3, <1>4, <1>6, WriterOnly
<1>9. /\ x \notin ToSet(w.queue) /\ x \notin ToSet(logged)
      /\ x \notin fileLost["full"] /\ x \notin fileLost["failed"] /\ x \notin fileLost["abandoned"]
      /\ Copies(x, writers, logged, fileLost) = 1
  <2>1. Copies(x, writers, logged, fileLost) \in {0, 1}
    BY <1>1, AtMostOne
  <2>2. x \in ToSet(writers[x.instance].hand) /\ writers[x.instance] = w
    BY <1>0, <1>6, <1>7
  <2> QED BY <2>1, <2>2 DEF Copies, One
<1>10. \A j \in Instances : writers'[j].drained = writers[j].drained
  BY <1>0, <1>3, <1>4 DEF Becomes
<1>11. Distinct(logged) /\ fileLost \in [LossReasons -> SUBSET Lines]
  BY <1>1 DEF LinesKept
<1>12. ASSUME NEW y \in Lines \ {x}
       PROVE  /\ y \in ToSet(writers'[y.instance].queue) <=> y \in ToSet(writers[y.instance].queue)
              /\ y \in ToSet(writers'[y.instance].hand) <=> y \in ToSet(writers[y.instance].hand)
  <2>1. y.instance \in Instances
    BY DEF Lines
  <2>2. CASE y.instance = i
    BY <1>0, <1>3, <1>6, <2>2 DEF Becomes
  <2>3. CASE y.instance # i
    BY <1>3, <2>1, <2>3 DEF Becomes
  <2> QED BY <2>2, <2>3
<1>13. x \notin ToSet(writers'[x.instance].queue) /\ x \notin ToSet(writers'[x.instance].hand)
  BY <1>3, <1>6, <1>7, <1>9 DEF Becomes
<1>14. One(Known(x, logging')) = 1
  <2>1. One(Known(x, logging)) = 1
    BY <1>1, <1>9, AtMostOne
  <2> QED BY <1>8, <2>1 DEF One
<1>15. CASE logged' = logged \o w.hand /\ UNCHANGED fileLost
  <2>1. Distinct(logged') /\ ToSet(logged') = ToSet(logged) \cup {x}
    BY <1>5, <1>9, <1>11, <1>15, WriteDistinct
  <2>2. \A y \in Lines \ {x} :
          Copies(y, writers', logged', fileLost') = Copies(y, writers, logged, fileLost)
    BY <1>12, <1>15, <2>1 DEF Copies, One
  <2>3. Copies(x, writers', logged', fileLost') = 1
    BY <1>9, <1>13, <1>15, <2>1 DEF Copies, One
  <2>4. LinesKept'
    BY <1>1, <1>8, <1>10, <1>11, <1>14, <1>15, <2>1, <2>2, <2>3, LinesKeptMoved
  <2> QED BY <1>8, <2>4 DEF FileLogInv
<1>16. CASE /\ fileLost' = [fileLost EXCEPT !["failed"] = @ \cup ToSet(w.hand)]
            /\ UNCHANGED logged
  <2>1. /\ fileLost'["full"] = fileLost["full"]
        /\ fileLost'["failed"] = fileLost["failed"] \cup {x}
        /\ fileLost'["abandoned"] = fileLost["abandoned"]
        /\ fileLost' \in [LossReasons -> SUBSET Lines]
    BY <1>6, <1>11, <1>16 DEF LossReasons
  <2>2. \A y \in Lines \ {x} :
          Copies(y, writers', logged', fileLost') = Copies(y, writers, logged, fileLost)
    BY <1>12, <1>16, <2>1 DEF Copies, One
  <2>3. Copies(x, writers', logged', fileLost') = 1
    BY <1>9, <1>13, <1>16, <2>1 DEF Copies, One
  <2>4. LinesKept'
    BY <1>1, <1>8, <1>10, <1>11, <1>14, <1>16, <2>1, <2>2, <2>3, LinesKeptMoved
  <2> QED BY <1>8, <2>4 DEF FileLogInv
<1> QED BY <1>0, <1>15, <1>16 DEF WriterWrites

\* The look at the flag: past the budget what is left of the queue is given up.
LEMMA ChecksKeeps ==
  ASSUME FileLogInv, NEW i \in Instances, WriterChecks(i)
  PROVE  FileLogInv'
<1>0. PICK w : w = writers[i]
  OBVIOUS
<1> DEFINE after == AfterWrite(w)
           given == ToSet(w.queue) \ ToSet(after.queue)
<1>1. WritersSound /\ LinesKept /\ WriterSound(w) /\ DOMAIN writers = Instances
  BY <1>0 DEF FileLogInv, WritersSound
<1>2. /\ w.pc = "check" /\ UNCHANGED <<current, logging, logged>>
      /\ writers' = [writers EXCEPT ![i] = after]
      /\ fileLost' = [fileLost EXCEPT !["abandoned"] = @ \cup given]
  BY <1>0 DEF WriterChecks
<1>3. Becomes(i, after)
  BY <1>1, <1>2 DEF Becomes
<1>4. /\ WriterSound(after) /\ after.hand = w.hand
      /\ after.closing = w.closing /\ after.connected = w.connected
      /\ \/ after.queue = w.queue
         \/ after.queue = <<>> /\ after.drained = DrainBudget
  BY <1>1, <1>2, CheckSound
<1> HIDE DEF after
<1>5. /\ ToSet(after.queue) = ToSet(w.queue) \ given /\ given \in SUBSET ToSet(w.queue)
      /\ given = {} \/ after.drained = DrainBudget
  BY <1>4, SmallSets
<1>6. \A y \in given : y \in Lines /\ y.instance = i
  <2>1. \A y \in ToSet(w.queue) : y \in Lines
    BY <1>1 DEF WriterSound, Distinct, ToSet
  <2>2. \A y \in ToSet(w.queue) : y.instance = i
    BY <1>0, <1>1 DEF WritersSound
  <2> QED BY <1>5, <2>1, <2>2
<1> HIDE DEF given
<1>7. /\ RequestsSound' /\ WritersSound'
      /\ \A y \in Lines : Known(y, logging') <=> Known(y, logging)
  BY <1>0, <1>2, <1>3, <1>4, <1>5, WriterOnly
<1>8. Distinct(logged') /\ fileLost \in [LossReasons -> SUBSET Lines]
  BY <1>1, <1>2 DEF LinesKept
<1>9. /\ fileLost'["full"] = fileLost["full"] /\ fileLost'["failed"] = fileLost["failed"]
      /\ fileLost'["abandoned"] = fileLost["abandoned"] \cup given
      /\ fileLost' \in [LossReasons -> SUBSET Lines]
  BY <1>2, <1>6, <1>8 DEF LossReasons
<1>10. ASSUME NEW y \in Lines
       PROVE  Copies(y, writers', logged', fileLost') = Copies(y, writers, logged, fileLost)
  <2>1. y.instance \in Instances
    BY DEF Lines
  <2>2. CASE y.instance # i
    <3>1. writers'[y.instance] = writers[y.instance] /\ y \notin given
      BY <1>3, <1>6, <2>1, <2>2 DEF Becomes
    <3> QED BY <1>2, <1>9, <3>1 DEF Copies, One
  <2>3. CASE y.instance = i
    <3>1. writers'[y.instance] = after /\ writers[y.instance] = w
      BY <1>0, <1>3, <2>3 DEF Becomes
    <3>2. CASE y \in given
      <4>1. y \in ToSet(w.queue) /\ y \notin ToSet(after.queue) /\ y \in fileLost'["abandoned"]
        BY <1>5, <1>9, <3>2
      <4>2. y \notin fileLost["abandoned"]
        <5>1. Copies(y, writers, logged, fileLost) \in {0, 1}
          BY <1>1, AtMostOne
        <5> QED BY <3>1, <4>1, <5>1 DEF Copies, One
      <4> QED BY <1>2, <1>4, <1>9, <3>1, <4>1, <4>2 DEF Copies, One
    <3>3. CASE y \notin given
      <4>1. /\ y \in ToSet(w.queue) <=> y \in ToSet(after.queue)
            /\ y \in fileLost["abandoned"] <=> y \in fileLost'["abandoned"]
        BY <1>5, <1>9, <3>3
      <4> QED BY <1>2, <1>4, <1>9, <3>1, <4>1 DEF Copies, One
    <3> QED BY <3>2, <3>3
  <2> QED BY <2>2, <2>3
<1>11. ASSUME NEW y \in fileLost'["abandoned"]
       PROVE  writers'[y.instance].drained = DrainBudget
  <2>1. CASE y \in given
    <3>1. y.instance = i /\ given # {}
      BY <1>6, <2>1
    <3> QED BY <1>3, <1>5, <3>1 DEF Becomes
  <2>2. CASE y \in fileLost["abandoned"]
    <3>1. y.instance \in Instances /\ writers[y.instance].drained = DrainBudget
      BY <1>1, <2>2 DEF LinesKept, LossReasons, Lines
    <3>2. w.drained < DrainBudget /\ DrainBudget \in Nat
      BY <1>1, <1>2, FileLoggerAssumption DEF WriterSound
    <3>3. y.instance # i
      BY <1>0, <3>1, <3>2
    <3> QED BY <1>3, <3>1, <3>3 DEF Becomes
  <2> QED BY <1>9, <2>1, <2>2
<1>12. LinesKept'
  BY <1>1, <1>7, <1>8, <1>9, <1>10, <1>11, LinesKeptStep
<1> QED BY <1>7, <1>12 DEF FileLogInv

\* The queue is disconnected and empty: the thread ends.
LEMMA EndsKeeps ==
  ASSUME FileLogInv, NEW i \in Instances, WriterEnds(i)
  PROVE  FileLogInv'
<1>0. PICK w : w = writers[i]
  OBVIOUS
<1> DEFINE after == [w EXCEPT !.pc = "done"]
<1>1. WritersSound /\ LinesKept /\ WriterSound(w) /\ DOMAIN writers = Instances
  BY <1>0 DEF FileLogInv, WritersSound
<1>2. /\ w.pc = "recv" /\ w.queue = <<>> /\ ~w.connected
      /\ UNCHANGED <<current, logging, logged, fileLost>>
      /\ writers' = [writers EXCEPT ![i] = after]
  BY <1>0, <1>1 DEF WriterEnds
<1>3. Becomes(i, after)
  BY <1>1, <1>2 DEF Becomes
<1>4. /\ WriterSound(after) /\ after.queue = w.queue /\ after.hand = w.hand
      /\ after.closing = w.closing /\ after.connected = w.connected /\ after.drained = w.drained
  BY <1>1, <1>2, EndSound
<1> HIDE DEF after
<1>5. /\ RequestsSound' /\ WritersSound'
      /\ \A y \in Lines : Known(y, logging') <=> Known(y, logging)
  BY <1>0, <1>2, <1>3, <1>4, WriterOnly
<1>6. \A j \in Instances : /\ writers'[j].queue = writers[j].queue
                           /\ writers'[j].hand = writers[j].hand
                           /\ writers'[j].drained = writers[j].drained
  BY <1>0, <1>3, <1>4 DEF Becomes
<1>7. LinesKept'
  BY <1>1, <1>2, <1>5, <1>6, LinesKeptStill
<1> QED BY <1>5, <1>7 DEF FileLogInv

\* Before the first request everything is empty.
LEMMA FileLogStarts ==
  ASSUME FileLogInit
  PROVE  FileLogInv
<1>1. /\ current = 1 /\ logging = [r \in LogRequests |-> NotStarted]
      /\ writers = [i \in Instances |-> StartedWriter]
      /\ logged = <<>> /\ fileLost = [reason \in LossReasons |-> {}]
  BY DEF FileLogInit
<1>2. 1 \in Instances /\ MaxBodyBytes \in Nat \ {0} /\ DrainBudget \in Nat \ {0}
  BY FileLoggerAssumption DEF Instances
<1>3. RequestsSound
  <2>1. NotStarted \in LogRequestRecord
    BY <1>2 DEF NotStarted, EmptyBuffer, LogRequestRecord, LogSteps
  <2>2. Prefix(NotStarted)
    BY <1>2 DEF NotStarted, EmptyBuffer, Prefix
  <2>3. NotStarted.instance <= 1
    BY DEF NotStarted
  <2> QED BY <1>1, <1>2, <2>1, <2>2, <2>3 DEF RequestsSound
<1>4. ToSet(<<>>) = {} /\ Distinct(<<>>)
  BY SmallSets
<1>5. /\ StartedWriter.queue = <<>> /\ StartedWriter.hand = <<>> /\ StartedWriter.pc = "recv"
      /\ StartedWriter.closing = FALSE /\ StartedWriter.connected = TRUE
      /\ StartedWriter.closingSeen = FALSE /\ StartedWriter.drained = 0
      /\ StartedWriter.writesAfterClose = 0
  BY DEF StartedWriter
<1>6. WriterSound(StartedWriter)
  <2> DEFINE Whole(w) ==
        w = [queue |-> w.queue, closing |-> w.closing, connected |-> w.connected, pc |-> w.pc,
             hand |-> w.hand, closingSeen |-> w.closingSeen, drained |-> w.drained,
             writesAfterClose |-> w.writesAfterClose]
  <2>1. Whole(StartedWriter)
    BY DEF StartedWriter
  <2> HIDE DEF Whole
  <2>2. PICK w : w = StartedWriter
    OBVIOUS
  <2>3. /\ w.queue = <<>> /\ w.hand = <<>> /\ w.pc = "recv"
        /\ w.closing = FALSE /\ w.connected = TRUE /\ w.closingSeen = FALSE
        /\ w.drained = 0 /\ w.writesAfterClose = 0
    BY <1>5, <2>2
  <2>4. Whole(w)
    BY <2>1, <2>2
  <2>5. WriterSound(w)
    <3>1. w.closing \in BOOLEAN /\ w.connected \in BOOLEAN /\ w.closingSeen \in BOOLEAN
      BY <2>3
    <3>2. ~w.closing /\ w.connected /\ ~w.closingSeen
      BY <2>3
    <3>3. w.drained \in Nat /\ w.writesAfterClose \in Nat /\ w.drained < DrainBudget
      BY <1>2, <2>3
    <3>4. w.writesAfterClose <= w.drained + (IF w.pc = "check" /\ w.closing THEN 1 ELSE 0)
      BY <2>3
    <3>5. Distinct(w.queue) /\ w.hand = <<>> /\ w.pc = "recv"
      BY <1>4, <2>3
    <3>6. w.drained <= DrainBudget
      BY <1>2, <3>3
    <3> QED BY <2>4, <3>1, <3>2, <3>3, <3>4, <3>5, <3>6 DEF WriterSound, Whole
  <2> QED BY <2>2, <2>5
<1>7. WritersSound
  <2>1. \A r \in LogRequests : logging[r].step = "new"
    BY <1>1 DEF NotStarted
  <2> QED BY <1>1, <1>4, <1>5, <1>6, <2>1 DEF WritersSound
<1>8. LinesKept
  <2>1. \A x \in Lines : x.instance \in Instances /\ x.request \in LogRequests
    BY DEF Lines
  <2>2. \A x \in Lines : ~Known(x, logging)
    BY <1>1, <2>1 DEF Known, NotStarted
  <2>3. \A reason \in LossReasons : fileLost[reason] = {}
    BY <1>1
  <2>4. \A x \in Lines : Copies(x, writers, logged, fileLost) = 0
    BY <1>1, <1>4, <1>5, <2>1, <2>3 DEF Copies, One, LossReasons
  <2> QED BY <1>1, <1>4, <2>2, <2>3, <2>4 DEF LinesKept, One, LossReasons
<1> QED BY <1>3, <1>7, <1>8 DEF FileLogInv

\* Every step, of a request, of the publisher or of a writer.
LEMMA FileLogSteps ==
  ASSUME FileLogInv, [FileLogNext]_fileLogVars
  PROVE  FileLogInv'
<1>1. CASE UNCHANGED fileLogVars
  <2>1. UNCHANGED <<current, logging, writers, logged, fileLost>>
    BY <1>1 DEF fileLogVars
  <2>2. RequestsSound' <=> RequestsSound
    BY <2>1 DEF RequestsSound, Prefix
  <2>3. WritersSound' <=> WritersSound
    BY <2>1 DEF WritersSound, WriterSound, Unused
  <2>4. LinesKept' <=> LinesKept
    BY <2>1 DEF LinesKept
  <2> QED BY <2>2, <2>3, <2>4 DEF FileLogInv
<1>2. ASSUME NEW r \in LogRequests,
             LogRequestStarts(r) \/ LogRequest(r) \/ Release(r) \/ DropSender(r) \/ JoinWriter(r)
      PROVE  FileLogInv'
  BY <1>2, StartKeeps, LogKeeps, ReleaseKeeps, DropKeeps, JoinKeeps
<1>3. ASSUME NEW r \in LogRequests, NEW size \in ChunkSizes, LogBodyChunk(r, size)
      PROVE  FileLogInv'
  BY <1>3, ChunkKeeps
<1>4. CASE Reload
  BY <1>4, ReloadKeeps
<1>5. ASSUME NEW i \in Instances,
             WriterReceives(i) \/ WriterWrites(i) \/ WriterChecks(i) \/ WriterEnds(i)
      PROVE  FileLogInv'
  BY <1>5, ReceivesKeeps, WritesKeeps, ChecksKeeps, EndsKeeps
<1> QED BY <1>1, <1>2, <1>3, <1>4, <1>5 DEF FileLogNext

\* A line of one copy is in one of the six places FilePlaces names.
LEMMA OnePlace ==
  ASSUME FileLogInv, NEW x \in Lines, Known(x, logging)
  PROVE  Cardinality({p \in DOMAIN FilePlaces : x \in FilePlaces[p]}) = 1
<1> DEFINE P == {p \in DOMAIN FilePlaces : x \in FilePlaces[p]}
<1>1. WritersSound /\ LinesKept
  BY DEF FileLogInv
<1>2. x.instance \in Instances /\ Copies(x, writers, logged, fileLost) = 1
  BY <1>1, AtMostOne DEF One
<1>3. ASSUME NEW i \in Instances
      PROVE  /\ x \in ToSet(writers[i].queue) => x.instance = i
             /\ x \in ToSet(writers[i].hand) => x.instance = i
  BY <1>1 DEF WritersSound
<1>4. /\ x \in UNION {ToSet(writers[i].queue) : i \in Instances}
           <=> x \in ToSet(writers[x.instance].queue)
      /\ x \in UNION {ToSet(writers[i].hand) : i \in Instances}
           <=> x \in ToSet(writers[x.instance].hand)
  BY <1>2, <1>3
<1>5. /\ DOMAIN FilePlaces = {"queues", "hands", "file", "full", "failed", "abandoned"}
      /\ FilePlaces["queues"] = UNION {ToSet(writers[i].queue) : i \in Instances}
      /\ FilePlaces["hands"] = UNION {ToSet(writers[i].hand) : i \in Instances}
      /\ FilePlaces["file"] = ToSet(logged) /\ FilePlaces["full"] = fileLost["full"]
      /\ FilePlaces["failed"] = fileLost["failed"]
      /\ FilePlaces["abandoned"] = fileLost["abandoned"]
  BY DEF FilePlaces
<1>6. /\ x \in FilePlaces["queues"] <=> x \in ToSet(writers[x.instance].queue)
      /\ x \in FilePlaces["hands"] <=> x \in ToSet(writers[x.instance].hand)
      /\ x \in FilePlaces["file"] <=> x \in ToSet(logged)
      /\ x \in FilePlaces["full"] <=> x \in fileLost["full"]
      /\ x \in FilePlaces["failed"] <=> x \in fileLost["failed"]
      /\ x \in FilePlaces["abandoned"] <=> x \in fileLost["abandoned"]
  BY <1>4, <1>5
<1>7. One(x \in FilePlaces["queues"]) + One(x \in FilePlaces["hands"]) + One(x \in FilePlaces["file"])
      + One(x \in FilePlaces["full"]) + One(x \in FilePlaces["failed"])
      + One(x \in FilePlaces["abandoned"]) = 1
  BY <1>2, <1>6 DEF Copies, One
<1>8. PICK places : places = FilePlaces
  OBVIOUS
<1>9. \E p : P = {p}
  <2>1. /\ DOMAIN places = {"queues", "hands", "file", "full", "failed", "abandoned"}
        /\ P = {p \in DOMAIN places : x \in places[p]}
        /\ One(x \in places["queues"]) + One(x \in places["hands"]) + One(x \in places["file"])
           + One(x \in places["full"]) + One(x \in places["failed"])
           + One(x \in places["abandoned"]) = 1
    BY <1>5, <1>7, <1>8
  <2> HIDE DEF P
  <2>2. \E p \in DOMAIN places :
          x \in places[p] /\ \A q \in DOMAIN places : x \in places[q] => q = p
    BY <2>1 DEF One
  <2> QED BY <2>1, <2>2
<1>10. Cardinality(P) = 1
  <2>1. PICK p : P = {p}
    BY <1>9
  <2> QED BY <2>1, FS_Singleton
<1> QED BY <1>10

\* A request is in the file at most once.
LEMMA OnceInFile ==
  ASSUME FileLogInv, NEW r \in LogRequests
  PROVE  Cardinality({k \in DOMAIN logged : logged[k].request = r}) <= 1
<1> DEFINE K == {k \in DOMAIN logged : logged[k].request = r}
<1>1. LinesKept /\ Distinct(logged)
  BY DEF FileLogInv, LinesKept
<1>2. /\ DOMAIN logged = 1..Len(logged) /\ \A k \in DOMAIN logged : logged[k] \in Lines
      /\ \A j, k \in DOMAIN logged : logged[j] = logged[k] => j = k
  BY <1>1 DEF Distinct
<1>3. ASSUME NEW k \in K
      PROVE  LET q == logging[r] IN
             logged[k] = [request |-> r, instance |-> q.instance, body |-> q.buffer.bytes,
                          truncated |-> q.buffer.exceeded]
  <2>1. logged[k] \in Lines /\ logged[k].request = r /\ logged[k] \in ToSet(logged)
    BY <1>2 DEF ToSet
  <2>2. Known(logged[k], logging)
    <3>1. Copies(logged[k], writers, logged, fileLost) # 0
      BY <2>1 DEF Copies, One
    <3> QED BY <1>1, <2>1, <3>1 DEF LinesKept, One
  <2>3. PICK x \in Lines : x = logged[k]
    BY <2>1
  <2>4. /\ x.request = r /\ x.instance = logging[r].instance
        /\ x.body = logging[r].buffer.bytes /\ x.truncated = logging[r].buffer.exceeded
    BY <2>1, <2>2, <2>3 DEF Known
  <2>5. x = [request |-> x.request, instance |-> x.instance, body |-> x.body, truncated |-> x.truncated]
    BY DEF Lines
  <2> QED BY <2>3, <2>4, <2>5
<1>4. \A j, k \in K : j = k
  BY <1>2, <1>3
<1>5. CASE K = {}
  BY <1>5, FS_EmptySet
<1>6. CASE K # {}
  <2>1. PICK k : K = {k}
    BY <1>4, <1>6
  <2>2. Cardinality(K) = 1
    BY <2>1, FS_Singleton
  <2> QED BY <2>2
<1> QED BY <1>5, <1>6

\* What the invariant says of a request and of a writer.
LEMMA FileLogInvAccounts ==
  ASSUME FileLogInv
  PROVE  FileLogAccounted
<1>1. RequestsSound /\ WritersSound /\ LinesKept
  BY DEF FileLogInv
<1>2. ASSUME NEW r \in LogRequests, logging[r].step \notin {"new", "body"}
      PROVE  /\ Cardinality({p \in DOMAIN FilePlaces : LineOf(r) \in FilePlaces[p]}) = 1
             /\ Cardinality({k \in DOMAIN logged : logged[k].request = r}) <= 1
             /\ LineOf(r).body = IF logging[r].sent < MaxBodyBytes THEN logging[r].sent
                                                                   ELSE MaxBodyBytes
             /\ LineOf(r).truncated = (logging[r].sent > MaxBodyBytes)
  <2>1. /\ LineOf(r) = [request |-> r, instance |-> logging[r].instance,
                        body |-> logging[r].buffer.bytes,
                        truncated |-> logging[r].buffer.exceeded]
        /\ LineOf(r).request = r /\ LineOf(r).instance = logging[r].instance
        /\ LineOf(r).body = logging[r].buffer.bytes
        /\ LineOf(r).truncated = logging[r].buffer.exceeded
    BY DEF LineOf
  <2>2. /\ logging[r].buffer \in [bytes : Nat, exceeded : BOOLEAN]
        /\ logging[r].buffer.exceeded \in BOOLEAN
        /\ logging[r].instance \in Instances /\ Prefix(logging[r])
    BY <1>1, RequestFields
  <2>3. LineOf(r) \in Lines
    BY <2>1, <2>2 DEF Lines
  <2>4. Known(LineOf(r), logging)
    BY <1>2, <2>1 DEF Known
  <2>5. Cardinality({p \in DOMAIN FilePlaces : LineOf(r) \in FilePlaces[p]}) = 1
    BY <2>3, <2>4, OnePlace
  <2>6. Cardinality({k \in DOMAIN logged : logged[k].request = r}) <= 1
    BY OnceInFile
  <2>7. LineOf(r).truncated = (logging[r].sent > MaxBodyBytes)
    BY <2>1, <2>2 DEF Prefix
  <2> QED BY <2>1, <2>2, <2>5, <2>6, <2>7 DEF Prefix
<1>3. ASSUME NEW i \in Instances
      PROVE  /\ writers[i].writesAfterClose <= DrainBudget
             /\ (\E line \in fileLost["abandoned"] : line.instance = i)
                  => writers[i].drained = DrainBudget
             /\ writers[i].pc = "done" => writers[i].queue = <<>>
  <2>1. WriterSound(writers[i]) /\ DrainBudget \in Nat
    BY <1>1, FileLoggerAssumption DEF WritersSound
  <2>2. writers[i].writesAfterClose <= DrainBudget
    BY <2>1 DEF WriterSound
  <2>3. writers[i].pc = "done" => writers[i].queue = <<>>
    BY <2>1 DEF WriterSound
  <2> QED BY <1>1, <2>2, <2>3 DEF LinesKept
<1> QED BY <1>2, <1>3 DEF FileLogAccounted

\* Every line that a request logs is in exactly one place, as the request had it when
\* it logged, for any number of requests, reloads and chunks; the destructor keeps
\* within its budget (write_line, run_writer and Drop of the file-logger).
THEOREM EveryLineAccounted == FileLogSpec => []FileLogAccounted
<1>1. FileLogInit => FileLogInv
  BY FileLogStarts
<1>2. FileLogInv /\ [FileLogNext]_fileLogVars => FileLogInv'
  BY FileLogSteps
<1>3. FileLogInv => FileLogAccounted
  BY FileLogInvAccounts
<1> QED BY <1>1, <1>2, <1>3, PTL DEF FileLogSpec

--------------------------------------------------------------------------------
(* Runtime snapshots. *)

\* The occurrences a scope's inline upstreams are prepared under.
Occurrences(owner, scope) == {<<owner>>} \cup DOMAIN plugin_upstream_jobs(owner, scope)

\* A compiled snapshot s is what the constructors make of graph g, each object in
\* some attempt of its own.
UpstreamsBuilt(s, g) ==
  /\ DOMAIN s.upstreams = DOMAIN g.upstreams
  /\ \A id \in DOMAIN g.upstreams : \E n :
       s.upstreams[id] = [arc |-> <<n, <<<<"upstream", id>>>>>>, inner |-> g.upstreams[id]]
ServicesBuilt(s, g) ==
  /\ DOMAIN s.services = DOMAIN g.services
  /\ \A id \in DOMAIN g.services : \E n :
       s.services[id] =
         ProxyServiceBuild(n, id, g.services[id], s.upstreams, Occurrences(<<"service", id>>, g.services[id]))
RulesBuilt(s, g) ==
  /\ DOMAIN s.globalRules = DOMAIN g.globalRules
  /\ \A id \in DOMAIN g.globalRules : \E n :
       s.globalRules[id] =
         ProxyGlobalRuleBuild(n, id, g.globalRules[id], s.upstreams, Occurrences(<<"rule", id>>, g.globalRules[id]))
RoutesBuilt(s, g) ==
  /\ DOMAIN s.routes = DOMAIN g.routes
  /\ \A id \in DOMAIN g.routes : \E n :
       s.routes[id] =
         ProxyRouteBuild(n, id, g.routes[id], s.upstreams, s.services, Occurrences(<<"route", id>>, g.routes[id]))
SslsBuilt(s, g) ==
  /\ DOMAIN s.ssls = DOMAIN g.ssls
  /\ \A id \in DOMAIN g.ssls : s.ssls[id].inner = g.ssls[id]
SnapshotOf(s, g) ==
  UpstreamsBuilt(s, g) /\ ServicesBuilt(s, g) /\ RulesBuilt(s, g) /\ RoutesBuilt(s, g) /\ SslsBuilt(s, g)

Accepted(graph) == GraphTyped(graph) /\ validate_config_set(graph)

SnapshotInv ==
  /\ candidate.step = "preparing" =>
       /\ Accepted(candidate.graph)
       /\ candidate.plan = CandidatePlan(candidate.graph, liveSnapshot)
  /\ Accepted(liveGraph)
  /\ SnapshotOf(liveSnapshot, liveGraph)
  /\ ~compileError

\* The empty graph has the empty snapshot.
LEMMA SnapshotInvInit == CompileInit => SnapshotInv
<1> SUFFICES ASSUME CompileInit PROVE SnapshotInv
  OBVIOUS
<1>1. candidate.step = "idle" /\ liveGraph = EmptyGraph /\ liveSnapshot = EmptyGraph /\ compileError = FALSE
  BY DEF CompileInit, Waiting
<1>2. Accepted(EmptyGraph)
  BY DEF Accepted, GraphTyped, validate_config_set, EmptyGraph
<1>3. SnapshotOf(EmptyGraph, EmptyGraph)
  BY DEF SnapshotOf, UpstreamsBuilt, ServicesBuilt, RulesBuilt, RoutesBuilt, SslsBuilt, EmptyGraph
<1> QED BY <1>1, <1>2, <1>3 DEF SnapshotInv

\* What a scope depends on exists.
LEMMA DependenciesExist ==
  ASSUME NEW g, Accepted(g)
  PROVE  /\ \A id \in DOMAIN g.services :
              /\ plugin_upstream_deps(g.services[id]) \subseteq DOMAIN g.upstreams
              /\ scope_upstream_deps(g.services[id]) \subseteq DOMAIN g.upstreams
         /\ \A id \in DOMAIN g.globalRules : plugin_upstream_deps(g.globalRules[id]) \subseteq DOMAIN g.upstreams
         /\ \A id \in DOMAIN g.routes :
              /\ plugin_upstream_deps(g.routes[id]) \subseteq DOMAIN g.upstreams
              /\ scope_upstream_deps(g.routes[id]) \subseteq DOMAIN g.upstreams
              /\ g.routes[id].serviceId \subseteq DOMAIN g.services
<1>1. validate_config_set(g)
  BY DEF Accepted
<1>2. ASSUME NEW id \in DOMAIN g.services
      PROVE  /\ plugin_upstream_deps(g.services[id]) \subseteq DOMAIN g.upstreams
             /\ scope_upstream_deps(g.services[id]) \subseteq DOMAIN g.upstreams
  <2>1. plugin_upstream_deps(g.services[id]) \subseteq DOMAIN g.upstreams
    BY <1>1 DEF validate_config_set, validate_plugin_upstream_refs
  <2>2. g.services[id].upstreamId \subseteq DOMAIN g.upstreams
    BY <1>1 DEF validate_config_set, ServiceValid, OneForm, Absent
  <2> QED BY <2>1, <2>2 DEF scope_upstream_deps
<1>3. ASSUME NEW id \in DOMAIN g.routes
      PROVE  /\ plugin_upstream_deps(g.routes[id]) \subseteq DOMAIN g.upstreams
             /\ scope_upstream_deps(g.routes[id]) \subseteq DOMAIN g.upstreams
             /\ g.routes[id].serviceId \subseteq DOMAIN g.services
  <2>1. plugin_upstream_deps(g.routes[id]) \subseteq DOMAIN g.upstreams
        /\ g.routes[id].serviceId \subseteq DOMAIN g.services
    BY <1>1 DEF validate_config_set, validate_plugin_upstream_refs
  <2>2. g.routes[id].upstreamId \subseteq DOMAIN g.upstreams
    BY <1>1 DEF validate_config_set, RouteValid, OneForm, Absent
  <2> QED BY <2>1, <2>2 DEF scope_upstream_deps
<1>4. \A id \in DOMAIN g.globalRules : plugin_upstream_deps(g.globalRules[id]) \subseteq DOMAIN g.upstreams
  BY <1>1 DEF validate_config_set, validate_plugin_upstream_refs
<1> QED BY <1>2, <1>3, <1>4

\* What build_prepared makes of each resource.
LEMMA BuildParts ==
  ASSUME NEW n, NEW g, NEW plan, NEW prepared, NEW previous, NEW s,
         s = build_prepared(n, g, plan, prepared, previous)
  PROVE  /\ s.upstreams = [id \in DOMAIN g.upstreams |->
              IF id \in plan.upstreams THEN previous.upstreams[id]
              ELSE ProxyUpstreamBuild(n, <<<<"upstream", id>>>>, g.upstreams[id], prepared)]
         /\ s.services = [id \in DOMAIN g.services |->
              IF id \in plan.services THEN previous.services[id]
              ELSE ProxyServiceBuild(n, id, g.services[id], s.upstreams, prepared)]
         /\ s.globalRules = [id \in DOMAIN g.globalRules |->
              IF id \in plan.globalRules THEN previous.globalRules[id]
              ELSE ProxyGlobalRuleBuild(n, id, g.globalRules[id], s.upstreams, prepared)]
         /\ s.routes = [id \in DOMAIN g.routes |->
              IF id \in plan.routes THEN previous.routes[id]
              ELSE ProxyRouteBuild(n, id, g.routes[id], s.upstreams, s.services, prepared)]
         /\ s.ssls = [id \in DOMAIN g.ssls |->
              IF id \in plan.ssls THEN previous.ssls[id] ELSE ProxySSLBuild(n, id, g.ssls[id])]
BY DEF build_prepared

\* Every compiled object has its configuration.
LEMMA ConfigurationsMatch ==
  ASSUME NEW s, NEW g, SnapshotOf(s, g)
  PROVE  /\ BuiltFrom(s.upstreams, g.upstreams) /\ BuiltFrom(s.services, g.services)
         /\ BuiltFrom(s.globalRules, g.globalRules) /\ BuiltFrom(s.routes, g.routes)
         /\ BuiltFrom(s.ssls, g.ssls)
<1>1. ASSUME NEW id \in DOMAIN g.upstreams PROVE s.upstreams[id].inner = g.upstreams[id]
  <2>1. PICK n : s.upstreams[id] = [arc |-> <<n, <<<<"upstream", id>>>>>>, inner |-> g.upstreams[id]]
    BY DEF SnapshotOf, UpstreamsBuilt
  <2> QED BY <2>1
<1>2. ASSUME NEW id \in DOMAIN g.services PROVE s.services[id].inner = g.services[id]
  <2>1. PICK n : s.services[id] =
          ProxyServiceBuild(n, id, g.services[id], s.upstreams, Occurrences(<<"service", id>>, g.services[id]))
    BY DEF SnapshotOf, ServicesBuilt
  <2> QED BY <2>1 DEF ProxyServiceBuild
<1>3. ASSUME NEW id \in DOMAIN g.globalRules PROVE s.globalRules[id].inner = g.globalRules[id]
  <2>1. PICK n : s.globalRules[id] =
          ProxyGlobalRuleBuild(n, id, g.globalRules[id], s.upstreams, Occurrences(<<"rule", id>>, g.globalRules[id]))
    BY DEF SnapshotOf, RulesBuilt
  <2> QED BY <2>1 DEF ProxyGlobalRuleBuild
<1>4. ASSUME NEW id \in DOMAIN g.routes PROVE s.routes[id].inner = g.routes[id]
  <2>1. PICK n : s.routes[id] =
          ProxyRouteBuild(n, id, g.routes[id], s.upstreams, s.services, Occurrences(<<"route", id>>, g.routes[id]))
    BY DEF SnapshotOf, RoutesBuilt
  <2> QED BY <2>1 DEF ProxyRouteBuild
<1>5. \A id \in DOMAIN g.ssls : s.ssls[id].inner = g.ssls[id]
  BY DEF SnapshotOf, SslsBuilt
<1>6. /\ DOMAIN s.upstreams = DOMAIN g.upstreams /\ DOMAIN s.services = DOMAIN g.services
      /\ DOMAIN s.globalRules = DOMAIN g.globalRules /\ DOMAIN s.routes = DOMAIN g.routes
      /\ DOMAIN s.ssls = DOMAIN g.ssls
  BY DEF SnapshotOf, UpstreamsBuilt, ServicesBuilt, RulesBuilt, RoutesBuilt, SslsBuilt
<1> QED BY <1>1, <1>2, <1>3, <1>4, <1>5, <1>6 DEF BuiltFrom

\* The planned publication: what it builds, and from what.
LEMMA PublishedBuild ==
  ASSUME SnapshotInv, CompileAndPublish, liveSnapshot' # liveSnapshot
  PROVE  /\ candidate.step = "preparing" /\ liveGraph' = candidate.graph
         /\ liveSnapshot' = build_prepared(attempts, candidate.graph,
              CandidatePlan(candidate.graph, liveSnapshot), DOMAIN Jobs(candidate.graph, liveSnapshot),
              liveSnapshot)
<1>1. candidate.step = "preparing" /\ candidate.plan = CandidatePlan(candidate.graph, liveSnapshot)
  BY DEF CompileAndPublish, SnapshotInv
<1>2. candidate.plan.jobs = Jobs(candidate.graph, liveSnapshot)
  BY <1>1 DEF CandidatePlan
<1> QED BY <1>1, <1>2 DEF CompileAndPublish

\* A named upstream that did not change is reused.
LEMMA UnchangedReused ==
  ASSUME NEW s, NEW g, NEW h, SnapshotOf(s, g), Accepted(g), Accepted(h),
         NEW ids, ids \subseteq DOMAIN g.upstreams, ids \subseteq DOMAIN h.upstreams,
         NamedIn(g, ids) = NamedIn(h, ids)
  PROVE  ids \subseteq reused_upstreams(h, s)
<1> SUFFICES ASSUME NEW id \in ids PROVE id \in reused_upstreams(h, s)
  OBVIOUS
<1>1. NamedIn(g, ids)[id] = g.upstreams[id] /\ NamedIn(h, ids)[id] = h.upstreams[id]
  BY DEF NamedIn
<1>2. g.upstreams[id] = h.upstreams[id]
  BY <1>1
<1>3. id \in DOMAIN s.upstreams /\ s.upstreams[id].inner = g.upstreams[id]
  BY ConfigurationsMatch DEF BuiltFrom
<1> QED BY <1>2, <1>3 DEF reused_upstreams

\* So is a service with the same closure, and a route.
LEMMA UnchangedServiceReused ==
  ASSUME NEW s, NEW g, NEW h, SnapshotOf(s, g), Accepted(g), Accepted(h),
         NEW i \in DOMAIN g.services, i \in DOMAIN h.services,
         ServiceClosure(g, g.services[i]) = ServiceClosure(h, h.services[i])
  PROVE  i \in reused_services(h, s)
<1>1. /\ g.services[i] = h.services[i]
      /\ NamedIn(g, scope_upstream_deps(g.services[i])) = NamedIn(h, scope_upstream_deps(h.services[i]))
  BY DEF ServiceClosure
<1>2. scope_upstream_deps(h.services[i]) \subseteq reused_upstreams(h, s)
  <2> DEFINE deps == scope_upstream_deps(h.services[i])
  <2>1. deps \subseteq DOMAIN g.upstreams /\ deps \subseteq DOMAIN h.upstreams
    BY <1>1, DependenciesExist
  <2>2. NamedIn(g, deps) = NamedIn(h, deps)
    BY <1>1
  <2> HIDE DEF deps
  <2>3. deps \subseteq reused_upstreams(h, s)
    BY <2>1, <2>2, UnchangedReused
  <2> QED BY <2>3 DEF deps
<1>3. i \in DOMAIN s.services /\ s.services[i].inner = g.services[i]
  BY ConfigurationsMatch DEF BuiltFrom
<1> QED BY <1>1, <1>2, <1>3 DEF reused_services

\* A route, with its service if it has one.
LEMMA UnchangedRouteReused ==
  ASSUME NEW s, NEW g, NEW h, SnapshotOf(s, g), Accepted(g), Accepted(h),
         NEW id \in DOMAIN g.routes, id \in DOMAIN h.routes,
         RouteClosure(g, g.routes[id]) = RouteClosure(h, h.routes[id])
  PROVE  id \in reused_routes(h, s)
<1>1. /\ g.routes[id] = h.routes[id]
      /\ NamedIn(g, scope_upstream_deps(g.routes[id])) = NamedIn(h, scope_upstream_deps(h.routes[id]))
      /\ {ServiceClosure(g, g.services[sid]) : sid \in g.routes[id].serviceId}
         = {ServiceClosure(h, h.services[sid]) : sid \in h.routes[id].serviceId}
  BY DEF RouteClosure
<1>2. scope_upstream_deps(h.routes[id]) \subseteq reused_upstreams(h, s)
  <2> DEFINE deps == scope_upstream_deps(h.routes[id])
  <2>1. deps \subseteq DOMAIN g.upstreams /\ deps \subseteq DOMAIN h.upstreams
    BY <1>1, DependenciesExist
  <2>2. NamedIn(g, deps) = NamedIn(h, deps)
    BY <1>1
  <2> HIDE DEF deps
  <2>3. deps \subseteq reused_upstreams(h, s)
    BY <2>1, <2>2, UnchangedReused
  <2> QED BY <2>3 DEF deps
<1>3. h.routes[id].serviceId \subseteq reused_services(h, s)
  <2> SUFFICES ASSUME NEW sid \in h.routes[id].serviceId PROVE sid \in reused_services(h, s)
    OBVIOUS
  <2>1. \A x \in h.routes[id].serviceId : x = sid
    BY DEF Accepted, GraphTyped, Optional
  <2>2. ServiceClosure(g, g.services[sid]) \in {ServiceClosure(h, h.services[x]) : x \in h.routes[id].serviceId}
    BY <1>1
  <2>3. ServiceClosure(g, g.services[sid]) = ServiceClosure(h, h.services[sid])
    BY <2>1, <2>2
  <2>4. sid \in DOMAIN g.services /\ sid \in DOMAIN h.services
    BY <1>1, DependenciesExist
  <2> QED BY <2>3, <2>4, UnchangedServiceReused
<1>4. id \in DOMAIN s.routes /\ s.routes[id].inner = g.routes[id]
  BY ConfigurationsMatch DEF BuiltFrom
<1> QED BY <1>1, <1>2, <1>3, <1>4 DEF reused_routes

\* What the plan reuses the new snapshot has.
LEMMA UnchangedKept ==
  ASSUME SnapshotInv, CompileAndPublish, liveSnapshot' # liveSnapshot
  PROVE  /\ \A id \in DOMAIN liveGraph.routes \cap DOMAIN liveGraph'.routes :
              (RouteClosure(liveGraph, liveGraph.routes[id])
                 = RouteClosure(liveGraph', liveGraph'.routes[id]))
                => (liveSnapshot'.routes[id] = liveSnapshot.routes[id])
         /\ \A id \in DOMAIN liveGraph.services \cap DOMAIN liveGraph'.services :
              (ServiceClosure(liveGraph, liveGraph.services[id])
                 = ServiceClosure(liveGraph', liveGraph'.services[id]))
                => (liveSnapshot'.services[id] = liveSnapshot.services[id])
<1> DEFINE plan == CandidatePlan(candidate.graph, liveSnapshot)
           prepared == DOMAIN Jobs(candidate.graph, liveSnapshot)
           built == build_prepared(attempts, candidate.graph, plan, prepared, liveSnapshot)
<1>1. candidate.step = "preparing" /\ liveGraph' = candidate.graph /\ liveSnapshot' = built
  BY PublishedBuild
<1>2. Accepted(candidate.graph) /\ Accepted(liveGraph) /\ SnapshotOf(liveSnapshot, liveGraph)
  BY <1>1 DEF SnapshotInv
<1>3. plan.routes = reused_routes(candidate.graph, liveSnapshot)
      /\ plan.services = reused_services(candidate.graph, liveSnapshot)
  BY DEF CandidatePlan
<1> HIDE DEF plan, prepared
<1>4. \A id \in DOMAIN candidate.graph.routes : id \in plan.routes => built.routes[id] = liveSnapshot.routes[id]
  BY DEF build_prepared
<1>5. \A id \in DOMAIN candidate.graph.services :
        id \in plan.services => built.services[id] = liveSnapshot.services[id]
  BY DEF build_prepared
<1> HIDE DEF built
<1>6. ASSUME NEW id \in DOMAIN liveGraph.routes \cap DOMAIN liveGraph'.routes,
             RouteClosure(liveGraph, liveGraph.routes[id]) = RouteClosure(liveGraph', liveGraph'.routes[id])
      PROVE  liveSnapshot'.routes[id] = liveSnapshot.routes[id]
  <2>1. id \in reused_routes(candidate.graph, liveSnapshot)
    BY <1>1, <1>2, <1>6, UnchangedRouteReused
  <2> QED BY <1>1, <1>3, <1>4, <1>6, <2>1
<1>7. ASSUME NEW id \in DOMAIN liveGraph.services \cap DOMAIN liveGraph'.services,
             ServiceClosure(liveGraph, liveGraph.services[id]) = ServiceClosure(liveGraph', liveGraph'.services[id])
      PROVE  liveSnapshot'.services[id] = liveSnapshot.services[id]
  <2>1. id \in reused_services(candidate.graph, liveSnapshot)
    BY <1>1, <1>2, <1>7, UnchangedServiceReused
  <2> QED BY <1>1, <1>3, <1>5, <1>7, <2>1
<1> QED BY <1>6, <1>7

--------------------------------------------------------------------------------
(* Compilation looks at nothing but what the plan prepared and what a scope names. *)

AgreeOn(ids, ups, others) == \A id \in ids : Named(ups, id) = Named(others, id)

\* The inline upstream of a target is prepared with its scope.
LEMMA TargetPrepared ==
  ASSUME NEW owner, NEW scope, PluginsTyped(scope), NEW rules \in scope.split,
         NEW i \in DOMAIN rules, NEW j \in DOMAIN rules[i], NEW up \in rules[i][j].upstream
  PROVE  <<owner, i, j>> \in DOMAIN plugin_upstream_jobs(owner, scope)
<1>1. scope.split # Absent /\ The(scope.split) = rules
  BY DEF Absent, The, PluginsTyped, Optional
<1>2. plugin_upstream_jobs(owner, scope) = inline_upstream_jobs(owner, rules)
  BY <1>1 DEF plugin_upstream_jobs
<1>3. rules[i][j].upstream # Absent
  BY DEF Absent
<1>4. <<owner, i, j>> \in UNION {{<<owner, k, l>> : l \in DOMAIN rules[k]} : k \in DOMAIN rules}
  OBVIOUS
<1> DEFINE q == <<owner, i, j>>
<1>5. q[2] = i /\ q[3] = j
  OBVIOUS
<1>6. q \in {p \in UNION {{<<owner, k, l>> : l \in DOMAIN rules[k]} : k \in DOMAIN rules} :
                 rules[p[2]][p[3]].upstream # Absent}
  BY <1>3, <1>4, <1>5
<1>7. q \in DOMAIN inline_upstream_jobs(owner, rules)
  BY <1>6 DEF inline_upstream_jobs
<1> QED BY <1>2, <1>7

\* The upstreams a target names are among the dependencies of its scope.
LEMMA TargetNamed ==
  ASSUME NEW scope, NEW rules \in scope.split, NEW i \in DOMAIN rules, NEW j \in DOMAIN rules[i]
  PROVE  rules[i][j].upstreamId \subseteq plugin_upstream_deps(scope)
<1>1. rules[i][j] \in TargetsOf(rules)
  BY DEF TargetsOf, RangeOf
<1>2. rules[i][j].upstreamId \subseteq named_upstream_ids(rules)
  BY <1>1 DEF named_upstream_ids
<1> QED BY <1>2 DEF plugin_upstream_deps

\* So a plugin comes out the same.
LEMMA SamePlugins ==
  ASSUME NEW n, NEW owner, NEW scope, PluginsTyped(scope), NEW ups, NEW others,
         AgreeOn(plugin_upstream_deps(scope), ups, others),
         NEW prepared, DOMAIN plugin_upstream_jobs(owner, scope) \subseteq prepared
  PROVE  BuildPlugins(n, owner, scope, ups, prepared)
         = BuildPlugins(n, owner, scope, others, Occurrences(owner, scope))
<1> DEFINE mine(rules) == create_traffic_split_plugin(n, owner, rules, ups, prepared)
           same(rules) == create_traffic_split_plugin(n, owner, rules, others, Occurrences(owner, scope))
           target(rules, i, j) ==
             {Named(ups, id) : id \in rules[i][j].upstreamId}
             \cup {ProxyUpstreamBuild(n, <<owner, i, j>>, up, prepared) : up \in rules[i][j].upstream}
           other(rules, i, j) ==
             {Named(others, id) : id \in rules[i][j].upstreamId}
             \cup {ProxyUpstreamBuild(n, <<owner, i, j>>, up, Occurrences(owner, scope)) : up \in rules[i][j].upstream}
<1>1. ASSUME NEW rules \in scope.split PROVE mine(rules) = same(rules)
  <2>1. ASSUME NEW i \in DOMAIN rules, NEW j \in DOMAIN rules[i]
        PROVE  target(rules, i, j) = other(rules, i, j)
    <3>1. \A id \in rules[i][j].upstreamId : Named(ups, id) = Named(others, id)
      BY TargetNamed DEF AgreeOn
    <3>2. ASSUME NEW up \in rules[i][j].upstream
          PROVE  ProxyUpstreamBuild(n, <<owner, i, j>>, up, prepared)
                 = ProxyUpstreamBuild(n, <<owner, i, j>>, up, Occurrences(owner, scope))
      <4>1. <<owner, i, j>> \in prepared /\ <<owner, i, j>> \in Occurrences(owner, scope)
        BY TargetPrepared DEF Occurrences
      <4> QED BY <4>1 DEF ProxyUpstreamBuild
    <3> QED BY <3>1, <3>2
  <2>2. mine(rules) = [i \in DOMAIN rules |-> [j \in DOMAIN rules[i] |-> target(rules, i, j)]]
    BY DEF create_traffic_split_plugin
  <2>3. same(rules) = [i \in DOMAIN rules |-> [j \in DOMAIN rules[i] |-> other(rules, i, j)]]
    BY DEF create_traffic_split_plugin
  <2> HIDE DEF mine, same, target, other
  <2>4. \A i \in DOMAIN rules : [j \in DOMAIN rules[i] |-> target(rules, i, j)]
                                = [j \in DOMAIN rules[i] |-> other(rules, i, j)]
    BY <2>1
  <2> QED BY <2>2, <2>3, <2>4
<1>2. BuildPlugins(n, owner, scope, ups, prepared) = {mine(rules) : rules \in scope.split}
      /\ BuildPlugins(n, owner, scope, others, Occurrences(owner, scope)) = {same(rules) : rules \in scope.split}
  BY DEF BuildPlugins
<1> HIDE DEF mine, same
<1> QED BY <1>1, <1>2

\* The upstream of a scope comes out the same.
LEMMA SameUpstream ==
  ASSUME NEW n, NEW owner, NEW scope, NEW ups, NEW others, NEW inherited,
         AgreeOn(scope.upstreamId, ups, others),
         NEW prepared, scope.upstream # Absent => <<owner>> \in prepared
  PROVE  BoundUpstream(n, owner, scope, ups, prepared, inherited)
         = BoundUpstream(n, owner, scope, others, Occurrences(owner, scope), inherited)
<1>1. CASE scope.upstream # Absent
  <2>1. <<owner>> \in prepared /\ <<owner>> \in Occurrences(owner, scope)
    BY <1>1 DEF Occurrences
  <2>2. ProxyUpstreamBuild(n, <<owner>>, The(scope.upstream), prepared)
        = ProxyUpstreamBuild(n, <<owner>>, The(scope.upstream), Occurrences(owner, scope))
    BY <2>1 DEF ProxyUpstreamBuild
  <2> QED BY <1>1, <2>2 DEF BoundUpstream
<1>2. CASE scope.upstream = Absent /\ scope.upstreamId # Absent
  <2>1. The(scope.upstreamId) \in scope.upstreamId
    BY <1>2 DEF The, Absent
  <2>2. Named(ups, The(scope.upstreamId)) = Named(others, The(scope.upstreamId))
    BY <2>1 DEF AgreeOn
  <2> QED BY <1>2, <2>2 DEF BoundUpstream
<1>3. CASE scope.upstream = Absent /\ scope.upstreamId = Absent
  BY <1>3 DEF BoundUpstream
<1> QED BY <1>1, <1>2, <1>3

\* And so do a service, a global rule and a route.
Prepared(owner, scope, prepared) ==
  /\ DOMAIN plugin_upstream_jobs(owner, scope) \subseteq prepared
  /\ scope.upstream # Absent => <<owner>> \in prepared

\* A service is compiled alike from upstreams that agree on what it names.
LEMMA SameService ==
  ASSUME NEW n, NEW id, NEW service, PluginsTyped(service), NEW ups, NEW others,
         AgreeOn(scope_upstream_deps(service), ups, others),
         NEW prepared, Prepared(<<"service", id>>, service, prepared)
  PROVE  ProxyServiceBuild(n, id, service, ups, prepared)
         = ProxyServiceBuild(n, id, service, others, Occurrences(<<"service", id>>, service))
<1> DEFINE owner == <<"service", id>>
<1>1. AgreeOn(plugin_upstream_deps(service), ups, others) /\ AgreeOn(service.upstreamId, ups, others)
  BY DEF AgreeOn, scope_upstream_deps
<1> HIDE DEF owner
<1>2. BuildPlugins(n, owner, service, ups, prepared)
      = BuildPlugins(n, owner, service, others, Occurrences(owner, service))
  BY <1>1, SamePlugins DEF Prepared, owner
<1>3. BoundUpstream(n, owner, service, ups, prepared, {})
      = BoundUpstream(n, owner, service, others, Occurrences(owner, service), {})
  BY <1>1, SameUpstream DEF Prepared, owner
<1> QED BY <1>2, <1>3 DEF ProxyServiceBuild, owner

\* So is a global rule.
LEMMA SameRule ==
  ASSUME NEW n, NEW id, NEW rule, PluginsTyped(rule), NEW ups, NEW others,
         AgreeOn(plugin_upstream_deps(rule), ups, others),
         NEW prepared, DOMAIN plugin_upstream_jobs(<<"rule", id>>, rule) \subseteq prepared
  PROVE  ProxyGlobalRuleBuild(n, id, rule, ups, prepared)
         = ProxyGlobalRuleBuild(n, id, rule, others, Occurrences(<<"rule", id>>, rule))
<1>1. BuildPlugins(n, <<"rule", id>>, rule, ups, prepared)
      = BuildPlugins(n, <<"rule", id>>, rule, others, Occurrences(<<"rule", id>>, rule))
  BY SamePlugins
<1> QED BY <1>1 DEF ProxyGlobalRuleBuild

ServicesAgreeOn(sids, services, others) ==
  \A sid \in sids : sid \in DOMAIN services /\ sid \in DOMAIN others /\ services[sid] = others[sid]

\* So is a route, if its service is the same one.
LEMMA SameRoute ==
  ASSUME NEW n, NEW id, NEW route, PluginsTyped(route), NEW ups, NEW others,
         AgreeOn(scope_upstream_deps(route), ups, others),
         NEW services, NEW others2, ServicesAgreeOn(route.serviceId, services, others2),
         NEW prepared, Prepared(<<"route", id>>, route, prepared)
  PROVE  ProxyRouteBuild(n, id, route, ups, services, prepared)
         = ProxyRouteBuild(n, id, route, others, others2, Occurrences(<<"route", id>>, route))
<1> DEFINE owner == <<"route", id>>
           bound(sv) == {IF sid \in DOMAIN sv THEN sv[sid] ELSE Missing : sid \in route.serviceId}
           inherited == UNION {s.upstream : s \in bound(services) \ {Missing}}
<1>1. AgreeOn(plugin_upstream_deps(route), ups, others) /\ AgreeOn(route.upstreamId, ups, others)
  BY DEF AgreeOn, scope_upstream_deps
<1>2. bound(services) = bound(others2)
  BY DEF ServicesAgreeOn
<1> HIDE DEF owner
<1>3. BuildPlugins(n, owner, route, ups, prepared)
      = BuildPlugins(n, owner, route, others, Occurrences(owner, route))
  BY <1>1, SamePlugins DEF Prepared, owner
<1>4. BoundUpstream(n, owner, route, ups, prepared, inherited)
      = BoundUpstream(n, owner, route, others, Occurrences(owner, route), inherited)
  BY <1>1, SameUpstream DEF Prepared, owner
<1> QED BY <1>2, <1>3, <1>4 DEF ProxyRouteBuild, owner

\* The plan asks for every upstream that is compiled afresh.
LEMMA MergedDomain ==
  ASSUME NEW functions, NEW f \in functions
  PROVE  DOMAIN f \subseteq DOMAIN Merged(functions)
BY DEF Merged

\* The plan asks for the inline upstreams of every object it does not reuse.
LEMMA JobsCover ==
  ASSUME NEW g, NEW s
  PROVE  /\ \A id \in DOMAIN g.upstreams \ reused_upstreams(g, s) :
              <<<<"upstream", id>>>> \in DOMAIN Jobs(g, s)
         /\ \A id \in DOMAIN g.services \ reused_services(g, s) :
              Prepared(<<"service", id>>, g.services[id], DOMAIN Jobs(g, s))
         /\ \A id \in DOMAIN g.globalRules \ reused_global_rules(g, s) :
              DOMAIN plugin_upstream_jobs(<<"rule", id>>, g.globalRules[id]) \subseteq DOMAIN Jobs(g, s)
         /\ \A id \in DOMAIN g.routes \ reused_routes(g, s) :
              Prepared(<<"route", id>>, g.routes[id], DOMAIN Jobs(g, s))
<1> DEFINE all == {[o \in {<<<<"upstream", id>>>>} |-> g.upstreams[id]] :
                     id \in DOMAIN g.upstreams \ reused_upstreams(g, s)}
           ofServices == UNION {{InlineJob(<<"service", id>>, g.services[id]),
                                 plugin_upstream_jobs(<<"service", id>>, g.services[id])} :
                                   id \in DOMAIN g.services \ reused_services(g, s)}
           ofRules == {plugin_upstream_jobs(<<"rule", id>>, g.globalRules[id]) :
                         id \in DOMAIN g.globalRules \ reused_global_rules(g, s)}
           ofRoutes == UNION {{InlineJob(<<"route", id>>, g.routes[id]),
                               plugin_upstream_jobs(<<"route", id>>, g.routes[id])} :
                                 id \in DOMAIN g.routes \ reused_routes(g, s)}
           jobs == all \cup ofServices \cup ofRules \cup ofRoutes
<1>1. Jobs(g, s) = Merged(jobs)
  BY Zenon DEF Jobs
<1>2. \A f \in jobs : DOMAIN f \subseteq DOMAIN Jobs(g, s)
  BY <1>1, MergedDomain
<1>3. ASSUME NEW owner, NEW scope, InlineJob(owner, scope) \in jobs, plugin_upstream_jobs(owner, scope) \in jobs
      PROVE  Prepared(owner, scope, DOMAIN Jobs(g, s))
  <2>1. scope.upstream # Absent => <<owner>> \in DOMAIN InlineJob(owner, scope)
    BY DEF InlineJob
  <2> HIDE DEF jobs
  <2> QED BY <1>2, <1>3, <2>1 DEF Prepared
<1>4. ASSUME NEW id \in DOMAIN g.upstreams \ reused_upstreams(g, s)
      PROVE  <<<<"upstream", id>>>> \in DOMAIN Jobs(g, s)
  <2> DEFINE f == [o \in {<<<<"upstream", id>>>>} |-> g.upstreams[id]]
  <2>1. f \in jobs
    OBVIOUS
  <2> HIDE DEF jobs
  <2>2. DOMAIN f \subseteq DOMAIN Jobs(g, s)
    BY <1>2, <2>1
  <2> QED BY <2>2
<1>5. ASSUME NEW id \in DOMAIN g.services \ reused_services(g, s)
      PROVE  Prepared(<<"service", id>>, g.services[id], DOMAIN Jobs(g, s))
  <2>1. /\ InlineJob(<<"service", id>>, g.services[id]) \in jobs
        /\ plugin_upstream_jobs(<<"service", id>>, g.services[id]) \in jobs
    OBVIOUS
  <2> QED BY <1>3, <2>1
<1>6. ASSUME NEW id \in DOMAIN g.globalRules \ reused_global_rules(g, s)
      PROVE  DOMAIN plugin_upstream_jobs(<<"rule", id>>, g.globalRules[id]) \subseteq DOMAIN Jobs(g, s)
  <2>1. plugin_upstream_jobs(<<"rule", id>>, g.globalRules[id]) \in jobs
    OBVIOUS
  <2> QED BY <1>2, <2>1
<1>7. ASSUME NEW id \in DOMAIN g.routes \ reused_routes(g, s)
      PROVE  Prepared(<<"route", id>>, g.routes[id], DOMAIN Jobs(g, s))
  <2>1. /\ InlineJob(<<"route", id>>, g.routes[id]) \in jobs
        /\ plugin_upstream_jobs(<<"route", id>>, g.routes[id]) \in jobs
    OBVIOUS
  <2> QED BY <1>3, <2>1
<1> QED BY <1>4, <1>5, <1>6, <1>7

\* An object that was compiled earlier was compiled from what it would be given now.
LEMMA OwnPrepared ==
  ASSUME NEW owner, NEW scope
  PROVE  /\ Prepared(owner, scope, Occurrences(owner, scope))
         /\ DOMAIN plugin_upstream_jobs(owner, scope) \subseteq Occurrences(owner, scope)
BY DEF Prepared, Occurrences

\* The snapshot built by the plan is the one the constructors would make of the new
\* graph from nothing, but for the attempts its objects are of.
LEMMA RebuiltSnapshot ==
  ASSUME NEW s, NEW g, SnapshotOf(s, g), NEW h, Accepted(h), NEW n, NEW t,
         t = build_prepared(n, h, CandidatePlan(h, s), DOMAIN Jobs(h, s), s)
  PROVE  SnapshotOf(t, h)
<1> DEFINE jobs == DOMAIN Jobs(h, s)
<1>1. /\ t.upstreams = [id \in DOMAIN h.upstreams |->
           IF id \in reused_upstreams(h, s) THEN s.upstreams[id]
           ELSE ProxyUpstreamBuild(n, <<<<"upstream", id>>>>, h.upstreams[id], jobs)]
      /\ t.services = [id \in DOMAIN h.services |->
           IF id \in reused_services(h, s) THEN s.services[id]
           ELSE ProxyServiceBuild(n, id, h.services[id], t.upstreams, jobs)]
      /\ t.globalRules = [id \in DOMAIN h.globalRules |->
           IF id \in reused_global_rules(h, s) THEN s.globalRules[id]
           ELSE ProxyGlobalRuleBuild(n, id, h.globalRules[id], t.upstreams, jobs)]
      /\ t.routes = [id \in DOMAIN h.routes |->
           IF id \in reused_routes(h, s) THEN s.routes[id]
           ELSE ProxyRouteBuild(n, id, h.routes[id], t.upstreams, t.services, jobs)]
      /\ t.ssls = [id \in DOMAIN h.ssls |->
           IF id \in reused_ssls(h, s) THEN s.ssls[id] ELSE ProxySSLBuild(n, id, h.ssls[id])]
  BY DEF build_prepared, CandidatePlan
<1> HIDE DEF jobs
<1>2. \A id \in DOMAIN h.services : PluginsTyped(h.services[id])
  BY DEF Accepted, GraphTyped
<1>3. UpstreamsBuilt(t, h)
  <2> SUFFICES ASSUME NEW id \in DOMAIN h.upstreams
      PROVE \E m : t.upstreams[id] = [arc |-> <<m, <<<<"upstream", id>>>>>>, inner |-> h.upstreams[id]]
    BY <1>1 DEF UpstreamsBuilt
  <2>1. CASE id \in reused_upstreams(h, s)
    <3>1. id \in DOMAIN s.upstreams /\ s.upstreams[id].inner = h.upstreams[id]
      BY <2>1 DEF reused_upstreams
    <3>2. PICK m : s.upstreams[id] = [arc |-> <<m, <<<<"upstream", id>>>>>>, inner |-> g.upstreams[id]]
      BY <3>1 DEF SnapshotOf, UpstreamsBuilt
    <3>3. s.upstreams[id].inner = g.upstreams[id]
      BY <3>2
    <3>4. t.upstreams[id] = s.upstreams[id]
      BY <1>1, <2>1
    <3>5. t.upstreams[id] = [arc |-> <<m, <<<<"upstream", id>>>>>>, inner |-> h.upstreams[id]]
      BY <3>1, <3>2, <3>3, <3>4
    <3> QED BY <3>5
  <2>2. CASE id \notin reused_upstreams(h, s)
    <3>1. <<<<"upstream", id>>>> \in jobs
      BY <2>2, JobsCover DEF jobs
    <3>2. t.upstreams[id] = ProxyUpstreamBuild(n, <<<<"upstream", id>>>>, h.upstreams[id], jobs)
      BY <1>1, <2>2
    <3> QED BY <3>1, <3>2 DEF ProxyUpstreamBuild
  <2> QED BY <2>1, <2>2
<1>4. ASSUME NEW ids, ids \subseteq reused_upstreams(h, s) PROVE AgreeOn(ids, s.upstreams, t.upstreams)
  <2> SUFFICES ASSUME NEW id \in ids PROVE Named(s.upstreams, id) = Named(t.upstreams, id)
    BY DEF AgreeOn
  <2>1. id \in reused_upstreams(h, s) /\ id \in DOMAIN h.upstreams /\ id \in DOMAIN s.upstreams
    BY <1>4 DEF reused_upstreams
  <2>2. t.upstreams[id] = s.upstreams[id] /\ id \in DOMAIN t.upstreams
    BY <1>1, <2>1
  <2> QED BY <2>1, <2>2 DEF Named
<1>5. \A ids : AgreeOn(ids, t.upstreams, t.upstreams)
  BY DEF AgreeOn
<1>6. ServicesBuilt(t, h)
  <2> SUFFICES ASSUME NEW id \in DOMAIN h.services
      PROVE \E m : t.services[id] =
              ProxyServiceBuild(m, id, h.services[id], t.upstreams, Occurrences(<<"service", id>>, h.services[id]))
    BY <1>1 DEF ServicesBuilt
  <2> DEFINE service == h.services[id]
  <2>0. PluginsTyped(service)
    BY <1>2
  <2>1. CASE id \in reused_services(h, s)
    <3>1. /\ id \in DOMAIN s.services /\ s.services[id].inner = service
          /\ scope_upstream_deps(service) \subseteq reused_upstreams(h, s)
      BY <2>1 DEF reused_services
    <3>2. id \in DOMAIN g.services /\ g.services[id] = service
      BY <3>1, ConfigurationsMatch DEF BuiltFrom
    <3>3. PICK m : s.services[id] =
                ProxyServiceBuild(m, id, service, s.upstreams, Occurrences(<<"service", id>>, service))
      BY <3>2 DEF SnapshotOf, ServicesBuilt
    <3>4. AgreeOn(scope_upstream_deps(service), s.upstreams, t.upstreams)
      BY <1>4, <3>1
    <3> HIDE DEF service
    <3>5. s.services[id] =
            ProxyServiceBuild(m, id, service, t.upstreams, Occurrences(<<"service", id>>, service))
      BY <2>0, <3>3, <3>4, OwnPrepared, SameService
    <3>6. t.services[id] = s.services[id]
      BY <1>1, <2>1
    <3> QED BY <3>5, <3>6 DEF service
  <2>2. CASE id \notin reused_services(h, s)
    <3>1. Prepared(<<"service", id>>, service, jobs)
      BY <2>2, JobsCover DEF jobs
    <3>2. t.services[id] = ProxyServiceBuild(n, id, service, t.upstreams, jobs)
      BY <1>1, <2>2
    <3> HIDE DEF service
    <3>3. t.services[id] =
            ProxyServiceBuild(n, id, service, t.upstreams, Occurrences(<<"service", id>>, service))
      BY <1>5, <2>0, <3>1, <3>2, SameService
    <3> QED BY <3>3 DEF service
  <2> QED BY <2>1, <2>2
<1>7. RulesBuilt(t, h)
  <2> SUFFICES ASSUME NEW id \in DOMAIN h.globalRules
      PROVE \E m : t.globalRules[id] =
              ProxyGlobalRuleBuild(m, id, h.globalRules[id], t.upstreams, Occurrences(<<"rule", id>>, h.globalRules[id]))
    BY <1>1 DEF RulesBuilt
  <2> DEFINE rule == h.globalRules[id]
  <2>0. PluginsTyped(rule)
    BY DEF Accepted, GraphTyped
  <2>1. CASE id \in reused_global_rules(h, s)
    <3>1. /\ id \in DOMAIN s.globalRules /\ s.globalRules[id].inner = rule
          /\ plugin_upstream_deps(rule) \subseteq reused_upstreams(h, s)
      BY <2>1 DEF reused_global_rules
    <3>2. id \in DOMAIN g.globalRules /\ g.globalRules[id] = rule
      BY <3>1, ConfigurationsMatch DEF BuiltFrom
    <3>3. PICK m : s.globalRules[id] =
                ProxyGlobalRuleBuild(m, id, rule, s.upstreams, Occurrences(<<"rule", id>>, rule))
      BY <3>2 DEF SnapshotOf, RulesBuilt
    <3>4. AgreeOn(plugin_upstream_deps(rule), s.upstreams, t.upstreams)
      BY <1>4, <3>1
    <3> HIDE DEF rule
    <3>5. s.globalRules[id] = ProxyGlobalRuleBuild(m, id, rule, t.upstreams, Occurrences(<<"rule", id>>, rule))
      BY <2>0, <3>3, <3>4, OwnPrepared, SameRule
    <3>6. t.globalRules[id] = s.globalRules[id]
      BY <1>1, <2>1
    <3> QED BY <3>5, <3>6 DEF rule
  <2>2. CASE id \notin reused_global_rules(h, s)
    <3>1. DOMAIN plugin_upstream_jobs(<<"rule", id>>, rule) \subseteq jobs
      BY <2>2, JobsCover DEF jobs
    <3>2. t.globalRules[id] = ProxyGlobalRuleBuild(n, id, rule, t.upstreams, jobs)
      BY <1>1, <2>2
    <3> HIDE DEF rule
    <3>3. t.globalRules[id] = ProxyGlobalRuleBuild(n, id, rule, t.upstreams, Occurrences(<<"rule", id>>, rule))
      BY <1>5, <2>0, <3>1, <3>2, SameRule
    <3> QED BY <3>3 DEF rule
  <2> QED BY <2>1, <2>2
<1>8. RoutesBuilt(t, h)
  <2> SUFFICES ASSUME NEW id \in DOMAIN h.routes
      PROVE \E m : t.routes[id] =
              ProxyRouteBuild(m, id, h.routes[id], t.upstreams, t.services, Occurrences(<<"route", id>>, h.routes[id]))
    BY <1>1 DEF RoutesBuilt
  <2> DEFINE route == h.routes[id]
  <2>0. PluginsTyped(route)
    BY DEF Accepted, GraphTyped
  <2>1. CASE id \in reused_routes(h, s)
    <3>1. /\ id \in DOMAIN s.routes /\ s.routes[id].inner = route
          /\ scope_upstream_deps(route) \subseteq reused_upstreams(h, s)
          /\ route.serviceId \subseteq reused_services(h, s)
      BY <2>1 DEF reused_routes
    <3>2. id \in DOMAIN g.routes /\ g.routes[id] = route
      BY <3>1, ConfigurationsMatch DEF BuiltFrom
    <3>3. PICK m : s.routes[id] =
                ProxyRouteBuild(m, id, route, s.upstreams, s.services, Occurrences(<<"route", id>>, route))
      BY <3>2 DEF SnapshotOf, RoutesBuilt
    <3>4. AgreeOn(scope_upstream_deps(route), s.upstreams, t.upstreams)
      BY <1>4, <3>1
    <3>5. ServicesAgreeOn(route.serviceId, s.services, t.services)
      <4> SUFFICES ASSUME NEW sid \in route.serviceId
                   PROVE  sid \in DOMAIN s.services /\ sid \in DOMAIN t.services /\ s.services[sid] = t.services[sid]
        BY DEF ServicesAgreeOn
      <4>1. sid \in reused_services(h, s) /\ sid \in DOMAIN h.services /\ sid \in DOMAIN s.services
        BY <3>1 DEF reused_services
      <4> QED BY <1>1, <4>1
    <3> HIDE DEF route
    <3>6. s.routes[id] =
            ProxyRouteBuild(m, id, route, t.upstreams, t.services, Occurrences(<<"route", id>>, route))
      BY <2>0, <3>3, <3>4, <3>5, OwnPrepared, SameRoute
    <3>7. t.routes[id] = s.routes[id]
      BY <1>1, <2>1
    <3> QED BY <3>6, <3>7 DEF route
  <2>2. CASE id \notin reused_routes(h, s)
    <3>1. Prepared(<<"route", id>>, route, jobs)
      BY <2>2, JobsCover DEF jobs
    <3>2. t.routes[id] = ProxyRouteBuild(n, id, route, t.upstreams, t.services, jobs)
      BY <1>1, <2>2
    <3>3. ServicesAgreeOn(route.serviceId, t.services, t.services)
      BY <1>1, DependenciesExist DEF ServicesAgreeOn
    <3> HIDE DEF route
    <3>4. t.routes[id] =
            ProxyRouteBuild(n, id, route, t.upstreams, t.services, Occurrences(<<"route", id>>, route))
      BY <1>5, <2>0, <3>1, <3>2, <3>3, SameRoute
    <3> QED BY <3>4 DEF route
  <2> QED BY <2>1, <2>2
<1>9. SslsBuilt(t, h)
  BY <1>1 DEF SslsBuilt, reused_ssls, ProxySSLBuild
<1> QED BY <1>3, <1>6, <1>7, <1>8, <1>9 DEF SnapshotOf

--------------------------------------------------------------------------------
(* The upstreams of a compiled snapshot. *)

\* u is the upstream built for an inline target of a traffic-split of scope.
OwnTarget(n, owner, scope, u) ==
  \E rules \in scope.split : \E i \in DOMAIN rules : \E j \in DOMAIN rules[i] :
    \E x \in rules[i][j].upstream : u = [arc |-> <<n, <<owner, i, j>>>>, inner |-> x]

\* A traffic-split sends requests to the upstreams its scope names and to those
\* built for its inline targets.
LEMMA TargetsOfPlugins ==
  ASSUME NEW n, NEW owner, NEW scope, PluginsTyped(scope), NEW ups,
         NEW u \in SplitTargets(BuildPlugins(n, owner, scope, ups, Occurrences(owner, scope)))
  PROVE  (\E id \in plugin_upstream_deps(scope) : u = Named(ups, id)) \/ OwnTarget(n, owner, scope, u)
<1> DEFINE plugin(rules) == create_traffic_split_plugin(n, owner, rules, ups, Occurrences(owner, scope))
<1>1. BuildPlugins(n, owner, scope, ups, Occurrences(owner, scope)) = {plugin(rules) : rules \in scope.split}
  BY DEF BuildPlugins
<1> HIDE DEF plugin
<1>2. PICK rules \in scope.split : \E rule \in RangeOf(plugin(rules)) : \E targets \in RangeOf(rule) : u \in targets
  BY <1>1 DEF SplitTargets
<1>3. PICK rule \in RangeOf(plugin(rules)) : \E targets \in RangeOf(rule) : u \in targets
  BY <1>2
<1>4. DOMAIN plugin(rules) = DOMAIN rules
      /\ \A i \in DOMAIN rules :
           /\ DOMAIN plugin(rules)[i] = DOMAIN rules[i]
           /\ \A j \in DOMAIN rules[i] :
                plugin(rules)[i][j] = {Named(ups, id) : id \in rules[i][j].upstreamId}
                  \cup {ProxyUpstreamBuild(n, <<owner, i, j>>, x, Occurrences(owner, scope)) : x \in rules[i][j].upstream}
  BY DEF plugin, create_traffic_split_plugin
<1>5. PICK i \in DOMAIN rules : rule = plugin(rules)[i]
  BY <1>3, <1>4 DEF RangeOf
<1>6. PICK j \in DOMAIN rules[i] : u \in plugin(rules)[i][j]
  BY <1>3, <1>4, <1>5 DEF RangeOf
<1>7. CASE \E id \in rules[i][j].upstreamId : u = Named(ups, id)
  BY <1>7, TargetNamed
<1>8. ASSUME NEW x \in rules[i][j].upstream, u = ProxyUpstreamBuild(n, <<owner, i, j>>, x, Occurrences(owner, scope))
      PROVE  OwnTarget(n, owner, scope, u)
  <2>1. <<owner, i, j>> \in Occurrences(owner, scope)
    BY TargetPrepared DEF Occurrences
  <2>2. u = [arc |-> <<n, <<owner, i, j>>>>, inner |-> x]
    BY <1>8, <2>1 DEF ProxyUpstreamBuild
  <2> QED BY <2>2 DEF OwnTarget
<1> QED BY <1>4, <1>6, <1>7, <1>8

\* A built upstream is not the mark of an error.
LEMMA BuiltNotMissing ==
  ASSUME NEW n, NEW owner, NEW x
  PROVE  /\ [arc |-> <<n, <<owner>>>>, inner |-> x] # Missing
         /\ \A i, j : [arc |-> <<n, <<owner, i, j>>>>, inner |-> x] # Missing
<1>1. \A a, b : [arc |-> a, inner |-> x].arc = a
  OBVIOUS
<1>2. Missing.arc[2] = <<>>
  BY DEF Missing
<1>3. <<n, <<owner>>>>[2] = <<owner>> /\ <<owner>> # <<>>
  OBVIOUS
<1>4. \A i, j : <<n, <<owner, i, j>>>>[2] = <<owner, i, j>> /\ <<owner, i, j>> # <<>>
  OBVIOUS
<1> QED BY <1>1, <1>2, <1>3, <1>4

\* The upstreams of a snapshot, by id.
LEMMA NamedBuilt ==
  ASSUME NEW s, NEW g, UpstreamsBuilt(s, g), NEW id \in DOMAIN g.upstreams
  PROVE  /\ Named(s.upstreams, id) = s.upstreams[id] /\ s.upstreams[id] \in RangeOf(s.upstreams)
         /\ s.upstreams[id] # Missing
<1>1. PICK n : s.upstreams[id] = [arc |-> <<n, <<<<"upstream", id>>>>>>, inner |-> g.upstreams[id]]
  BY DEF UpstreamsBuilt
<1>2. s.upstreams[id] # Missing
  BY <1>1, BuiltNotMissing
<1> QED BY <1>2 DEF UpstreamsBuilt, Named, RangeOf

\* If the ids exist, a traffic-split resolves all its targets.
LEMMA TargetsNotMissing ==
  ASSUME NEW s, NEW g, UpstreamsBuilt(s, g), NEW n, NEW owner, NEW scope, PluginsTyped(scope),
         plugin_upstream_deps(scope) \subseteq DOMAIN g.upstreams
  PROVE  Missing \notin SplitTargets(BuildPlugins(n, owner, scope, s.upstreams, Occurrences(owner, scope)))
<1> SUFFICES ASSUME Missing \in SplitTargets(BuildPlugins(n, owner, scope, s.upstreams, Occurrences(owner, scope)))
             PROVE  FALSE
  OBVIOUS
<1>1. CASE \E id \in plugin_upstream_deps(scope) : Missing = Named(s.upstreams, id)
  BY <1>1, NamedBuilt
<1>2. CASE OwnTarget(n, owner, scope, Missing)
  BY <1>2, BuiltNotMissing DEF OwnTarget
<1> QED BY <1>1, <1>2, TargetsOfPlugins

\* If the id exists, a scope resolves its own upstream.
LEMMA UpstreamNotMissing ==
  ASSUME NEW s, NEW g, UpstreamsBuilt(s, g), NEW n, NEW owner, NEW scope,
         scope.upstreamId \subseteq DOMAIN g.upstreams, NEW inherited, Missing \notin inherited
  PROVE  Missing \notin BoundUpstream(n, owner, scope, s.upstreams, Occurrences(owner, scope), inherited)
<1>1. CASE scope.upstream # Absent
  <2>1. <<owner>> \in Occurrences(owner, scope)
    BY DEF Occurrences
  <2>2. ProxyUpstreamBuild(n, <<owner>>, The(scope.upstream), Occurrences(owner, scope)) # Missing
    BY <2>1, BuiltNotMissing DEF ProxyUpstreamBuild
  <2> QED BY <1>1, <2>2 DEF BoundUpstream
<1>2. CASE scope.upstream = Absent /\ scope.upstreamId # Absent
  <2>1. The(scope.upstreamId) \in scope.upstreamId
    BY <1>2 DEF The, Absent
  <2>2. Named(s.upstreams, The(scope.upstreamId)) # Missing
    BY <2>1, NamedBuilt
  <2> QED BY <1>2, <2>2 DEF BoundUpstream
<1>3. CASE scope.upstream = Absent /\ scope.upstreamId = Absent
  BY <1>3 DEF BoundUpstream
<1> QED BY <1>1, <1>2, <1>3

\* A compiled service, global rule and route, field by field.
ServiceFields(s, g, id, n) ==
  /\ s.services[id].arc = <<n, <<"service", id>>>>
  /\ s.services[id].inner = g.services[id]
  /\ s.services[id].upstream =
       BoundUpstream(n, <<"service", id>>, g.services[id], s.upstreams, Occurrences(<<"service", id>>, g.services[id]), {})
  /\ s.services[id].plugins =
       BuildPlugins(n, <<"service", id>>, g.services[id], s.upstreams, Occurrences(<<"service", id>>, g.services[id]))

\* A compiled service has these fields, for the attempt it is of.
LEMMA ServiceParts ==
  ASSUME NEW s, NEW g, ServicesBuilt(s, g), NEW id \in DOMAIN g.services
  PROVE  \E n : ServiceFields(s, g, id, n)
<1>1. PICK n : s.services[id] =
        ProxyServiceBuild(n, id, g.services[id], s.upstreams, Occurrences(<<"service", id>>, g.services[id]))
  BY DEF ServicesBuilt
<1> WITNESS n
<1> QED BY <1>1 DEF ProxyServiceBuild, ServiceFields

RuleFields(s, g, id, n) ==
  /\ s.globalRules[id].arc = <<n, <<"rule", id>>>>
  /\ s.globalRules[id].plugins =
       BuildPlugins(n, <<"rule", id>>, g.globalRules[id], s.upstreams, Occurrences(<<"rule", id>>, g.globalRules[id]))

\* A compiled global rule has these fields.
LEMMA RuleParts ==
  ASSUME NEW s, NEW g, RulesBuilt(s, g), NEW id \in DOMAIN g.globalRules
  PROVE  \E n : RuleFields(s, g, id, n)
<1>1. PICK n : s.globalRules[id] =
        ProxyGlobalRuleBuild(n, id, g.globalRules[id], s.upstreams, Occurrences(<<"rule", id>>, g.globalRules[id]))
  BY DEF RulesBuilt
<1> WITNESS n
<1> QED BY <1>1 DEF ProxyGlobalRuleBuild, RuleFields

ServicesOf(s, route) == {s.services[sid] : sid \in route.serviceId}

RouteFields(s, g, id, n) ==
  /\ s.routes[id].arc = <<n, <<"route", id>>>>
  /\ ~s.routes[id].missing
  /\ s.routes[id].inner = g.routes[id]
  /\ s.routes[id].effectiveHosts =
       IF g.routes[id].hosts # {} THEN g.routes[id].hosts
       ELSE UNION {v.inner.hosts : v \in ServicesOf(s, g.routes[id])}
  /\ s.routes[id].executor =
       IF s.routes[id].plugins # {} THEN s.routes[id].plugins
       ELSE UNION {v.plugins : v \in ServicesOf(s, g.routes[id])}
  /\ s.routes[id].resolvedUpstream =
       BoundUpstream(n, <<"route", id>>, g.routes[id], s.upstreams, Occurrences(<<"route", id>>, g.routes[id]),
                     UNION {v.upstream : v \in ServicesOf(s, g.routes[id])})
  /\ s.routes[id].plugins =
       BuildPlugins(n, <<"route", id>>, g.routes[id], s.upstreams, Occurrences(<<"route", id>>, g.routes[id]))

\* A compiled route has these fields: its service was found.
LEMMA RouteParts ==
  ASSUME NEW s, NEW g, RoutesBuilt(s, g), ServicesBuilt(s, g), NEW id \in DOMAIN g.routes,
         g.routes[id].serviceId \subseteq DOMAIN g.services
  PROVE  \E n : RouteFields(s, g, id, n)
<1>1. PICK n : s.routes[id] =
        ProxyRouteBuild(n, id, g.routes[id], s.upstreams, s.services, Occurrences(<<"route", id>>, g.routes[id]))
  BY DEF RoutesBuilt
<1> DEFINE route == g.routes[id]
           service == {IF sid \in DOMAIN s.services THEN s.services[sid] ELSE Missing : sid \in route.serviceId}
           plugins == BuildPlugins(n, <<"route", id>>, route, s.upstreams, Occurrences(<<"route", id>>, route))
           bound == service \ {Missing}
<1>2. \A sid \in route.serviceId : sid \in DOMAIN s.services /\ s.services[sid] # Missing
  <2> SUFFICES ASSUME NEW sid \in route.serviceId PROVE sid \in DOMAIN s.services /\ s.services[sid] # Missing
    OBVIOUS
  <2>1. sid \in DOMAIN g.services /\ sid \in DOMAIN s.services
    BY DEF ServicesBuilt
  <2>2. PICK m : ServiceFields(s, g, sid, m)
    BY <2>1, ServiceParts
  <2>3. <<m, <<"service", sid>>>>[2] = <<"service", sid>> /\ <<"service", sid>> # <<>>
    OBVIOUS
  <2>4. Missing.arc[2] = <<>>
    BY DEF Missing
  <2> QED BY <2>1, <2>2, <2>3, <2>4 DEF ServiceFields
<1>3. service = ServicesOf(s, route) /\ bound = ServicesOf(s, route) /\ Missing \notin service
  BY <1>2 DEF ServicesOf
<1>4. s.routes[id] =
        [arc |-> <<n, <<"route", id>>>>,
         inner |-> route,
         resolvedUpstream |->
           BoundUpstream(n, <<"route", id>>, route, s.upstreams, Occurrences(<<"route", id>>, route),
                         UNION {v.upstream : v \in bound}),
         effectiveHosts |-> IF route.hosts # {} THEN route.hosts ELSE UNION {v.inner.hosts : v \in bound},
         plugins |-> plugins,
         executor |-> IF plugins # {} THEN plugins ELSE UNION {v.plugins : v \in bound},
         missing |-> Missing \in service]
  BY <1>1 DEF ProxyRouteBuild
<1> HIDE DEF route, service, plugins, bound
<1>5. /\ s.routes[id].missing = (Missing \in service)
      /\ s.routes[id].arc = <<n, <<"route", id>>>>
      /\ s.routes[id].inner = route
      /\ s.routes[id].plugins = plugins
      /\ s.routes[id].effectiveHosts = IF route.hosts # {} THEN route.hosts ELSE UNION {v.inner.hosts : v \in bound}
      /\ s.routes[id].executor = IF plugins # {} THEN plugins ELSE UNION {v.plugins : v \in bound}
      /\ s.routes[id].resolvedUpstream =
           BoundUpstream(n, <<"route", id>>, route, s.upstreams, Occurrences(<<"route", id>>, route),
                         UNION {v.upstream : v \in bound})
  BY <1>4
<1>6. /\ ~s.routes[id].missing
      /\ s.routes[id].arc = <<n, <<"route", id>>>>
      /\ s.routes[id].inner = route
      /\ s.routes[id].effectiveHosts =
              IF route.hosts # {} THEN route.hosts ELSE UNION {v.inner.hosts : v \in ServicesOf(s, route)}
      /\ s.routes[id].executor =
              IF s.routes[id].plugins # {} THEN s.routes[id].plugins
              ELSE UNION {v.plugins : v \in ServicesOf(s, route)}
      /\ s.routes[id].resolvedUpstream =
           BoundUpstream(n, <<"route", id>>, route, s.upstreams, Occurrences(<<"route", id>>, route),
                         UNION {v.upstream : v \in ServicesOf(s, route)})
      /\ s.routes[id].plugins = plugins
  BY <1>3, <1>5
<1>7. RouteFields(s, g, id, n)
  BY <1>6 DEF RouteFields, route, plugins
<1> QED BY <1>7

\* Compiling an accepted graph meets no error.
LEMMA NothingMissing ==
  ASSUME NEW s, NEW g, SnapshotOf(s, g), Accepted(g)
  PROVE  ~BuildFails(s)
<1>1. /\ UpstreamsBuilt(s, g) /\ ServicesBuilt(s, g) /\ RulesBuilt(s, g) /\ RoutesBuilt(s, g)
      /\ DOMAIN s.services = DOMAIN g.services /\ DOMAIN s.routes = DOMAIN g.routes
      /\ DOMAIN s.globalRules = DOMAIN g.globalRules /\ DOMAIN s.upstreams = DOMAIN g.upstreams
  BY DEF SnapshotOf, UpstreamsBuilt, ServicesBuilt, RulesBuilt, RoutesBuilt
<1>2. Missing \notin RangeOf(s.upstreams)
  BY <1>1, NamedBuilt DEF RangeOf
<1>3. ASSUME NEW id \in DOMAIN g.services
      PROVE  Missing \notin s.services[id].upstream /\ Missing \notin SplitTargets(s.services[id].plugins)
  <2>1. PICK n : ServiceFields(s, g, id, n)
    BY <1>1, ServiceParts
  <2>2. PluginsTyped(g.services[id]) /\ plugin_upstream_deps(g.services[id]) \subseteq DOMAIN g.upstreams
        /\ g.services[id].upstreamId \subseteq DOMAIN g.upstreams
    BY DependenciesExist DEF Accepted, GraphTyped, scope_upstream_deps
  <2>3. Missing \notin SplitTargets(s.services[id].plugins)
    BY <1>1, <2>1, <2>2, TargetsNotMissing DEF ServiceFields
  <2>4. Missing \notin {}
    OBVIOUS
  <2>5. Missing \notin BoundUpstream(n, <<"service", id>>, g.services[id], s.upstreams,
                                    Occurrences(<<"service", id>>, g.services[id]), {})
    BY <1>1, <2>2, <2>4, UpstreamNotMissing, Zenon
  <2> QED BY <2>1, <2>3, <2>5 DEF ServiceFields
<1>4. ASSUME NEW id \in DOMAIN g.globalRules PROVE Missing \notin SplitTargets(s.globalRules[id].plugins)
  <2>1. PICK n : RuleFields(s, g, id, n)
    BY <1>1, RuleParts
  <2>2. PluginsTyped(g.globalRules[id]) /\ plugin_upstream_deps(g.globalRules[id]) \subseteq DOMAIN g.upstreams
    BY DependenciesExist DEF Accepted, GraphTyped
  <2> QED BY <1>1, <2>1, <2>2, TargetsNotMissing DEF RuleFields
<1>5. ASSUME NEW id \in DOMAIN g.routes
      PROVE  /\ ~s.routes[id].missing /\ Missing \notin SplitTargets(s.routes[id].plugins)
             /\ Missing \notin SplitTargets(s.routes[id].executor)
             /\ Missing \notin s.routes[id].resolvedUpstream
  <2> DEFINE inherited == UNION {v.upstream : v \in ServicesOf(s, g.routes[id])}
             others == UNION {v.plugins : v \in ServicesOf(s, g.routes[id])}
  <2>1. PluginsTyped(g.routes[id]) /\ plugin_upstream_deps(g.routes[id]) \subseteq DOMAIN g.upstreams
        /\ g.routes[id].upstreamId \subseteq DOMAIN g.upstreams /\ g.routes[id].serviceId \subseteq DOMAIN g.services
    BY DependenciesExist DEF Accepted, GraphTyped, scope_upstream_deps
  <2>2. PICK n : RouteFields(s, g, id, n)
    BY <1>1, <2>1, RouteParts
  <2>3. /\ ~s.routes[id].missing
        /\ s.routes[id].executor = IF s.routes[id].plugins # {} THEN s.routes[id].plugins ELSE others
        /\ s.routes[id].resolvedUpstream =
             BoundUpstream(n, <<"route", id>>, g.routes[id], s.upstreams, Occurrences(<<"route", id>>, g.routes[id]),
                           inherited)
    BY <2>2 DEF RouteFields
  <2>4. Missing \notin inherited /\ Missing \notin SplitTargets(others)
    BY <1>3, <2>1 DEF ServicesOf, SplitTargets
  <2> HIDE DEF inherited, others
  <2>5. Missing \notin BoundUpstream(n, <<"route", id>>, g.routes[id], s.upstreams,
                                    Occurrences(<<"route", id>>, g.routes[id]), inherited)
    BY <1>1, <2>1, <2>4, UpstreamNotMissing, Zenon
  <2>6. Missing \notin SplitTargets(s.routes[id].plugins)
    BY <1>1, <2>1, <2>2, TargetsNotMissing DEF RouteFields
  <2> QED BY <2>3, <2>4, <2>5, <2>6
<1>6. Missing \notin UpstreamsInUse(s)
  BY <1>1, <1>4, <1>5 DEF UpstreamsInUse
<1> QED BY <1>1, <1>2, <1>3, <1>5, <1>6 DEF BuildFails

\* The invariant is inductive: a gated graph always compiles.
LEMMA SnapshotInvNext == SnapshotInv /\ [CompileNext]_compileVars => SnapshotInv'
<1> SUFFICES ASSUME SnapshotInv, [CompileNext]_compileVars PROVE SnapshotInv'
  OBVIOUS
<1>1. ASSUME NEW graph \in ConfigGraphs, Submitted(graph) PROVE SnapshotInv'
  <2>1. /\ candidate' = [step |-> "preparing", graph |-> graph, plan |-> CandidatePlan(graph, liveSnapshot)]
        /\ liveSnapshot' = liveSnapshot /\ liveGraph' = liveGraph /\ compileError' = compileError
        /\ validate_config_set(graph)
    BY <1>1 DEF Submitted
  <2>2. Accepted(graph)
    BY <2>1, OptionalFields DEF Accepted
  <2>3. candidate'.graph = graph /\ candidate'.plan = CandidatePlan(candidate'.graph, liveSnapshot')
    BY <2>1
  <2> QED BY <2>1, <2>2, <2>3 DEF SnapshotInv
<1>2. CASE PreparationFails
  <2>1. candidate'.step # "preparing" /\ liveSnapshot' = liveSnapshot /\ liveGraph' = liveGraph
        /\ compileError' = compileError
    BY <1>2 DEF PreparationFails, Waiting
  <2> QED BY <2>1 DEF SnapshotInv
<1>3. CASE CompileAndPublish
  <2> DEFINE built == build_prepared(attempts, candidate.graph, candidate.plan,
                                     DOMAIN candidate.plan.jobs, liveSnapshot)
  <2>1. candidate.step = "preparing" /\ candidate.plan = CandidatePlan(candidate.graph, liveSnapshot)
        /\ Accepted(candidate.graph) /\ SnapshotOf(liveSnapshot, liveGraph) /\ ~compileError
    BY <1>3 DEF CompileAndPublish, SnapshotInv
  <2>2. candidate.plan.jobs = Jobs(candidate.graph, liveSnapshot)
    BY <2>1 DEF CandidatePlan
  <2>3. SnapshotOf(built, candidate.graph)
    BY <2>1, <2>2, RebuiltSnapshot
  <2>4. ~BuildFails(built) /\ validate_config_set(candidate.graph)
    BY <2>1, <2>3, NothingMissing DEF Accepted
  <2>5. candidate'.step # "preparing"
    BY <1>3 DEF CompileAndPublish, Waiting
  <2>6. liveSnapshot' = built /\ liveGraph' = candidate.graph /\ ~compileError'
    BY <1>3, <2>1, <2>4 DEF CompileAndPublish
  <2> HIDE DEF built
  <2> QED BY <2>1, <2>3, <2>5, <2>6 DEF SnapshotInv
<1>4. CASE UNCHANGED compileVars
  BY <1>4 DEF compileVars, SnapshotInv
<1> QED BY <1>1, <1>2, <1>3, <1>4 DEF CompileNext

\* UntouchedKept: a publication replaces no compiled route and no service whose own
\* configuration, service and named upstreams did not change.
THEOREM UntouchedObjectsKept == CompileSpec => UntouchedKept
<1> DEFINE Spared ==
      liveSnapshot' # liveSnapshot =>
       /\ \A id \in DOMAIN liveGraph.routes \cap DOMAIN liveGraph'.routes :
            (RouteClosure(liveGraph, liveGraph.routes[id])
               = RouteClosure(liveGraph', liveGraph'.routes[id]))
              => (liveSnapshot'.routes[id] = liveSnapshot.routes[id])
       /\ \A id \in DOMAIN liveGraph.services \cap DOMAIN liveGraph'.services :
            (ServiceClosure(liveGraph, liveGraph.services[id])
               = ServiceClosure(liveGraph', liveGraph'.services[id]))
              => (liveSnapshot'.services[id] = liveSnapshot.services[id])
<1>1. SnapshotInv /\ [CompileNext]_compileVars => [Spared]_compileVars
  <2> SUFFICES ASSUME SnapshotInv, CompileNext, liveSnapshot' # liveSnapshot PROVE Spared
    OBVIOUS
  <2>1. CompileAndPublish
    BY DEF CompileNext, Submitted, PreparationFails
  <2> QED BY <2>1, UnchangedKept
<1> QED BY <1>1, SnapshotInvInit, SnapshotInvNext, PTL DEF CompileSpec, UntouchedKept

--------------------------------------------------------------------------------
(* The health checks of a compiled snapshot. *)

\* u is the upstream built for the inline upstream of scope itself.
OwnInline(n, owner, scope, u) == \E x \in scope.upstream : u = [arc |-> <<n, <<owner>>>>, inner |-> x]

\* The scopes of a graph, and what a snapshot has compiled for one.
ScopeOwners(g) ==
  {<<"service", id>> : id \in DOMAIN g.services} \cup {<<"rule", id>> : id \in DOMAIN g.globalRules}
  \cup {<<"route", id>> : id \in DOMAIN g.routes}
ScopeAt(x, owner) ==
  CASE owner[1] = "service" -> x.services[owner[2]]
    [] owner[1] = "rule" -> x.globalRules[owner[2]]
    [] OTHER -> x.routes[owner[2]]

\* u is an upstream of the snapshot, built for this owner.
Own(s, g, owner, u) ==
  \/ \E id \in DOMAIN g.upstreams : owner = <<"upstream", id>> /\ u = s.upstreams[id]
  \/ /\ owner \in ScopeOwners(g)
     /\ \/ /\ owner[1] # "rule"
           /\ OwnInline(ScopeAt(s, owner).arc[1], owner, ScopeAt(g, owner), u)
        \/ OwnTarget(ScopeAt(s, owner).arc[1], owner, ScopeAt(g, owner), u)

\* Where an upstream was built: at its owner, or at a target of its owner.
LEMMA OwnPlace ==
  ASSUME NEW s, NEW g, UpstreamsBuilt(s, g), NEW owner, NEW u, Own(s, g, owner, u)
  PROVE  /\ u.arc[2][1] = owner
         /\ \/ u.arc[2] = <<owner>>
            \/ owner[1] # "upstream" /\ \E i, j : u.arc[2] = <<owner, i, j>>
<1>1. ASSUME NEW id \in DOMAIN g.upstreams, owner = <<"upstream", id>>, u = s.upstreams[id]
      PROVE  u.arc[2] = <<owner>>
  <2>1. PICK n : u = [arc |-> <<n, <<<<"upstream", id>>>>>>, inner |-> g.upstreams[id]]
    BY <1>1 DEF UpstreamsBuilt
  <2> QED BY <1>1, <2>1
<1>2. ASSUME NEW n, NEW scope, OwnInline(n, owner, scope, u) PROVE u.arc[2] = <<owner>>
  BY <1>2 DEF OwnInline
<1>3. ASSUME NEW n, NEW scope, OwnTarget(n, owner, scope, u) PROVE \E i, j : u.arc[2] = <<owner, i, j>>
  BY <1>3 DEF OwnTarget
<1>4. owner \in ScopeOwners(g) => owner[1] # "upstream"
  BY DEF ScopeOwners
<1>5. \/ u.arc[2] = <<owner>>
      \/ owner[1] # "upstream" /\ \E i, j : u.arc[2] = <<owner, i, j>>
  BY <1>1, <1>2, <1>3, <1>4 DEF Own
<1> QED BY <1>5

\* Two upstreams at one place are one.
LEMMA OwnUnique ==
  ASSUME NEW s, NEW g, UpstreamsBuilt(s, g), GraphTyped(g),
         NEW o, NEW p, NEW u, NEW v, Own(s, g, o, u), Own(s, g, p, v), u.arc[2] = v.arc[2]
  PROVE  u = v
<1>1. o = p
  BY OwnPlace
<1> DEFINE n == ScopeAt(s, o).arc[1]
           scope == ScopeAt(g, o)
<1>2. CASE \E id \in DOMAIN g.upstreams : o = <<"upstream", id>>
  <2>1. o \notin ScopeOwners(g)
    BY <1>2 DEF ScopeOwners
  <2> QED BY <1>1, <2>1 DEF Own
<1>3. CASE ~ \E id \in DOMAIN g.upstreams : o = <<"upstream", id>>
  <2>1. /\ o \in ScopeOwners(g)
        /\ (o[1] # "rule" /\ OwnInline(n, o, scope, u)) \/ OwnTarget(n, o, scope, u)
        /\ (o[1] # "rule" /\ OwnInline(n, o, scope, v)) \/ OwnTarget(n, o, scope, v)
    BY <1>1, <1>3 DEF Own
  <2>2. PluginsTyped(scope) /\ (o[1] # "rule" => Optional(scope.upstream))
    BY <2>1 DEF ScopeOwners, ScopeAt, GraphTyped, BindingTyped
  <2> HIDE DEF n, scope
  <2>3. CASE OwnInline(n, o, scope, u) /\ OwnInline(n, o, scope, v) /\ o[1] # "rule"
    BY <2>2, <2>3 DEF OwnInline, Optional
  <2>4. CASE OwnTarget(n, o, scope, u) /\ OwnTarget(n, o, scope, v)
    <3>1. PICK rules, i, j, x :
            /\ rules \in scope.split /\ i \in DOMAIN rules /\ j \in DOMAIN rules[i] /\ x \in rules[i][j].upstream
            /\ u = [arc |-> <<n, <<o, i, j>>>>, inner |-> x]
      BY <2>4 DEF OwnTarget
    <3>2. PICK rules2, k, l, y :
            /\ rules2 \in scope.split /\ k \in DOMAIN rules2 /\ l \in DOMAIN rules2[k] /\ y \in rules2[k][l].upstream
            /\ v = [arc |-> <<n, <<o, k, l>>>>, inner |-> y]
      BY <2>4 DEF OwnTarget
    <3>3. rules = rules2
      BY <2>2, <3>1, <3>2 DEF PluginsTyped, Optional
    <3>4. u.arc[2] = <<o, i, j>> /\ v.arc[2] = <<o, k, l>>
      BY <3>1, <3>2
    <3>5. i = k /\ j = l
      <4>1. <<o, i, j>> = <<o, k, l>>
        BY <3>4
      <4> QED BY ONLY <4>1
    <3>6. x = y
      BY <2>2, <3>1, <3>2, <3>3, <3>5 DEF PluginsTyped, Optional
    <3>7. v = [arc |-> <<n, <<o, i, j>>>>, inner |-> x]
      BY <3>2, <3>5, <3>6
    <3> QED BY <3>1, <3>7
  <2>5. \A w, z : OwnInline(n, o, scope, w) /\ OwnTarget(n, o, scope, z) => w.arc[2] # z.arc[2]
    <3> SUFFICES ASSUME NEW w, NEW z, OwnInline(n, o, scope, w), OwnTarget(n, o, scope, z) PROVE w.arc[2] # z.arc[2]
      OBVIOUS
    <3>1. w.arc[2] = <<o>>
      BY DEF OwnInline
    <3>2. PICK i, j : z.arc[2] = <<o, i, j>>
      BY DEF OwnTarget
    <3>3. Len(<<o>>) = 1 /\ Len(<<o, i, j>>) = 3
      OBVIOUS
    <3>4. <<o>> # <<o, i, j>>
      BY <3>3
    <3> QED BY <3>1, <3>2, <3>4
  <2> QED BY <2>1, <2>3, <2>4, <2>5
<1> QED BY <1>2, <1>3

\* The key and the check of an upstream.
KeyOf(place) == IF place = <<place[1]>> /\ place[1][1] # "upstream" THEN <<place[1], "inline">> ELSE place
CheckOf(u) == [key |-> KeyOf(u.arc[2]), fingerprint |-> health_check_fingerprint(u.inner), service |-> u.arc]

\* The key of an upstream tells its kind of place: an id, a scope or a target.
LEMMA KeysOfPlaces ==
  ASSUME NEW o
  PROVE  /\ o[1] = "upstream" => KeyOf(<<o>>) = <<o>>
         /\ o[1] # "upstream" => KeyOf(<<o>>) = <<o, "inline">>
         /\ \A i, j : KeyOf(<<o, i, j>>) = <<o, i, j>>
<1>1. <<o>>[1] = o
  OBVIOUS
<1>2. ASSUME NEW i, NEW j PROVE <<o, i, j>>[1] = o /\ <<o, i, j>> # <<o>>
  <2>1. Len(<<o, i, j>>) = 3 /\ Len(<<o>>) = 1
    OBVIOUS
  <2> QED BY <2>1
<1>3. ASSUME NEW i, NEW j PROVE KeyOf(<<o, i, j>>) = <<o, i, j>>
  <2> DEFINE place == <<o, i, j>>
  <2>1. place[1] = o /\ place # <<o>>
    BY <1>2
  <2> HIDE DEF place
  <2>2. KeyOf(place) = place
    BY <2>1 DEF KeyOf
  <2> QED BY <2>2 DEF place
<1>4. (o[1] = "upstream" => KeyOf(<<o>>) = <<o>>) /\ (o[1] # "upstream" => KeyOf(<<o>>) = <<o, "inline">>)
  <2> DEFINE place == <<o>>
  <2>1. place[1] = o /\ place = <<o>>
    BY <1>1
  <2> HIDE DEF place
  <2>2. (o[1] = "upstream" => KeyOf(place) = place) /\ (o[1] # "upstream" => KeyOf(place) = <<o, "inline">>)
    BY <2>1 DEF KeyOf
  <2> QED BY <2>1, <2>2
<1> QED BY <1>3, <1>4

\* Upstreams built at different places have different keys.
LEMMA KeysInjective ==
  ASSUME NEW s, NEW g, UpstreamsBuilt(s, g), NEW o, NEW p, NEW u, NEW v,
         Own(s, g, o, u), Own(s, g, p, v), KeyOf(u.arc[2]) = KeyOf(v.arc[2])
  PROVE  u.arc[2] = v.arc[2]
<1> DEFINE Shape(w, owner) ==
             \/ owner[1] = "upstream" /\ w.arc[2] = <<owner>> /\ KeyOf(w.arc[2]) = <<owner>>
             \/ owner[1] # "upstream" /\ w.arc[2] = <<owner>> /\ KeyOf(w.arc[2]) = <<owner, "inline">>
             \/ \E i, j : w.arc[2] = <<owner, i, j>> /\ KeyOf(w.arc[2]) = <<owner, i, j>>
<1>1. ASSUME NEW owner, NEW w, Own(s, g, owner, w) PROVE Shape(w, owner)
  <2>1. CASE w.arc[2] = <<owner>>
    BY <2>1, KeysOfPlaces
  <2>2. CASE \E i, j : w.arc[2] = <<owner, i, j>>
    BY <2>2, KeysOfPlaces
  <2> QED BY <1>1, <2>1, <2>2, OwnPlace
<1>2. Shape(u, o) /\ Shape(v, p)
  BY <1>1
<1>3. \A a, b, i, j : /\ <<a>> # <<b, "inline">> /\ <<a>> # <<b, i, j>> /\ <<a, "inline">> # <<b, i, j>>
                      /\ <<a, "inline">> = <<b, "inline">> => a = b
  <2> TAKE a, b, i, j
  <2>1. Len(<<a>>) = 1 /\ Len(<<b, "inline">>) = 2 /\ Len(<<b, i, j>>) = 3 /\ Len(<<a, "inline">>) = 2
    OBVIOUS
  <2>2. <<a, "inline">> = <<b, "inline">> => a = b
    OBVIOUS
  <2> QED BY <2>1, <2>2
<1>4. CASE \E i, j : u.arc[2] = <<o, i, j>> /\ KeyOf(u.arc[2]) = <<o, i, j>>
  BY <1>2, <1>3, <1>4, Zenon
<1>5. CASE \E i, j : v.arc[2] = <<p, i, j>> /\ KeyOf(v.arc[2]) = <<p, i, j>>
  BY <1>2, <1>3, <1>5, Zenon
<1>6. CASE u.arc[2] = <<o>> /\ KeyOf(u.arc[2]) = <<o>> /\ v.arc[2] = <<p>> /\ KeyOf(v.arc[2]) = <<p>>
  BY <1>6
<1>7. CASE u.arc[2] = <<o>> /\ KeyOf(u.arc[2]) = <<o, "inline">> /\ v.arc[2] = <<p>> /\ KeyOf(v.arc[2]) = <<p, "inline">>
  BY <1>3, <1>7, Zenon
<1> QED BY <1>2, <1>3, <1>4, <1>5, <1>6, <1>7, Zenon

\* What a scope's binding resolves to.
LEMMA BindingOf ==
  ASSUME NEW n, NEW owner, NEW scope, NEW ups, NEW inherited,
         NEW u \in BoundUpstream(n, owner, scope, ups, Occurrences(owner, scope), inherited)
  PROVE  \/ OwnInline(n, owner, scope, u)
         \/ \E id \in scope.upstreamId : u = Named(ups, id)
         \/ u \in inherited
<1>1. CASE scope.upstream # Absent
  <2>1. <<owner>> \in Occurrences(owner, scope) /\ The(scope.upstream) \in scope.upstream
    BY <1>1 DEF Occurrences, The, Absent
  <2>2. u = ProxyUpstreamBuild(n, <<owner>>, The(scope.upstream), Occurrences(owner, scope))
    BY <1>1 DEF BoundUpstream
  <2> QED BY <2>1, <2>2 DEF ProxyUpstreamBuild, OwnInline
<1>2. CASE scope.upstream = Absent /\ scope.upstreamId # Absent
  <2>1. The(scope.upstreamId) \in scope.upstreamId
    BY <1>2 DEF The, Absent
  <2> QED BY <1>2, <2>1 DEF BoundUpstream
<1>3. CASE scope.upstream = Absent /\ scope.upstreamId = Absent
  BY <1>3 DEF BoundUpstream
<1> QED BY <1>1, <1>2, <1>3

\* Upstreams built at the scope itself, at a target of it, and for an id.
AtScope(s, g, owner, u) == Own(s, g, owner, u) /\ u.arc[2] = <<owner>>
AtTarget(s, g, owner, u) == Own(s, g, owner, u) /\ \E i, j : u.arc[2] = <<owner, i, j>>
ById(s, g, u) == \E id \in DOMAIN g.upstreams : u = s.upstreams[id]

UsesOwn(s, g, owner, bound, plugins) ==
  /\ \A u \in bound : ById(s, g, u) \/ AtScope(s, g, owner, u)
  /\ \A u \in SplitTargets(plugins) : ById(s, g, u) \/ AtTarget(s, g, owner, u)

\* What the traffic-split of a scope sends requests to.
LEMMA TargetsUsed ==
  ASSUME NEW s, NEW g, UpstreamsBuilt(s, g), NEW owner \in ScopeOwners(g), PluginsTyped(ScopeAt(g, owner)),
         plugin_upstream_deps(ScopeAt(g, owner)) \subseteq DOMAIN g.upstreams,
         NEW n, ScopeAt(s, owner).arc[1] = n, NEW plugins,
         plugins = BuildPlugins(n, owner, ScopeAt(g, owner), s.upstreams, Occurrences(owner, ScopeAt(g, owner))),
         NEW u \in SplitTargets(plugins)
  PROVE  ById(s, g, u) \/ AtTarget(s, g, owner, u)
<1> DEFINE scope == ScopeAt(g, owner)
<1>1. (\E id \in plugin_upstream_deps(scope) : u = Named(s.upstreams, id)) \/ OwnTarget(n, owner, scope, u)
  BY TargetsOfPlugins
<1>2. ASSUME NEW id \in plugin_upstream_deps(scope), u = Named(s.upstreams, id) PROVE ById(s, g, u)
  BY <1>2, NamedBuilt DEF ById
<1>3. ASSUME OwnTarget(n, owner, scope, u) PROVE AtTarget(s, g, owner, u)
  <2>1. Own(s, g, owner, u)
    BY <1>3 DEF Own
  <2>2. \E i, j : u.arc[2] = <<owner, i, j>>
    BY <1>3 DEF OwnTarget
  <2> QED BY <2>1, <2>2 DEF AtTarget
<1> QED BY <1>1, <1>2, <1>3

\* What a service or a route is bound to.
LEMMA BindingUsed ==
  ASSUME NEW s, NEW g, UpstreamsBuilt(s, g), NEW owner \in ScopeOwners(g), owner[1] # "rule",
         ScopeAt(g, owner).upstreamId \subseteq DOMAIN g.upstreams,
         NEW n, ScopeAt(s, owner).arc[1] = n, NEW inherited,
         NEW u \in BoundUpstream(n, owner, ScopeAt(g, owner), s.upstreams, Occurrences(owner, ScopeAt(g, owner)), inherited)
  PROVE  ById(s, g, u) \/ AtScope(s, g, owner, u) \/ u \in inherited
<1> DEFINE scope == ScopeAt(g, owner)
<1>1. OwnInline(n, owner, scope, u) \/ (\E id \in scope.upstreamId : u = Named(s.upstreams, id)) \/ u \in inherited
  BY BindingOf
<1>2. ASSUME NEW id \in scope.upstreamId, u = Named(s.upstreams, id) PROVE ById(s, g, u)
  BY <1>2, NamedBuilt DEF ById
<1>3. ASSUME OwnInline(n, owner, scope, u) PROVE AtScope(s, g, owner, u)
  <2>1. Own(s, g, owner, u)
    BY <1>3 DEF Own
  <2>2. u.arc[2] = <<owner>>
    BY <1>3 DEF OwnInline
  <2> QED BY <2>1, <2>2 DEF AtScope
<1> QED BY <1>1, <1>2, <1>3

\* What a compiled service, global rule and route send requests to.
LEMMA ServiceUses ==
  ASSUME NEW s, NEW g, SnapshotOf(s, g), Accepted(g), NEW id \in DOMAIN g.services
  PROVE  UsesOwn(s, g, <<"service", id>>, s.services[id].upstream, s.services[id].plugins)
<1> DEFINE owner == <<"service", id>>
<1>1. /\ UpstreamsBuilt(s, g) /\ owner \in ScopeOwners(g) /\ owner[1] # "rule"
      /\ ScopeAt(g, owner) = g.services[id] /\ ScopeAt(s, owner) = s.services[id]
  BY DEF SnapshotOf, ScopeOwners, ScopeAt
<1>2. PluginsTyped(g.services[id]) /\ plugin_upstream_deps(g.services[id]) \subseteq DOMAIN g.upstreams
      /\ g.services[id].upstreamId \subseteq DOMAIN g.upstreams
  BY DependenciesExist DEF Accepted, GraphTyped, scope_upstream_deps
<1>3. PICK n : ServiceFields(s, g, id, n)
  BY ServiceParts DEF SnapshotOf
<1> DEFINE scope == g.services[id]
           plugins == s.services[id].plugins
<1>4. /\ s.services[id].arc[1] = n
      /\ s.services[id].upstream = BoundUpstream(n, owner, scope, s.upstreams, Occurrences(owner, scope), {})
      /\ plugins = BuildPlugins(n, owner, scope, s.upstreams, Occurrences(owner, scope))
  BY <1>3 DEF ServiceFields
<1> HIDE DEF owner, scope, plugins
<1>5. \A u \in SplitTargets(plugins) : ById(s, g, u) \/ AtTarget(s, g, owner, u)
  BY <1>1, <1>2, <1>4, TargetsUsed DEF scope
<1>6. \A u \in s.services[id].upstream : ById(s, g, u) \/ AtScope(s, g, owner, u) \/ u \in {}
  BY <1>1, <1>2, <1>4, BindingUsed DEF scope
<1> QED BY <1>5, <1>6 DEF UsesOwn, owner, plugins

\* What a compiled global rule sends requests to.
LEMMA RuleUses ==
  ASSUME NEW s, NEW g, SnapshotOf(s, g), Accepted(g), NEW id \in DOMAIN g.globalRules
  PROVE  UsesOwn(s, g, <<"rule", id>>, {}, s.globalRules[id].plugins)
<1> DEFINE owner == <<"rule", id>>
<1>1. /\ UpstreamsBuilt(s, g) /\ owner \in ScopeOwners(g)
      /\ ScopeAt(g, owner) = g.globalRules[id] /\ ScopeAt(s, owner) = s.globalRules[id]
  BY DEF SnapshotOf, ScopeOwners, ScopeAt
<1>2. PluginsTyped(g.globalRules[id]) /\ plugin_upstream_deps(g.globalRules[id]) \subseteq DOMAIN g.upstreams
  BY DependenciesExist DEF Accepted, GraphTyped
<1>3. PICK n : RuleFields(s, g, id, n)
  BY RuleParts DEF SnapshotOf
<1> DEFINE scope == g.globalRules[id]
           plugins == s.globalRules[id].plugins
<1>4. /\ s.globalRules[id].arc[1] = n
      /\ plugins = BuildPlugins(n, owner, scope, s.upstreams, Occurrences(owner, scope))
  BY <1>3 DEF RuleFields
<1> HIDE DEF owner, scope, plugins
<1>5. \A u \in SplitTargets(plugins) : ById(s, g, u) \/ AtTarget(s, g, owner, u)
  BY <1>1, <1>2, <1>4, TargetsUsed DEF scope
<1> QED BY <1>5 DEF UsesOwn, owner, plugins

\* What a compiled route sends requests to, but for what it inherits.
LEMMA RouteUses ==
  ASSUME NEW s, NEW g, SnapshotOf(s, g), Accepted(g), NEW id \in DOMAIN g.routes,
         NEW bound, bound = s.routes[id].resolvedUpstream \ UNION {v.upstream : v \in ServicesOf(s, g.routes[id])}
  PROVE  UsesOwn(s, g, <<"route", id>>, bound, s.routes[id].plugins)
<1> DEFINE owner == <<"route", id>>
           inherited == UNION {v.upstream : v \in ServicesOf(s, g.routes[id])}
<1>1. /\ UpstreamsBuilt(s, g) /\ owner \in ScopeOwners(g) /\ owner[1] # "rule"
      /\ ScopeAt(g, owner) = g.routes[id] /\ ScopeAt(s, owner) = s.routes[id]
  BY DEF SnapshotOf, ScopeOwners, ScopeAt
<1>2. PluginsTyped(g.routes[id]) /\ plugin_upstream_deps(g.routes[id]) \subseteq DOMAIN g.upstreams
      /\ g.routes[id].upstreamId \subseteq DOMAIN g.upstreams /\ g.routes[id].serviceId \subseteq DOMAIN g.services
  BY DependenciesExist DEF Accepted, GraphTyped, scope_upstream_deps
<1>3. PICK n : RouteFields(s, g, id, n)
  BY <1>2, RouteParts DEF SnapshotOf
<1> DEFINE scope == g.routes[id]
           plugins == s.routes[id].plugins
<1>4. /\ s.routes[id].arc[1] = n
      /\ s.routes[id].resolvedUpstream =
           BoundUpstream(n, owner, scope, s.upstreams, Occurrences(owner, scope), inherited)
      /\ plugins = BuildPlugins(n, owner, scope, s.upstreams, Occurrences(owner, scope))
  BY <1>3 DEF RouteFields
<1>5. bound = s.routes[id].resolvedUpstream \ inherited
  OBVIOUS
<1> HIDE DEF owner, scope, plugins, inherited
<1>6. \A u \in SplitTargets(plugins) : ById(s, g, u) \/ AtTarget(s, g, owner, u)
  BY <1>1, <1>2, <1>4, TargetsUsed DEF scope
<1>7. \A u \in s.routes[id].resolvedUpstream : ById(s, g, u) \/ AtScope(s, g, owner, u) \/ u \in inherited
  BY <1>1, <1>2, <1>4, BindingUsed DEF scope
<1> QED BY <1>5, <1>6, <1>7 DEF UsesOwn, owner, plugins

\* An upstream that is there for an id belongs to no scope and has the check of the id.
LEMMA ByIdChecked ==
  ASSUME NEW s, NEW g, UpstreamsBuilt(s, g), NEW id \in DOMAIN g.upstreams, NEW u, u = s.upstreams[id]
  PROVE  /\ Own(s, g, <<"upstream", id>>, u) /\ u.arc[2][1] = <<"upstream", id>>
         /\ CheckOf(u) = [key |-> <<<<"upstream", id>>>>, fingerprint |-> health_check_fingerprint(u.inner),
                          service |-> u.arc]
<1>1. PICK n : u = [arc |-> <<n, <<<<"upstream", id>>>>>>, inner |-> g.upstreams[id]]
  BY DEF UpstreamsBuilt
<1>2. Own(s, g, <<"upstream", id>>, u)
  BY DEF Own
<1>3. u.arc[2] = <<<<"upstream", id>>>>
  BY <1>1
<1> DEFINE owner == <<"upstream", id>>
<1>4. owner[1] = "upstream"
  OBVIOUS
<1>5. KeyOf(<<owner>>) = <<owner>>
  BY <1>4, KeysOfPlaces
<1>6. KeyOf(u.arc[2]) = <<<<"upstream", id>>>>
  BY <1>3, <1>5
<1>7. CheckOf(u) = [key |-> <<<<"upstream", id>>>>, fingerprint |-> health_check_fingerprint(u.inner),
                    service |-> u.arc]
  BY <1>6 DEF CheckOf
<1> QED BY <1>2, <1>3, <1>7

\* An upstream that is there for an id is not a scope's own.
LEMMA ByIdElsewhere ==
  ASSUME NEW s, NEW g, UpstreamsBuilt(s, g), NEW u, ById(s, g, u), NEW owner, owner[1] # "upstream"
  PROVE  u.arc[2][1] # owner
<1>1. PICK id \in DOMAIN g.upstreams : u = s.upstreams[id]
  BY DEF ById
<1>2. u.arc[2][1] = <<"upstream", id>>
  BY <1>1, ByIdChecked
<1> QED BY <1>2

\* The health checks asked for by a scope are those of the upstreams built for it.
Placed(s, g, owner, bound, plugins) ==
  /\ \A u \in bound : u.arc[2][1] = owner => AtScope(s, g, owner, u)
  /\ \A u \in SplitTargets(plugins) : u.arc[2][1] = owner => AtTarget(s, g, owner, u)

OwnChecks(s, g, owner, checks) == \A c \in checks : \E u : Own(s, g, owner, u) /\ c = CheckOf(u)

Collected(s, g, owner, bound, plugins) ==
  /\ \A u \in bound : AtScope(s, g, owner, u) => CheckOf(u) \in InlineChecks(owner, bound)
  /\ \A u \in SplitTargets(plugins) : AtTarget(s, g, owner, u) => CheckOf(u) \in PluginChecks(owner, plugins)

\* So the checks collected for a scope are exactly those of its own upstreams.
LEMMA ScopeChecks ==
  ASSUME NEW s, NEW g, UpstreamsBuilt(s, g), NEW owner, owner[1] # "upstream", NEW bound, NEW plugins,
         Placed(s, g, owner, bound, plugins)
  PROVE  /\ OwnChecks(s, g, owner, InlineChecks(owner, bound))
         /\ OwnChecks(s, g, owner, PluginChecks(owner, plugins))
         /\ Collected(s, g, owner, bound, plugins)
<1>1. ASSUME NEW u, AtScope(s, g, owner, u)
      PROVE  /\ Own(s, g, owner, u) /\ u.arc[2][1] = owner /\ u.arc[2] # <<>>
             /\ CheckOf(u) = [key |-> <<owner, "inline">>, fingerprint |-> health_check_fingerprint(u.inner),
                              service |-> u.arc]
  <2>1. Own(s, g, owner, u) /\ u.arc[2] = <<owner>>
    BY <1>1 DEF AtScope
  <2>2. KeyOf(u.arc[2]) = <<owner, "inline">>
    BY <2>1, KeysOfPlaces
  <2>3. Len(<<owner>>) = 1 /\ Len(<<>>) = 0 /\ <<owner>>[1] = owner
    OBVIOUS
  <2>4. u.arc[2][1] = owner /\ u.arc[2] # <<>>
    BY <2>1, <2>3
  <2> QED BY <2>1, <2>2, <2>4 DEF CheckOf
<1>2. ASSUME NEW u, AtTarget(s, g, owner, u)
      PROVE  /\ Own(s, g, owner, u) /\ u.arc[2][1] = owner /\ u.arc[2] # <<>>
             /\ CheckOf(u) = [key |-> u.arc[2], fingerprint |-> health_check_fingerprint(u.inner),
                              service |-> u.arc]
  <2>1. PICK i, j : Own(s, g, owner, u) /\ u.arc[2] = <<owner, i, j>>
    BY <1>2 DEF AtTarget
  <2>2. KeyOf(u.arc[2]) = u.arc[2]
    BY <2>1, KeysOfPlaces
  <2>3. Len(<<owner, i, j>>) = 3 /\ Len(<<>>) = 0 /\ <<owner, i, j>>[1] = owner
    OBVIOUS
  <2>4. u.arc[2][1] = owner /\ u.arc[2] # <<>>
    BY <2>1, <2>3
  <2> QED BY <2>1, <2>2, <2>4 DEF CheckOf
<1>3. ASSUME NEW c \in InlineChecks(owner, bound) PROVE \E u : Own(s, g, owner, u) /\ c = CheckOf(u)
  <2>1. PICK u \in OwnedBy(owner, bound) :
          c = [key |-> <<owner, "inline">>, fingerprint |-> health_check_fingerprint(u.inner), service |-> u.arc]
    BY <1>3 DEF InlineChecks
  <2>2. u \in bound /\ u.arc[2][1] = owner
    BY <2>1 DEF OwnedBy
  <2>3. AtScope(s, g, owner, u)
    BY <2>2 DEF Placed
  <2> QED BY <1>1, <2>1, <2>3
<1>4. ASSUME NEW c \in PluginChecks(owner, plugins) PROVE \E u : Own(s, g, owner, u) /\ c = CheckOf(u)
  <2>1. PICK u \in OwnedBy(owner, SplitTargets(plugins)) :
          c = [key |-> u.arc[2], fingerprint |-> health_check_fingerprint(u.inner), service |-> u.arc]
    BY <1>4 DEF PluginChecks
  <2>2. u \in SplitTargets(plugins) /\ u.arc[2][1] = owner
    BY <2>1 DEF OwnedBy
  <2>3. AtTarget(s, g, owner, u)
    BY <2>2 DEF Placed
  <2> QED BY <1>2, <2>1, <2>3
<1>5. ASSUME NEW u \in bound, AtScope(s, g, owner, u) PROVE CheckOf(u) \in InlineChecks(owner, bound)
  <2>1. u \in OwnedBy(owner, bound)
    BY <1>1, <1>5 DEF OwnedBy
  <2> QED BY <1>1, <1>5, <2>1 DEF InlineChecks
<1>6. ASSUME NEW u \in SplitTargets(plugins), AtTarget(s, g, owner, u)
      PROVE  CheckOf(u) \in PluginChecks(owner, plugins)
  <2>1. u \in OwnedBy(owner, SplitTargets(plugins))
    BY <1>2, <1>6 DEF OwnedBy
  <2> QED BY <1>2, <1>6, <2>1 DEF PluginChecks
<1> QED BY <1>3, <1>4, <1>5, <1>6 DEF OwnChecks, Collected

\* The upstreams of each scope of a compiled snapshot are where ScopeChecks wants them.
LEMMA OwnersDiffer == \A a, b : /\ <<"service", a>> # <<"route", b>>
                                /\ <<"service", a>>[1] # "upstream" /\ <<"route", a>>[1] # "upstream"
                                /\ <<"rule", a>>[1] # "upstream"
OBVIOUS

\* The upstreams a scope uses under its own name are its own.
LEMMA PlacedAtOwner ==
  ASSUME NEW s, NEW g, UpstreamsBuilt(s, g), NEW owner, owner[1] # "upstream", NEW bound, NEW plugins,
         UsesOwn(s, g, owner, bound, plugins)
  PROVE  Placed(s, g, owner, bound, plugins)
BY ByIdElsewhere DEF UsesOwn, Placed

\* What a route inherits is there for an id, or built for its service.
LEMMA InheritedElsewhere ==
  ASSUME NEW s, NEW g, SnapshotOf(s, g), Accepted(g), NEW id \in DOMAIN g.routes,
         NEW u \in UNION {v.upstream : v \in ServicesOf(s, g.routes[id])}
  PROVE  /\ u.arc[2][1] # <<"route", id>>
         /\ \E sid \in DOMAIN g.services : u \in s.services[sid].upstream
<1>1. PICK sid \in g.routes[id].serviceId : u \in s.services[sid].upstream
  BY DEF ServicesOf
<1>2. sid \in DOMAIN g.services
  BY DependenciesExist
<1>3. UsesOwn(s, g, <<"service", sid>>, s.services[sid].upstream, s.services[sid].plugins) /\ UpstreamsBuilt(s, g)
  BY <1>2, ServiceUses DEF SnapshotOf
<1>4. CASE ById(s, g, u)
  BY <1>1, <1>2, <1>3, <1>4, ByIdElsewhere, OwnersDiffer
<1>5. CASE AtScope(s, g, <<"service", sid>>, u)
  <2>1. u.arc[2][1] = <<"service", sid>>
    BY <1>3, <1>5, OwnPlace DEF AtScope
  <2> QED BY <1>1, <1>2, <2>1, OwnersDiffer
<1> QED BY <1>1, <1>3, <1>4, <1>5 DEF UsesOwn

\* Those of a route too, although it may have inherited others.
LEMMA RoutePlaced ==
  ASSUME NEW s, NEW g, SnapshotOf(s, g), Accepted(g), NEW id \in DOMAIN g.routes
  PROVE  Placed(s, g, <<"route", id>>, s.routes[id].resolvedUpstream, s.routes[id].plugins)
<1> DEFINE owner == <<"route", id>>
           inherited == UNION {v.upstream : v \in ServicesOf(s, g.routes[id])}
           bound == s.routes[id].resolvedUpstream \ inherited
<1>1. UsesOwn(s, g, owner, bound, s.routes[id].plugins)
  BY RouteUses
<1>2. UpstreamsBuilt(s, g) /\ owner[1] # "upstream"
  BY DEF SnapshotOf
<1>3. \A u \in inherited : u.arc[2][1] # owner
  BY InheritedElsewhere
<1> HIDE DEF owner, inherited
<1>4. Placed(s, g, owner, bound, s.routes[id].plugins)
  BY <1>1, <1>2, PlacedAtOwner
<1>5. Placed(s, g, owner, s.routes[id].resolvedUpstream, s.routes[id].plugins)
  BY <1>3, <1>4 DEF Placed
<1> QED BY <1>5 DEF owner

\* Each check is that of an upstream of the snapshot.
LEMMA ChecksAreOfUpstreams ==
  ASSUME NEW s, NEW g, SnapshotOf(s, g), Accepted(g), NEW c \in collect_health_checks(s)
  PROVE  \E o, u : Own(s, g, o, u) /\ c = CheckOf(u)
<1>1. /\ UpstreamsBuilt(s, g) /\ DOMAIN s.upstreams = DOMAIN g.upstreams /\ DOMAIN s.services = DOMAIN g.services
      /\ DOMAIN s.routes = DOMAIN g.routes /\ DOMAIN s.globalRules = DOMAIN g.globalRules
  BY DEF SnapshotOf, UpstreamsBuilt, ServicesBuilt, RulesBuilt, RoutesBuilt
<1>2. ASSUME NEW id \in DOMAIN g.upstreams,
             c = [key |-> <<<<"upstream", id>>>>, fingerprint |-> health_check_fingerprint(s.upstreams[id].inner),
                  service |-> s.upstreams[id].arc]
      PROVE  \E o, u : Own(s, g, o, u) /\ c = CheckOf(u)
  BY <1>1, <1>2, ByIdChecked
<1>3. ASSUME NEW id \in DOMAIN g.services,
             c \in InlineChecks(<<"service", id>>, s.services[id].upstream)
                   \cup PluginChecks(<<"service", id>>, s.services[id].plugins)
      PROVE  \E o, u : Own(s, g, o, u) /\ c = CheckOf(u)
  <2> DEFINE owner == <<"service", id>>
  <2>1. UsesOwn(s, g, owner, s.services[id].upstream, s.services[id].plugins) /\ owner[1] # "upstream"
    BY ServiceUses
  <2> HIDE DEF owner
  <2>2. Placed(s, g, owner, s.services[id].upstream, s.services[id].plugins)
    BY <1>1, <2>1, PlacedAtOwner
  <2>3. /\ OwnChecks(s, g, owner, InlineChecks(owner, s.services[id].upstream))
        /\ OwnChecks(s, g, owner, PluginChecks(owner, s.services[id].plugins))
    BY <1>1, <2>1, <2>2, ScopeChecks
  <2> QED BY <1>3, <2>3 DEF owner, OwnChecks
<1>4. ASSUME NEW id \in DOMAIN g.routes,
             c \in InlineChecks(<<"route", id>>, s.routes[id].resolvedUpstream)
                   \cup PluginChecks(<<"route", id>>, s.routes[id].plugins)
      PROVE  \E o, u : Own(s, g, o, u) /\ c = CheckOf(u)
  <2> DEFINE owner == <<"route", id>>
  <2>1. /\ owner[1] # "upstream"
        /\ Placed(s, g, owner, s.routes[id].resolvedUpstream, s.routes[id].plugins)
    BY RoutePlaced
  <2> HIDE DEF owner
  <2>2. /\ OwnChecks(s, g, owner, InlineChecks(owner, s.routes[id].resolvedUpstream))
        /\ OwnChecks(s, g, owner, PluginChecks(owner, s.routes[id].plugins))
    BY <1>1, <2>1, ScopeChecks
  <2> QED BY <1>4, <2>2 DEF owner, OwnChecks
<1>5. ASSUME NEW id \in DOMAIN g.globalRules, c \in PluginChecks(<<"rule", id>>, s.globalRules[id].plugins)
      PROVE  \E o, u : Own(s, g, o, u) /\ c = CheckOf(u)
  <2> DEFINE owner == <<"rule", id>>
  <2>1. UsesOwn(s, g, owner, {}, s.globalRules[id].plugins) /\ owner[1] # "upstream"
    BY RuleUses
  <2> HIDE DEF owner
  <2>2. Placed(s, g, owner, {}, s.globalRules[id].plugins)
    BY <1>1, <2>1, PlacedAtOwner
  <2>3. OwnChecks(s, g, owner, PluginChecks(owner, s.globalRules[id].plugins))
    BY <1>1, <2>1, <2>2, ScopeChecks
  <2> QED BY <1>5, <2>3 DEF owner, OwnChecks
<1> QED BY <1>1, <1>2, <1>3, <1>4, <1>5 DEF collect_health_checks

\* Each upstream a request may be sent to has its check.
Checked(s, g, u) == (\E o : Own(s, g, o, u)) /\ CheckOf(u) \in collect_health_checks(s)

\* Every upstream a request may be sent to is checked.
LEMMA InUseChecked ==
  ASSUME NEW s, NEW g, SnapshotOf(s, g), Accepted(g), NEW u \in UpstreamsInUse(s)
  PROVE  Checked(s, g, u)
<1>1. /\ UpstreamsBuilt(s, g) /\ DOMAIN s.upstreams = DOMAIN g.upstreams /\ DOMAIN s.services = DOMAIN g.services
      /\ DOMAIN s.routes = DOMAIN g.routes /\ DOMAIN s.globalRules = DOMAIN g.globalRules
  BY DEF SnapshotOf, UpstreamsBuilt, ServicesBuilt, RulesBuilt, RoutesBuilt
<1>2. ASSUME NEW v, ById(s, g, v) PROVE Checked(s, g, v)
  <2>1. PICK id \in DOMAIN g.upstreams : v = s.upstreams[id]
    BY <1>2 DEF ById
  <2>2. (\E o : Own(s, g, o, v))
        /\ CheckOf(v) = [key |-> <<<<"upstream", id>>>>, fingerprint |-> health_check_fingerprint(v.inner),
                         service |-> v.arc]
    BY <1>1, <2>1, ByIdChecked
  <2>3. CheckOf(v) \in collect_health_checks(s)
    BY <1>1, <2>1, <2>2 DEF collect_health_checks
  <2> QED BY <2>2, <2>3 DEF Checked
<1>3. ASSUME NEW id \in DOMAIN g.services
      PROVE  \A v \in s.services[id].upstream \cup SplitTargets(s.services[id].plugins) : Checked(s, g, v)
  <2> DEFINE owner == <<"service", id>>
  <2>1. UsesOwn(s, g, owner, s.services[id].upstream, s.services[id].plugins) /\ owner[1] # "upstream"
    BY ServiceUses
  <2>2. InlineChecks(owner, s.services[id].upstream) \cup PluginChecks(owner, s.services[id].plugins)
        \subseteq collect_health_checks(s)
    BY <1>1 DEF collect_health_checks
  <2> HIDE DEF owner
  <2>3. Placed(s, g, owner, s.services[id].upstream, s.services[id].plugins)
    BY <1>1, <2>1, PlacedAtOwner
  <2>4. Collected(s, g, owner, s.services[id].upstream, s.services[id].plugins)
    BY <1>1, <2>1, <2>3, ScopeChecks
  <2> QED BY <1>2, <2>1, <2>2, <2>4 DEF Checked, UsesOwn, Collected, AtScope, AtTarget
<1>4. ASSUME NEW id \in DOMAIN g.globalRules, NEW v \in SplitTargets(s.globalRules[id].plugins) PROVE Checked(s, g, v)
  <2> DEFINE owner == <<"rule", id>>
  <2>1. UsesOwn(s, g, owner, {}, s.globalRules[id].plugins) /\ owner[1] # "upstream"
    BY RuleUses
  <2>2. PluginChecks(owner, s.globalRules[id].plugins) \subseteq collect_health_checks(s)
    BY <1>1 DEF collect_health_checks
  <2> HIDE DEF owner
  <2>3. Placed(s, g, owner, {}, s.globalRules[id].plugins)
    BY <1>1, <2>1, PlacedAtOwner
  <2>4. Collected(s, g, owner, {}, s.globalRules[id].plugins)
    BY <1>1, <2>1, <2>3, ScopeChecks
  <2> QED BY <1>2, <1>4, <2>1, <2>2, <2>4 DEF Checked, UsesOwn, Collected, AtTarget
<1>5. ASSUME NEW id \in DOMAIN g.routes
      PROVE  \A v \in s.routes[id].resolvedUpstream \cup SplitTargets(s.routes[id].executor) : Checked(s, g, v)
  <2> DEFINE owner == <<"route", id>>
             inherited == UNION {v.upstream : v \in ServicesOf(s, g.routes[id])}
             bound == s.routes[id].resolvedUpstream \ inherited
             others == UNION {v.plugins : v \in ServicesOf(s, g.routes[id])}
  <2>1. /\ owner[1] # "upstream"
        /\ Placed(s, g, owner, s.routes[id].resolvedUpstream, s.routes[id].plugins)
    BY RoutePlaced
  <2>2. UsesOwn(s, g, owner, bound, s.routes[id].plugins)
    BY RouteUses
  <2>3. InlineChecks(owner, s.routes[id].resolvedUpstream) \cup PluginChecks(owner, s.routes[id].plugins)
        \subseteq collect_health_checks(s)
    BY <1>1 DEF collect_health_checks
  <2>4. \A v \in inherited : Checked(s, g, v)
    BY <1>3, InheritedElsewhere
  <2>5. \A v \in SplitTargets(others) : Checked(s, g, v)
    BY <1>3, DependenciesExist DEF ServicesOf, SplitTargets
  <2>6. PICK n : RouteFields(s, g, id, n)
    BY DependenciesExist, RouteParts DEF SnapshotOf
  <2>7. s.routes[id].executor = IF s.routes[id].plugins # {} THEN s.routes[id].plugins ELSE others
    BY <2>6 DEF RouteFields
  <2> HIDE DEF owner, inherited, others
  <2>8. Collected(s, g, owner, s.routes[id].resolvedUpstream, s.routes[id].plugins)
    BY <1>1, <2>1, ScopeChecks
  <2>9. \A v \in bound : Checked(s, g, v)
    BY <1>2, <2>2, <2>3, <2>8 DEF Checked, UsesOwn, Collected, AtScope
  <2>10. \A v \in SplitTargets(s.routes[id].plugins) : Checked(s, g, v)
    BY <1>2, <2>2, <2>3, <2>8 DEF Checked, UsesOwn, Collected, AtTarget
  <2> QED BY <2>4, <2>5, <2>7, <2>9, <2>10
<1> QED BY <1>1, <1>4, <1>5 DEF UpstreamsInUse

\* Every load balancer a request can be sent to has one check, and no two share a key.
LEMMA BalancersChecked ==
  ASSUME SnapshotOf(liveSnapshot, liveGraph), Accepted(liveGraph)
  PROVE  EveryBalancerChecked
<1> DEFINE s == liveSnapshot
           g == liveGraph
           checks == collect_health_checks(s)
<1>1. SnapshotOf(s, g) /\ Accepted(g) /\ UpstreamsBuilt(s, g) /\ GraphTyped(g)
  BY DEF SnapshotOf, Accepted
<1> HIDE DEF s, g
<1>2. \A c \in checks : \E o, u : Own(s, g, o, u) /\ c = CheckOf(u)
  BY <1>1, ChecksAreOfUpstreams
<1>3. \A u : CheckOf(u).key = KeyOf(u.arc[2]) /\ CheckOf(u).service = u.arc
  BY DEF CheckOf
<1>4. ASSUME NEW c \in checks, NEW d \in checks, c.key = d.key PROVE c = d
  <2>1. PICK o, u : Own(s, g, o, u) /\ c = CheckOf(u)
    BY <1>2
  <2>2. PICK p, v : Own(s, g, p, v) /\ d = CheckOf(v)
    BY <1>2
  <2>3. KeyOf(u.arc[2]) = KeyOf(v.arc[2])
    BY <1>3, <1>4, <2>1, <2>2
  <2>4. u.arc[2] = v.arc[2]
    BY <1>1, <2>1, <2>2, <2>3, KeysInjective
  <2>5. u = v
    BY <1>1, <2>1, <2>2, <2>4, OwnUnique
  <2> QED BY <2>1, <2>2, <2>5
<1>5. ASSUME NEW u \in UpstreamsInUse(s) PROVE Cardinality({c \in checks : c.service = u.arc}) = 1
  <2>1. Checked(s, g, u)
    BY <1>1, InUseChecked
  <2>2. PICK o : Own(s, g, o, u)
    BY <2>1 DEF Checked
  <2>3. CheckOf(u) \in checks
    BY <2>1 DEF Checked
  <2>4. ASSUME NEW c \in checks, c.service = u.arc PROVE c = CheckOf(u)
    <3>1. PICK p, v : Own(s, g, p, v) /\ c = CheckOf(v)
      BY <1>2
    <3>2. v.arc = u.arc
      BY <1>3, <2>4, <3>1
    <3>3. u = v
      BY <1>1, <2>2, <3>1, <3>2, OwnUnique
    <3> QED BY <3>1, <3>3
  <2>5. CheckOf(u).service = u.arc
    BY <1>3
  <2> HIDE DEF checks
  <2>6. {c \in checks : c.service = u.arc} = {CheckOf(u)}
    BY <2>3, <2>4, <2>5
  <2> QED BY <2>6, FS_Singleton
<1> QED BY <1>4, <1>5 DEF EveryBalancerChecked, s

\* A traffic-split sends requests to the current upstreams of the ids it names.
LEMMA NamesAreCurrent ==
  ASSUME SnapshotOf(liveSnapshot, liveGraph), NEW owner, owner[1] # "upstream", NEW bound, NEW plugins,
         UsesOwn(liveSnapshot, liveGraph, owner, bound, plugins)
  PROVE  RefersToCurrent(plugins)
<1>1. UpstreamsBuilt(liveSnapshot, liveGraph)
  BY DEF SnapshotOf
<1> SUFFICES ASSUME NEW u \in SplitTargets(plugins), u.arc[2][1][1] = "upstream"
             PROVE  u \in RangeOf(liveSnapshot.upstreams)
  BY DEF RefersToCurrent
<1>2. CASE ById(liveSnapshot, liveGraph, u)
  BY <1>1, <1>2, NamedBuilt DEF ById
<1>3. CASE AtTarget(liveSnapshot, liveGraph, owner, u)
  BY <1>1, <1>3, OwnPlace DEF AtTarget
<1> QED BY <1>2, <1>3 DEF UsesOwn

\* The bindings of a compiled service and of a compiled route.
LEMMA ServiceBinding ==
  ASSUME NEW s, NEW g, SnapshotOf(s, g), Accepted(g), NEW id \in DOMAIN g.services,
         g.services[id].upstreamId # Absent
  PROVE  s.services[id].upstream = {s.upstreams[The(g.services[id].upstreamId)]}
<1>1. PICK n : ServiceFields(s, g, id, n)
  BY ServiceParts DEF SnapshotOf
<1>2. g.services[id].upstream = Absent
  BY DEF Accepted, validate_config_set, ServiceValid, OneForm
<1>3. The(g.services[id].upstreamId) \in DOMAIN g.upstreams
  BY DependenciesExist DEF scope_upstream_deps, The, Absent
<1>4. Named(s.upstreams, The(g.services[id].upstreamId)) = s.upstreams[The(g.services[id].upstreamId)]
  BY <1>3, NamedBuilt DEF SnapshotOf
<1>5. s.services[id].upstream =
        BoundUpstream(n, <<"service", id>>, g.services[id], s.upstreams, Occurrences(<<"service", id>>, g.services[id]), {})
  BY <1>1 DEF ServiceFields
<1> QED BY <1>2, <1>4, <1>5 DEF BoundUpstream

RouteBound(s, g, id) ==
  CASE g.routes[id].upstream # Absent ->
         \A up \in s.routes[id].resolvedUpstream : {up.inner} = g.routes[id].upstream
    [] g.routes[id].upstreamId # Absent ->
         s.routes[id].resolvedUpstream = {s.upstreams[The(g.routes[id].upstreamId)]}
    [] OTHER -> s.routes[id].resolvedUpstream = UNION {v.upstream : v \in ServicesOf(s, g.routes[id])}

\* A compiled route is bound to its inline upstream, to the named one, or to its service's.
LEMMA RouteBinding ==
  ASSUME NEW s, NEW g, SnapshotOf(s, g), Accepted(g), NEW id \in DOMAIN g.routes
  PROVE  RouteBound(s, g, id)
<1> DEFINE route == g.routes[id]
           inherited == UNION {v.upstream : v \in ServicesOf(s, route)}
           resolved == s.routes[id].resolvedUpstream
<1>1. PICK n : RouteFields(s, g, id, n)
  BY DependenciesExist, RouteParts DEF SnapshotOf
<1>2. resolved = BoundUpstream(n, <<"route", id>>, route, s.upstreams, Occurrences(<<"route", id>>, route), inherited)
  BY <1>1 DEF RouteFields
<1>3. OneForm(route) /\ Optional(route.upstream) /\ route.upstreamId \subseteq DOMAIN g.upstreams
  BY DependenciesExist DEF Accepted, validate_config_set, RouteValid, GraphTyped, BindingTyped, scope_upstream_deps
<1> HIDE DEF route, inherited, resolved
<1>4. CASE route.upstream # Absent
  <2>1. <<<<"route", id>>>> \in Occurrences(<<"route", id>>, route)
    BY DEF Occurrences
  <2>2. resolved = {[arc |-> <<n, <<<<"route", id>>>>>>, inner |-> The(route.upstream)]}
    BY <1>2, <1>4, <2>1 DEF BoundUpstream, ProxyUpstreamBuild
  <2>3. {The(route.upstream)} = route.upstream
    BY <1>3, <1>4 DEF The, Optional, Absent
  <2>4. \A up \in resolved : {up.inner} = route.upstream
    BY <2>2, <2>3
  <2>5. route.upstreamId = Absent
    BY <1>3, <1>4 DEF OneForm
  <2> QED BY <1>4, <2>4, <2>5 DEF RouteBound, route, resolved
<1>5. CASE route.upstream = Absent /\ route.upstreamId # Absent
  <2>1. The(route.upstreamId) \in DOMAIN g.upstreams
    BY <1>3, <1>5 DEF The, Absent
  <2>2. Named(s.upstreams, The(route.upstreamId)) = s.upstreams[The(route.upstreamId)]
    BY <2>1, NamedBuilt DEF SnapshotOf
  <2>3. resolved = {s.upstreams[The(route.upstreamId)]}
    BY <1>2, <1>5, <2>2 DEF BoundUpstream
  <2> QED BY <1>5, <2>3 DEF RouteBound, route, resolved
<1>6. CASE route.upstream = Absent /\ route.upstreamId = Absent
  <2>1. resolved = inherited
    BY <1>2, <1>6 DEF BoundUpstream
  <2> QED BY <1>6, <2>1 DEF RouteBound, route, resolved, inherited
<1> QED BY <1>4, <1>5, <1>6

\* The invariant says what SnapshotCoherent does.
LEMMA InvCoherent == SnapshotInv => SnapshotCoherent
<1> SUFFICES ASSUME SnapshotInv PROVE SnapshotCoherent
  OBVIOUS
<1> DEFINE s == liveSnapshot
           g == liveGraph
<1>1. /\ SnapshotOf(s, g) /\ Accepted(g) /\ ~compileError
      /\ DOMAIN s.services = DOMAIN g.services /\ DOMAIN s.routes = DOMAIN g.routes
      /\ DOMAIN s.globalRules = DOMAIN g.globalRules
  BY DEF SnapshotInv, SnapshotOf, ServicesBuilt, RulesBuilt, RoutesBuilt
<1>2. EveryBalancerChecked
  BY <1>1, BalancersChecked
<1>3. /\ BuiltFrom(s.upstreams, g.upstreams) /\ BuiltFrom(s.services, g.services)
      /\ BuiltFrom(s.globalRules, g.globalRules) /\ BuiltFrom(s.routes, g.routes)
      /\ BuiltFrom(s.ssls, g.ssls)
  BY <1>1, ConfigurationsMatch
<1>4. ASSUME NEW id \in DOMAIN s.services
      PROVE  /\ RefersToCurrent(s.services[id].plugins)
             /\ s.services[id].inner.upstreamId # Absent =>
                  s.services[id].upstream = {s.upstreams[The(s.services[id].inner.upstreamId)]}
  <2>1. s.services[id].inner = g.services[id]
    BY <1>1, <1>3 DEF BuiltFrom
  <2>2. UsesOwn(s, g, <<"service", id>>, s.services[id].upstream, s.services[id].plugins)
    BY <1>1, ServiceUses
  <2>3. RefersToCurrent(s.services[id].plugins)
    BY <1>1, <2>2, NamesAreCurrent, OwnersDiffer
  <2> QED BY <1>1, <2>1, <2>3, ServiceBinding
<1>5. ASSUME NEW id \in DOMAIN s.globalRules PROVE RefersToCurrent(s.globalRules[id].plugins)
  <2>1. UsesOwn(s, g, <<"rule", id>>, {}, s.globalRules[id].plugins)
    BY <1>1, RuleUses
  <2> QED BY <1>1, <2>1, NamesAreCurrent, OwnersDiffer
<1>6. ASSUME NEW id \in DOMAIN s.routes
      PROVE  LET route == s.routes[id]
                 service == {s.services[sid] : sid \in route.inner.serviceId}
             IN /\ RefersToCurrent(route.plugins)
                /\ CASE route.inner.upstream # Absent ->
                          \A up \in route.resolvedUpstream : {up.inner} = route.inner.upstream
                     [] route.inner.upstreamId # Absent ->
                          route.resolvedUpstream = {s.upstreams[The(route.inner.upstreamId)]}
                     [] OTHER -> route.resolvedUpstream = UNION {v.upstream : v \in service}
                /\ (route.inner.split = Absent) => (route.executor = UNION {v.plugins : v \in service})
                /\ (route.inner.hosts = {}) => (route.effectiveHosts = UNION {v.inner.hosts : v \in service})
  <2> DEFINE route == s.routes[id]
             service == {s.services[sid] : sid \in route.inner.serviceId}
  <2>1. route.inner = g.routes[id] /\ service = ServicesOf(s, g.routes[id])
    BY <1>1, <1>3 DEF BuiltFrom, ServicesOf
  <2>2. UsesOwn(s, g, <<"route", id>>, route.resolvedUpstream \ UNION {v.upstream : v \in ServicesOf(s, g.routes[id])},
                route.plugins)
    BY <1>1, RouteUses
  <2>3. RefersToCurrent(route.plugins)
    BY <1>1, <2>2, NamesAreCurrent, OwnersDiffer
  <2>4. PICK n : RouteFields(s, g, id, n)
    BY <1>1, DependenciesExist, RouteParts DEF SnapshotOf
  <2>5. route.inner.split = Absent => route.plugins = {}
    BY <2>1, <2>4 DEF RouteFields, BuildPlugins, Absent
  <2>6. RouteBound(s, g, id)
    BY <1>1, RouteBinding
  <2> QED BY <2>1, <2>3, <2>4, <2>5, <2>6 DEF RouteFields, RouteBound
<1> QED BY <1>1, <1>2, <1>3, <1>4, <1>5, <1>6 DEF SnapshotCoherent, AcceptedCompiles

\* SnapshotCoherent: reusing compiled objects never leaves a stale one.
THEOREM SnapshotsCoherent == CompileSpec => []SnapshotCoherent
BY SnapshotInvInit, SnapshotInvNext, InvCoherent, PTL DEF CompileSpec

--------------------------------------------------------------------------------
(* Mirrors: a request's chunks, its task and the lookups of an instance.     *)

\* Every request passes one proxy-mirror at most; two share the sender's key in its context.
OneInstance == \A r \in MirrorIds : Len(MirrorRequests[r].layers) <= 1

MirrorPcs == Running \cup {"none", "dropped", "ok"}
MirrorCopies ==
  {<<>>} \cup {<<build_mirror_request(MirrorConfigs[m], MirrorRequests[r].uri)>> :
                 r \in MirrorIds, m \in MirrorInstances}
MirrorTaskType ==
  [pc : MirrorPcs, next : {"", "connect", "dropped"}, queue : Seq([n : Nat, end : BOOLEAN]),
   active : BOOLEAN, written : Seq(Nat), woken : BOOLEAN, used : Int, request : MirrorCopies]
MirrorDnsType == [addr : BOOLEAN, at : Nat, error : BOOLEAN, flight : BOOLEAN]
MirrorCtxType ==
  [stage : {"new", "sampled", "body", "sent", "over"}, sampled : BOOLEAN,
   sender : {NoSender} \cup MirrorTaskIds, fed : Nat]

MirrorTyped ==
  /\ mirrorNow \in Nat /\ mirrorPermits \in Nat
  /\ mirrorDns \in [MirrorInstances -> MirrorDnsType]
  /\ mirrorCtx \in [MirrorIds -> MirrorCtxType]
  /\ mirrorTasks \in [MirrorTaskIds -> MirrorTaskType]

\* What a task has written and still has queued are the chunks of its request, one
\* after the other; the last of them alone ends the body.
ChunkAt(chunk, place, chunks) ==
  \/ chunk.n = place /\ place <= chunks /\ (chunk.end => place = chunks)
  \/ chunk.n = Finish /\ chunk.end /\ place = chunks + 1
TaskBody(t, p) ==
  /\ Len(p.written) <= MirrorRequests[t[1]].chunks
  /\ \A k \in 1 .. Len(p.written) : p.written[k] = k
  /\ \A k \in 1 .. Len(p.queue) : ChunkAt(p.queue[k], Len(p.written) + k, MirrorRequests[t[1]].chunks)
  /\ p.pc \in Running \cup {"ok"} =>
       p.request # <<>> /\ p.request[1].query = MirrorRequests[t[1]].uri.query
  /\ p.pc = "ok" => Len(p.written) = MirrorRequests[t[1]].chunks
BodiesInOrder == \A t \in MirrorTaskIds : TaskBody(t, mirrorTasks[t])

\* A sender that is still good has sent everything its request was given.
Sends(p, fed) == p.active /\ p.pc \in Running => Len(p.written) + Len(p.queue) = fed
NoTaskRuns(r) == \A t \in MirrorTaskIds : t[1] = r => mirrorTasks[t].pc \notin Running
SenderSound(r) ==
  /\ mirrorCtx[r].stage \in {"new", "sampled"} => mirrorCtx[r].fed = 0 /\ NoTaskRuns(r)
  /\ mirrorCtx[r].stage = "body" => mirrorCtx[r].fed <= MirrorRequests[r].chunks
  /\ mirrorCtx[r].stage = "body" /\ mirrorCtx[r].sender # NoSender =>
       /\ mirrorCtx[r].sender[1] = r /\ MirrorRequests[r].layers # <<>>
       /\ Sends(mirrorTasks[mirrorCtx[r].sender], mirrorCtx[r].fed)
SendersSound == \A r \in MirrorIds : SenderSound(r)

\* The flag of a flight is up exactly while one task leads it; a follower that waits
\* has not missed its notification; what is used is fresh enough.
Leading == {"lookup", "clear"}
Leader(m) == \E u \in MirrorTaskIds : u[2] = m /\ mirrorTasks[u].pc \in Leading
Waker(m) == \E u \in MirrorTaskIds : u[2] = m /\ mirrorTasks[u].pc \in Looking
FreshEnough(used) == used < MIRROR_DNS_CACHE_TTL + MIRROR_DNS_STALE_GRACE
FlightLed ==
  /\ \A m \in MirrorInstances : mirrorDns[m].flight => Leader(m)
  /\ \A u \in MirrorTaskIds : mirrorTasks[u].pc \in Leading => mirrorDns[u[2]].flight
  /\ \A u, v \in MirrorTaskIds :
       mirrorTasks[u].pc \in Leading /\ mirrorTasks[v].pc \in Leading /\ u[2] = v[2] => u = v
FollowersWake ==
  \A t \in MirrorTaskIds : mirrorTasks[t].pc = "waiting" /\ ~mirrorTasks[t].woken => Waker(t[2])
AddressesFresh ==
  \A t \in MirrorTaskIds :
    /\ mirrorTasks[t].pc \in {"clear", "notify"} /\ mirrorTasks[t].next = "connect" => FreshEnough(mirrorTasks[t].used)
    /\ mirrorTasks[t].pc = "connect" => FreshEnough(mirrorTasks[t].used)

\* No more tasks run than there are permits.
TasksPermitted ==
  IsFiniteSet(RunningTasks(mirrorTasks)) /\ Cardinality(RunningTasks(mirrorTasks)) <= mirrorPermits

MirrorInv ==
  /\ MirrorTyped /\ BodiesInOrder /\ SendersSound
  /\ FlightLed /\ FollowersWake /\ AddressesFresh /\ TasksPermitted

\* A task that is gone has neither queue nor body.
LEMMA MirrorEndedTyped == Ended \in MirrorTaskType /\ MirrorTask("none") \in MirrorTaskType
                          /\ Ended.pc = "dropped" /\ ~Ended.active /\ Ended.queue = <<>> /\ Ended.written = <<>>
<1>1. MirrorTask("none") \in MirrorTaskType
  BY DEF MirrorTask, MirrorTaskType, MirrorPcs, MirrorCopies
<1> DEFINE dropped == MirrorTask("dropped")
<1>2. dropped \in MirrorTaskType /\ dropped.pc = "dropped" /\ dropped.queue = <<>> /\ dropped.written = <<>>
  BY DEF MirrorTask, MirrorTaskType, MirrorPcs, MirrorCopies
<1> HIDE DEF dropped
<1>3. /\ [dropped EXCEPT !.active = FALSE] \in MirrorTaskType
      /\ [dropped EXCEPT !.active = FALSE].pc = "dropped" /\ ~[dropped EXCEPT !.active = FALSE].active
      /\ [dropped EXCEPT !.active = FALSE].queue = <<>> /\ [dropped EXCEPT !.active = FALSE].written = <<>>
  BY <1>2 DEF MirrorTaskType
<1>4. Ended = [dropped EXCEPT !.active = FALSE]
  BY DEF Ended, dropped
<1> QED BY <1>1, <1>3, <1>4

\* A task is a request's copy for one instance.
LEMMA MirrorTaskParts ==
  ASSUME NEW t \in MirrorTaskIds
  PROVE  /\ t[1] \in MirrorIds /\ t[2] \in MirrorInstances /\ t = <<t[1], t[2]>>
         /\ MirrorRequests[t[1]].chunks \in Nat
<1>1. t[1] \in MirrorIds /\ t[2] \in MirrorInstances /\ t = <<t[1], t[2]>>
  BY DEF MirrorTaskIds
<1>2. \A r \in MirrorIds : MirrorRequests[r].chunks \in Nat
  BY MirrorConstants DEF MirrorIds
<1> QED BY <1>1, <1>2

--------------------------------------------------------------------------------
(* One task moves: the others stay, and its body and request too unless it ends. *)

MirrorMoved(t) ==
  /\ mirrorTasks' \in [MirrorTaskIds -> MirrorTaskType]
  /\ \A u \in MirrorTaskIds : u # t => mirrorTasks'[u] = mirrorTasks[u]
MirrorRunsOn(p, x) ==
  /\ p.pc \in Running /\ x.pc \in Running
  /\ x.queue = p.queue /\ x.written = p.written /\ x.active = p.active /\ x.request = p.request
MirrorOthersStay == UNCHANGED <<mirrorPermits, mirrorCtx>>

\* What every task that runs on or ends keeps.
MirrorTasksKept ==
  /\ mirrorTasks' \in [MirrorTaskIds -> MirrorTaskType]
  /\ \A u \in MirrorTaskIds :
       mirrorTasks'[u] = mirrorTasks[u] \/ mirrorTasks'[u] = Ended \/ MirrorRunsOn(mirrorTasks[u], mirrorTasks'[u])

\* Tasks that stop running leave room.
LEMMA MirrorFewerRun ==
  ASSUME MirrorInv, RunningTasks(mirrorTasks') \subseteq RunningTasks(mirrorTasks), mirrorPermits' = mirrorPermits
  PROVE  TasksPermitted'
<1>1. IsFiniteSet(RunningTasks(mirrorTasks')) /\ Cardinality(RunningTasks(mirrorTasks')) <= Cardinality(RunningTasks(mirrorTasks))
  BY FS_Subset DEF MirrorInv, TasksPermitted
<1>2. Cardinality(RunningTasks(mirrorTasks')) \in Nat /\ Cardinality(RunningTasks(mirrorTasks)) \in Nat
  BY <1>1, FS_CardinalityType DEF MirrorInv, TasksPermitted
<1> QED BY <1>1, <1>2 DEF MirrorInv, TasksPermitted, MirrorTyped

\* Tasks that go on or end disturb no body, no sender and no permit.
LEMMA MirrorKeptKeeps ==
  ASSUME MirrorInv, MirrorTasksKept, MirrorOthersStay
  PROVE  BodiesInOrder' /\ SendersSound' /\ TasksPermitted'
<1>1. BodiesInOrder'
  <2> SUFFICES ASSUME NEW u \in MirrorTaskIds PROVE TaskBody(u, mirrorTasks'[u])
    BY DEF BodiesInOrder
  <2>1. TaskBody(u, mirrorTasks[u])
    BY DEF MirrorInv, BodiesInOrder
  <2>2. CASE mirrorTasks'[u] = mirrorTasks[u]
    BY <2>1, <2>2
  <2>3. CASE mirrorTasks'[u] = Ended
    <3>1. MirrorRequests[u[1]].chunks \in Nat
      BY MirrorTaskParts
    <3>2. Ended.pc \notin Running \cup {"ok"}
      BY MirrorEndedTyped DEF Running, Resolving, Looking
    <3> QED BY <2>3, <3>1, <3>2, MirrorEndedTyped DEF TaskBody
  <2>4. CASE MirrorRunsOn(mirrorTasks[u], mirrorTasks'[u])
    <3>1. mirrorTasks'[u].pc # "ok"
      BY <2>4 DEF MirrorRunsOn, Running, Resolving, Looking
    <3> QED BY <2>1, <2>4, <3>1 DEF TaskBody, MirrorRunsOn
  <2> QED BY <2>2, <2>3, <2>4 DEF MirrorTasksKept
<1>2. SendersSound'
  <2> SUFFICES ASSUME NEW r \in MirrorIds PROVE SenderSound(r)'
    BY DEF SendersSound
  <2>1. SenderSound(r) /\ mirrorCtx' = mirrorCtx
    BY DEF MirrorInv, SendersSound, MirrorOthersStay
  <2>5. NoTaskRuns(r) => NoTaskRuns(r)'
    BY MirrorEndedTyped DEF NoTaskRuns, MirrorTasksKept, MirrorRunsOn, Running, Resolving, Looking
  <2>2. SUFFICES ASSUME mirrorCtx[r].stage = "body", mirrorCtx[r].sender # NoSender
                 PROVE  Sends(mirrorTasks'[mirrorCtx[r].sender], mirrorCtx[r].fed)
    BY <2>1, <2>5 DEF SenderSound
  <2>3. mirrorCtx[r].sender \in MirrorTaskIds
    BY <2>2 DEF MirrorInv, MirrorTyped, MirrorCtxType
  <2>4. Sends(mirrorTasks[mirrorCtx[r].sender], mirrorCtx[r].fed)
    BY <2>1, <2>2 DEF SenderSound
  <2> QED BY <2>3, <2>4, MirrorEndedTyped DEF Sends, MirrorTasksKept, MirrorRunsOn
<1>3. TasksPermitted'
  <2>1. RunningTasks(mirrorTasks') \subseteq RunningTasks(mirrorTasks)
    <3>1. Ended.pc \notin Running
      BY MirrorEndedTyped DEF Running, Resolving, Looking
    <3> QED BY <3>1 DEF RunningTasks, MirrorTasksKept, MirrorRunsOn
  <2> QED BY <2>1, MirrorFewerRun DEF MirrorOthersStay
<1> QED BY <1>1, <1>2, <1>3

\* One task that goes on or ends is such a step.
LEMMA MirrorMovedKept ==
  ASSUME NEW t, MirrorMoved(t), mirrorTasks'[t] = Ended \/ MirrorRunsOn(mirrorTasks[t], mirrorTasks'[t])
  PROVE  MirrorTasksKept
BY DEF MirrorMoved, MirrorTasksKept

\* A task that leads no flight before or after leaves the lookups alone.
LEMMA MirrorFollowerMoves ==
  ASSUME MirrorInv, NEW t \in MirrorTaskIds, MirrorMoved(t), mirrorDns' = mirrorDns,
         mirrorTasks[t].pc \notin Looking, mirrorTasks'[t].pc \notin Looking,
         mirrorTasks'[t].pc = "waiting" => mirrorDns[t[2]].flight,
         mirrorTasks'[t].pc = "connect" => FreshEnough(mirrorTasks'[t].used)
  PROVE  FlightLed' /\ FollowersWake' /\ AddressesFresh'
<1>1. \A u \in MirrorTaskIds : u # t => mirrorTasks'[u] = mirrorTasks[u]
  BY DEF MirrorMoved
<1>2. \A u \in MirrorTaskIds : /\ mirrorTasks'[u].pc \in Looking <=> mirrorTasks[u].pc \in Looking
                               /\ mirrorTasks'[u].pc \in Leading <=> mirrorTasks[u].pc \in Leading
  BY <1>1 DEF Leading, Looking
<1>3. /\ \A m : Leader(m)' <=> Leader(m)
      /\ \A m : Waker(m)' <=> Waker(m)
  BY <1>2 DEF Leader, Waker
<1>4. FlightLed'
  BY <1>2, <1>3 DEF MirrorInv, FlightLed
<1>5. FollowersWake'
  <2> SUFFICES ASSUME NEW u \in MirrorTaskIds, mirrorTasks'[u].pc = "waiting", ~mirrorTasks'[u].woken PROVE Waker(u[2])
    BY <1>3 DEF FollowersWake
  <2>1. CASE u = t
    <3>1. u[2] \in MirrorInstances
      BY DEF MirrorTaskIds
    <3>2. Leader(u[2])
      BY <2>1, <3>1 DEF MirrorInv, FlightLed
    <3> QED BY <3>2 DEF Leader, Waker, Leading, Looking
  <2>2. CASE u # t
    BY <1>1, <2>2 DEF MirrorInv, FollowersWake
  <2> QED BY <2>1, <2>2
<1>6. AddressesFresh'
  <2> SUFFICES ASSUME NEW u \in MirrorTaskIds
               PROVE  /\ mirrorTasks'[u].pc \in {"clear", "notify"} /\ mirrorTasks'[u].next = "connect" => FreshEnough(mirrorTasks'[u].used)
                      /\ mirrorTasks'[u].pc = "connect" => FreshEnough(mirrorTasks'[u].used)
    BY DEF AddressesFresh, FreshEnough
  <2>1. CASE u = t
    BY <2>1 DEF Looking
  <2>2. CASE u # t
    BY <1>1, <2>2 DEF MirrorInv, AddressesFresh
  <2> QED BY <2>1, <2>2
<1> QED BY <1>4, <1>5, <1>6

\* What a task that moves becomes.
LEMMA MirrorReplaced ==
  ASSUME MirrorTyped, NEW t \in MirrorTaskIds, NEW x \in MirrorTaskType, mirrorTasks' = [mirrorTasks EXCEPT ![t] = x]
  PROVE  MirrorMoved(t) /\ mirrorTasks'[t] = x
BY DEF MirrorTyped, MirrorMoved

\* The three ways a task goes on.
LEMMA MirrorGoto ==
  ASSUME MirrorTyped, NEW t \in MirrorTaskIds, NEW pc \in MirrorPcs, Goto(t, pc)
  PROVE  /\ MirrorMoved(t) /\ mirrorTasks'[t].pc = pc
         /\ mirrorTasks[t].pc \in Running /\ pc \in Running => MirrorRunsOn(mirrorTasks[t], mirrorTasks'[t])
         /\ mirrorTasks'[t].next = mirrorTasks[t].next /\ mirrorTasks'[t].used = mirrorTasks[t].used
         /\ mirrorTasks'[t].woken = mirrorTasks[t].woken
BY DEF MirrorTyped, MirrorTaskType, Goto, MirrorMoved, MirrorRunsOn

LEMMA MirrorConnecting ==
  ASSUME MirrorTyped, NEW t \in MirrorTaskIds, Connects(t, mirrorDns[t[2]]), mirrorTasks[t].pc \in Running
  PROVE  /\ MirrorMoved(t) /\ mirrorTasks'[t].pc = "connect" /\ MirrorRunsOn(mirrorTasks[t], mirrorTasks'[t])
         /\ mirrorTasks'[t].used = mirrorNow - mirrorDns[t[2]].at
<1>1. "connect" \in MirrorPcs /\ "connect" \in Running
  BY DEF MirrorPcs, Running
<1>2. mirrorNow - mirrorDns[t[2]].at \in Int
  BY MirrorTaskParts DEF MirrorTyped, MirrorDnsType
<1> QED BY <1>1, <1>2 DEF MirrorTyped, MirrorTaskType, Connects, MirrorMoved, MirrorRunsOn

LEMMA MirrorDropping ==
  ASSUME MirrorTyped, NEW t \in MirrorTaskIds, Drops(t)
  PROVE  MirrorMoved(t) /\ mirrorTasks'[t] = Ended
BY MirrorEndedTyped DEF MirrorTyped, Drops, MirrorMoved

\* Only the tasks and the addresses change their values.
LEMMA MirrorTypedStays ==
  ASSUME MirrorTyped, UNCHANGED <<mirrorNow, mirrorPermits, mirrorCtx>>,
         mirrorDns' \in [MirrorInstances -> MirrorDnsType],
         mirrorTasks' \in [MirrorTaskIds -> MirrorTaskType]
  PROVE  MirrorTyped'
BY DEF MirrorTyped

\* A follower moves: it keeps its body or ends, and leads no flight.
MirrorFollows(t) ==
  /\ MirrorMoved(t)
  /\ UNCHANGED <<mirrorNow, mirrorPermits, mirrorCtx, mirrorDns>>
  /\ mirrorTasks'[t] = Ended \/ MirrorRunsOn(mirrorTasks[t], mirrorTasks'[t])
  /\ mirrorTasks[t].pc \notin Looking /\ mirrorTasks'[t].pc \notin Looking
  /\ mirrorTasks'[t].pc = "waiting" => mirrorDns[t[2]].flight
  /\ mirrorTasks'[t].pc = "connect" => FreshEnough(mirrorTasks'[t].used)

\* A follower's move keeps the invariant; it ends, connects or goes on.
LEMMA MirrorFollowsKeeps ==
  ASSUME MirrorInv, NEW t \in MirrorTaskIds, MirrorFollows(t)
  PROVE  MirrorInv'
<1>1. MirrorTasksKept /\ MirrorOthersStay
  BY MirrorMovedKept DEF MirrorFollows, MirrorOthersStay
<1>2. BodiesInOrder' /\ SendersSound' /\ TasksPermitted'
  BY <1>1, MirrorKeptKeeps
<1>3. FlightLed' /\ FollowersWake' /\ AddressesFresh'
  BY MirrorFollowerMoves DEF MirrorFollows
<1>4. MirrorTyped'
  BY MirrorTypedStays DEF MirrorFollows, MirrorMoved, MirrorInv, MirrorTyped
<1> QED BY <1>2, <1>3, <1>4 DEF MirrorInv

LEMMA MirrorEndedFollows ==
  ASSUME MirrorInv, NEW t \in MirrorTaskIds, Drops(t), mirrorTasks[t].pc \notin Looking,
         UNCHANGED <<mirrorNow, mirrorPermits, mirrorCtx, mirrorDns>>
  PROVE  MirrorFollows(t)
<1>1. MirrorMoved(t) /\ mirrorTasks'[t] = Ended
  BY MirrorDropping DEF MirrorInv
<1>2. Ended.pc \notin Looking /\ Ended.pc # "waiting" /\ Ended.pc # "connect"
  BY MirrorEndedTyped DEF Looking
<1> QED BY <1>1, <1>2 DEF MirrorFollows

LEMMA MirrorConnectingFollows ==
  ASSUME MirrorInv, NEW t \in MirrorTaskIds, Connects(t, mirrorDns[t[2]]), mirrorTasks[t].pc \in Running \ Looking,
         FreshEnough(mirrorNow - mirrorDns[t[2]].at),
         UNCHANGED <<mirrorNow, mirrorPermits, mirrorCtx, mirrorDns>>
  PROVE  MirrorFollows(t)
<1>1. /\ MirrorMoved(t) /\ mirrorTasks'[t].pc = "connect" /\ MirrorRunsOn(mirrorTasks[t], mirrorTasks'[t])
      /\ mirrorTasks'[t].used = mirrorNow - mirrorDns[t[2]].at
  BY MirrorConnecting DEF MirrorInv
<1> QED BY <1>1 DEF MirrorFollows, Looking

LEMMA MirrorGotoFollows ==
  ASSUME MirrorInv, NEW t \in MirrorTaskIds, NEW pc \in {"elect", "missed", "waiting", "resolve"}, Goto(t, pc),
         mirrorTasks[t].pc \in Running \ Looking, pc = "waiting" => mirrorDns[t[2]].flight,
         UNCHANGED <<mirrorNow, mirrorPermits, mirrorCtx, mirrorDns>>
  PROVE  MirrorFollows(t)
<1>1. pc \in MirrorPcs /\ pc \in Running /\ pc \notin Looking /\ pc # "connect"
  BY DEF MirrorPcs, Running, Resolving, Looking
<1>2. MirrorMoved(t) /\ mirrorTasks'[t].pc = pc /\ MirrorRunsOn(mirrorTasks[t], mirrorTasks'[t])
  BY <1>1, MirrorGoto DEF MirrorInv
<1> QED BY <1>1, <1>2 DEF MirrorFollows

\* The followers' actions.
LEMMA ResolveChecksCacheKeeps ==
  ASSUME MirrorInv, NEW t \in MirrorTaskIds, ResolveChecksCache(t)
  PROVE  MirrorInv'
<1>1. mirrorTasks[t].pc = "resolve" /\ UNCHANGED <<mirrorPermits, mirrorNow, mirrorDns, mirrorCtx>>
  BY DEF ResolveChecksCache
<1>2. mirrorTasks[t].pc \in Running \ Looking
  BY <1>1 DEF Running, Resolving, Looking
<1>3. CASE cached_fresh(mirrorDns[t[2]])
  <2>1. Connects(t, mirrorDns[t[2]])
    BY <1>3 DEF ResolveChecksCache
  <2>2. FreshEnough(mirrorNow - mirrorDns[t[2]].at)
    BY <1>3, MirrorConstants, MirrorTaskParts DEF cached_fresh, FreshEnough, MirrorInv, MirrorTyped, MirrorDnsType
  <2> QED BY <1>1, <1>2, <2>1, <2>2, MirrorConnectingFollows, MirrorFollowsKeeps
<1>4. CASE ~cached_fresh(mirrorDns[t[2]])
  <2>1. Goto(t, "elect")
    BY <1>4 DEF ResolveChecksCache
  <2> QED BY <1>1, <1>2, <2>1, MirrorGotoFollows, MirrorFollowsKeeps
<1> QED BY <1>3, <1>4

LEMMA FollowerRegistersKeeps ==
  ASSUME MirrorInv, NEW t \in MirrorTaskIds, FollowerRegisters(t)
  PROVE  MirrorInv'
<1>1. mirrorTasks[t].pc = "missed" /\ UNCHANGED <<mirrorPermits, mirrorNow, mirrorDns, mirrorCtx>>
      /\ mirrorTasks' = [mirrorTasks EXCEPT ![t].pc = "registered", ![t].woken = FALSE]
  BY DEF FollowerRegisters
<1>2. "registered" \in MirrorPcs /\ "registered" \in Running /\ "registered" \notin Looking
      /\ "missed" \in Running /\ "missed" \notin Looking
  BY DEF MirrorPcs, Running, Resolving, Looking
<1>3. MirrorMoved(t) /\ mirrorTasks'[t].pc = "registered" /\ MirrorRunsOn(mirrorTasks[t], mirrorTasks'[t])
  BY <1>1, <1>2 DEF MirrorInv, MirrorTyped, MirrorTaskType, MirrorMoved, MirrorRunsOn
<1>4. MirrorFollows(t)
  BY <1>1, <1>2, <1>3 DEF MirrorFollows
<1> QED BY <1>4, MirrorFollowsKeeps

LEMMA FollowerLooksKeeps ==
  ASSUME MirrorInv, NEW t \in MirrorTaskIds, FollowerLooks(t)
  PROVE  MirrorInv'
<1>1. mirrorTasks[t].pc = "registered" /\ UNCHANGED <<mirrorPermits, mirrorNow, mirrorDns, mirrorCtx>>
      /\ Goto(t, IF mirrorDns[t[2]].flight THEN "waiting" ELSE "resolve")
  BY DEF FollowerLooks
<1>2. mirrorTasks[t].pc \in Running \ Looking
  BY <1>1 DEF Running, Resolving, Looking
<1>3. CASE mirrorDns[t[2]].flight
  <2>1. Goto(t, "waiting")
    BY <1>1, <1>3
  <2> QED BY <1>1, <1>2, <1>3, <2>1, MirrorGotoFollows, MirrorFollowsKeeps
<1>4. CASE ~mirrorDns[t[2]].flight
  <2>1. Goto(t, "resolve")
    BY <1>1, <1>4
  <2> QED BY <1>1, <1>2, <2>1, MirrorGotoFollows, MirrorFollowsKeeps
<1> QED BY <1>3, <1>4

LEMMA FollowerWakesKeeps ==
  ASSUME MirrorInv, NEW t \in MirrorTaskIds, FollowerWakes(t)
  PROVE  MirrorInv'
<1>1. mirrorTasks[t].pc = "waiting" /\ UNCHANGED <<mirrorPermits, mirrorNow, mirrorDns, mirrorCtx>>
      /\ IF stale_reuse(mirrorDns[t[2]]) THEN Connects(t, mirrorDns[t[2]])
         ELSE IF mirrorDns[t[2]].error THEN Drops(t) ELSE Goto(t, "resolve")
  BY DEF FollowerWakes
<1>2. mirrorTasks[t].pc \in Running \ Looking
  BY <1>1 DEF Running, Resolving, Looking
<1>3. CASE stale_reuse(mirrorDns[t[2]])
  <2>1. Connects(t, mirrorDns[t[2]])
    BY <1>1, <1>3
  <2>2. FreshEnough(mirrorNow - mirrorDns[t[2]].at)
    BY <1>3 DEF stale_reuse, FreshEnough
  <2> QED BY <1>1, <1>2, <2>1, <2>2, MirrorConnectingFollows, MirrorFollowsKeeps
<1>4. CASE ~stale_reuse(mirrorDns[t[2]])
  <2>1. Drops(t) \/ Goto(t, "resolve")
    BY <1>1, <1>4
  <2> QED BY <1>1, <1>2, <2>1, MirrorEndedFollows, MirrorGotoFollows, MirrorFollowsKeeps
<1> QED BY <1>3, <1>4

LEMMA MirrorConnectsKeeps ==
  ASSUME MirrorInv, NEW t \in MirrorTaskIds, NEW ok, MirrorConnects(t, ok)
  PROVE  MirrorInv'
<1>1. mirrorTasks[t].pc = "connect" /\ UNCHANGED <<mirrorPermits, mirrorNow, mirrorDns, mirrorCtx>>
      /\ \/ mirrorTasks' = [mirrorTasks EXCEPT ![t] = [@ EXCEPT !.pc = "body", !.used = -1, !.woken = FALSE]]
         \/ Drops(t)
  BY DEF MirrorConnects
<1>2. "body" \in MirrorPcs /\ "body" \in Running /\ "body" \notin Looking
      /\ "connect" \in Running /\ "connect" \notin Looking
  BY DEF MirrorPcs, Running, Resolving, Looking
<1>3. CASE Drops(t)
  BY <1>1, <1>2, <1>3, MirrorEndedFollows, MirrorFollowsKeeps
<1>4. CASE mirrorTasks' = [mirrorTasks EXCEPT ![t] = [@ EXCEPT !.pc = "body", !.used = -1, !.woken = FALSE]]
  <2> DEFINE p == mirrorTasks[t]
             none == -1
             x == [p EXCEPT !.pc = "body", !.used = none, !.woken = FALSE]
  <2>3. p \in MirrorTaskType /\ p.pc \in Running /\ none \in Int
    BY <1>1, <1>2 DEF MirrorInv, MirrorTyped
  <2> HIDE DEF p, none
  <2>4. x \in MirrorTaskType /\ x.pc = "body" /\ MirrorRunsOn(p, x)
    BY <1>2, <2>3 DEF MirrorTaskType, MirrorRunsOn
  <2>5. mirrorTasks' = [mirrorTasks EXCEPT ![t] = x]
    BY <1>4 DEF p, none
  <2> HIDE DEF x
  <2>1. MirrorMoved(t) /\ mirrorTasks'[t].pc = "body" /\ MirrorRunsOn(mirrorTasks[t], mirrorTasks'[t])
    BY <2>4, <2>5, MirrorReplaced DEF MirrorInv, p
  <2>2. MirrorFollows(t)
    BY <1>1, <1>2, <2>1 DEF MirrorFollows
  <2> QED BY <2>2, MirrorFollowsKeeps
<1> QED BY <1>1, <1>3, <1>4

\* A leader moves: the others' places in the lookup stay.
LEMMA ResolveTimesOutKeeps ==
  ASSUME MirrorInv, NEW t \in MirrorTaskIds, ResolveTimesOut(t)
  PROVE  MirrorInv'
<1>1. /\ mirrorTasks[t].pc \in Resolving \ {"clear", "notify"}
      /\ UNCHANGED <<mirrorPermits, mirrorNow, mirrorDns, mirrorCtx>>
  BY DEF ResolveTimesOut
<1>2. CASE mirrorTasks[t].pc # "lookup"
  <2>1. Drops(t) /\ mirrorTasks[t].pc \notin Looking
    BY <1>1, <1>2 DEF ResolveTimesOut, Looking
  <2> QED BY <1>1, <2>1, MirrorEndedFollows, MirrorFollowsKeeps
<1>3. CASE mirrorTasks[t].pc = "lookup"
  <2> DEFINE p == mirrorTasks[t]
             x == [p EXCEPT !.pc = "clear", !.next = "dropped"]
  <2>1. mirrorTasks' = [mirrorTasks EXCEPT ![t] = x]
    BY <1>3 DEF ResolveTimesOut
  <2>2. p \in MirrorTaskType /\ "clear" \in MirrorPcs /\ "clear" \in Running /\ p.pc \in Running
    BY <1>3 DEF MirrorInv, MirrorTyped, MirrorPcs, Running, Resolving, Looking
  <2> HIDE DEF p
  <2>10. x \in MirrorTaskType /\ x.pc = "clear" /\ x.next = "dropped" /\ MirrorRunsOn(p, x)
    BY <2>2 DEF MirrorTaskType, MirrorRunsOn
  <2> HIDE DEF x
  <2>3. MirrorMoved(t)
    BY <2>1, <2>10, MirrorReplaced DEF MirrorInv
  <2>4. mirrorTasks'[t].pc = "clear" /\ mirrorTasks'[t].next = "dropped" /\ MirrorRunsOn(mirrorTasks[t], mirrorTasks'[t])
    BY <2>1, <2>10, MirrorReplaced DEF MirrorInv, p
  <2>5. MirrorTasksKept /\ MirrorOthersStay
    BY <1>1, <2>3, <2>4, MirrorMovedKept DEF MirrorOthersStay
  <2>6. BodiesInOrder' /\ SendersSound' /\ TasksPermitted'
    BY <2>5, MirrorKeptKeeps
  <2>7. MirrorTyped'
    BY <1>1, <2>3, MirrorTypedStays DEF MirrorMoved, MirrorInv, MirrorTyped
  <2>8. \A u \in MirrorTaskIds : /\ mirrorTasks'[u].pc \in Looking <=> mirrorTasks[u].pc \in Looking
                                 /\ mirrorTasks'[u].pc \in Leading <=> mirrorTasks[u].pc \in Leading
    BY <1>3, <2>3, <2>4 DEF Leading, Looking, MirrorMoved
  <2>9. FlightLed' /\ FollowersWake' /\ AddressesFresh'
    <3>1. /\ \A m : Leader(m)' <=> Leader(m)
          /\ \A m : Waker(m)' <=> Waker(m)
      BY <2>8 DEF Leader, Waker
    <3>2. FlightLed'
      BY <1>1, <2>8, <3>1 DEF MirrorInv, FlightLed
    <3>3. FollowersWake'
      BY <2>3, <2>4, <3>1 DEF MirrorInv, FollowersWake, MirrorMoved
    <3>4. AddressesFresh'
      BY <2>3, <2>4 DEF MirrorInv, AddressesFresh, MirrorMoved, FreshEnough
    <3> QED BY <3>2, <3>3, <3>4
  <2> QED BY <2>6, <2>7, <2>9 DEF MirrorInv
<1> QED BY <1>2, <1>3

\* The compare_exchange that wins raises the flag with its leader.
LEMMA ResolveElectsKeeps ==
  ASSUME MirrorInv, NEW t \in MirrorTaskIds, ResolveElects(t)
  PROVE  MirrorInv'
<1>1. /\ mirrorTasks[t].pc = "elect" /\ UNCHANGED <<mirrorPermits, mirrorNow, mirrorCtx>>
      /\ Goto(t, IF mirrorDns[t[2]].flight THEN "missed" ELSE "lookup")
      /\ mirrorDns' = [mirrorDns EXCEPT ![t[2]].flight = TRUE]
  BY DEF ResolveElects
<1>2. t[2] \in MirrorInstances /\ mirrorDns \in [MirrorInstances -> MirrorDnsType]
  BY MirrorTaskParts DEF MirrorInv, MirrorTyped
<1>3. /\ mirrorDns' \in [MirrorInstances -> MirrorDnsType] /\ mirrorDns'[t[2]].flight
      /\ \A m \in MirrorInstances : m # t[2] => mirrorDns'[m] = mirrorDns[m]
  BY <1>1, <1>2 DEF MirrorDnsType
<1>4. /\ "missed" \in MirrorPcs /\ "missed" \in Running /\ "lookup" \in MirrorPcs /\ "lookup" \in Running
      /\ "elect" \in Running /\ "elect" \notin Looking /\ "elect" \notin Leading
      /\ "missed" \notin Looking /\ "missed" \notin Leading /\ "lookup" \in Looking /\ "lookup" \in Leading
  BY DEF MirrorPcs, Running, Resolving, Looking, Leading
<1>5. PICK pc \in {"missed", "lookup"} : Goto(t, pc) /\ (pc = "lookup" <=> ~mirrorDns[t[2]].flight)
  BY <1>1
<1>6. /\ MirrorMoved(t) /\ mirrorTasks'[t].pc = pc /\ MirrorRunsOn(mirrorTasks[t], mirrorTasks'[t])
  BY <1>1, <1>4, <1>5, MirrorGoto DEF MirrorInv
<1>7. BodiesInOrder' /\ SendersSound' /\ TasksPermitted'
  BY <1>1, <1>6, MirrorMovedKept, MirrorKeptKeeps DEF MirrorOthersStay
<1>8. MirrorTyped'
  BY <1>1, <1>3, <1>6, MirrorTypedStays DEF MirrorMoved, MirrorInv
<1>9. \A u \in MirrorTaskIds : mirrorTasks[u].pc \in Leading => u # t /\ mirrorTasks'[u] = mirrorTasks[u]
  BY <1>1, <1>4, <1>6 DEF MirrorMoved
<1>10. FlightLed'
  <2>1. ASSUME NEW m \in MirrorInstances, mirrorDns'[m].flight PROVE Leader(m)'
    <3>1. CASE mirrorDns[m].flight
      <4>1. PICK u \in MirrorTaskIds : u[2] = m /\ mirrorTasks[u].pc \in Leading
        BY <3>1 DEF MirrorInv, FlightLed, Leader
      <4> QED BY <1>9, <4>1 DEF Leader
    <3>2. CASE ~mirrorDns[m].flight
      <4>1. m = t[2] /\ pc = "lookup"
        BY <1>3, <1>5, <2>1, <3>2
      <4> QED BY <1>4, <1>6, <4>1 DEF Leader
    <3> QED BY <3>1, <3>2
  <2>2. ASSUME NEW u \in MirrorTaskIds, mirrorTasks'[u].pc \in Leading PROVE mirrorDns'[u[2]].flight
    <3>1. CASE u[2] = t[2]
      BY <1>3, <3>1
    <3>2. CASE u[2] # t[2]
      <4>1. mirrorTasks'[u] = mirrorTasks[u] /\ u[2] \in MirrorInstances
        BY <1>6, <3>2, MirrorTaskParts DEF MirrorMoved
      <4> QED BY <1>3, <2>2, <3>2, <4>1 DEF MirrorInv, FlightLed
    <3> QED BY <3>1, <3>2
  <2>3. ASSUME NEW u \in MirrorTaskIds, NEW v \in MirrorTaskIds, u[2] = v[2],
               mirrorTasks'[u].pc \in Leading, mirrorTasks'[v].pc \in Leading
        PROVE  u = v
    <3>1. ASSUME NEW w \in MirrorTaskIds, w # t, w[2] = t[2], mirrorTasks'[w].pc \in Leading, mirrorTasks'[t].pc \in Leading
          PROVE  FALSE
      BY <1>4, <1>5, <1>6, <3>1 DEF MirrorMoved, MirrorInv, FlightLed
    <3>2. CASE u = t \/ v = t
      BY <2>3, <3>1, <3>2
    <3>3. CASE u # t /\ v # t
      BY <1>6, <2>3, <3>3 DEF MirrorMoved, MirrorInv, FlightLed
    <3> QED BY <3>2, <3>3
  <2> QED BY <2>1, <2>2, <2>3 DEF FlightLed
<1>11. FollowersWake'
  <2> SUFFICES ASSUME NEW u \in MirrorTaskIds, mirrorTasks'[u].pc = "waiting", ~mirrorTasks'[u].woken PROVE Waker(u[2])'
    BY DEF FollowersWake
  <2>1. u # t /\ mirrorTasks'[u] = mirrorTasks[u]
    BY <1>5, <1>6 DEF MirrorMoved
  <2>2. PICK v \in MirrorTaskIds : v[2] = u[2] /\ mirrorTasks[v].pc \in Looking
    BY <2>1 DEF MirrorInv, FollowersWake, Waker
  <2>3. mirrorTasks'[v] = mirrorTasks[v]
    BY <1>1, <1>4, <1>6, <2>2 DEF MirrorMoved
  <2> QED BY <2>2, <2>3 DEF Waker
<1>12. AddressesFresh'
  BY <1>5, <1>6 DEF MirrorInv, AddressesFresh, MirrorMoved, FreshEnough
<1> QED BY <1>7, <1>8, <1>10, <1>11, <1>12 DEF MirrorInv

\* The leader's answer is as fresh as it claims, or within the grace.
LEMMA LookupAnswersKeeps ==
  ASSUME MirrorInv, NEW t \in MirrorTaskIds, NEW ok \in BOOLEAN, LookupAnswers(t, ok)
  PROVE  MirrorInv'
<1> DEFINE m == t[2]
           next == IF ok \/ stale_reuse(mirrorDns[m]) THEN "connect" ELSE "dropped"
           used == IF ok THEN 0 ELSE mirrorNow - mirrorDns[m].at
<1>1. /\ mirrorTasks[t].pc = "lookup" /\ UNCHANGED <<mirrorPermits, mirrorNow, mirrorCtx>>
      /\ mirrorDns' = [mirrorDns EXCEPT ![m] =
           IF ok THEN [@ EXCEPT !.addr = TRUE, !.at = mirrorNow, !.error = FALSE] ELSE [@ EXCEPT !.error = TRUE]]
      /\ mirrorTasks' = [mirrorTasks EXCEPT ![t] = [@ EXCEPT !.pc = "clear", !.next = next, !.used = used]]
  BY DEF LookupAnswers
<1>2. m \in MirrorInstances /\ mirrorDns \in [MirrorInstances -> MirrorDnsType] /\ mirrorNow \in Nat
      /\ mirrorTasks \in [MirrorTaskIds -> MirrorTaskType]
  BY MirrorTaskParts DEF MirrorInv, MirrorTyped
<1>3. next \in {"connect", "dropped"} /\ used \in Int /\ (next = "connect" => FreshEnough(used))
  BY <1>2, MirrorConstants DEF stale_reuse, FreshEnough, MirrorDnsType
<1> HIDE DEF next, used, m
<1>4. /\ mirrorDns' \in [MirrorInstances -> MirrorDnsType]
      /\ \A i \in MirrorInstances : mirrorDns'[i].flight <=> mirrorDns[i].flight
  <2>1. CASE ok
    <3>1. mirrorDns' = [mirrorDns EXCEPT ![m] = [@ EXCEPT !.addr = TRUE, !.at = mirrorNow, !.error = FALSE]]
      BY <1>1, <2>1
    <3> QED BY <1>2, <3>1 DEF MirrorDnsType
  <2>2. CASE ~ok
    <3>1. mirrorDns' = [mirrorDns EXCEPT ![m] = [@ EXCEPT !.error = TRUE]]
      BY <1>1, <2>2
    <3> QED BY <1>2, <3>1 DEF MirrorDnsType
  <2> QED BY <2>1, <2>2
<1>5. "clear" \in MirrorPcs /\ "clear" \in Running /\ "lookup" \in Running
  BY DEF MirrorPcs, Running, Resolving, Looking
<1> DEFINE p == mirrorTasks[t]
           x == [p EXCEPT !.pc = "clear", !.next = next, !.used = used]
<1>15. p \in MirrorTaskType /\ p.pc \in Running /\ next \in {"", "connect", "dropped"}
  BY <1>1, <1>2, <1>3, <1>5
<1>17. mirrorTasks' = [mirrorTasks EXCEPT ![t] = x]
  BY <1>1
<1> HIDE DEF p
<1>16. x \in MirrorTaskType /\ x.pc = "clear" /\ x.next = next /\ x.used = used /\ MirrorRunsOn(p, x)
  BY <1>3, <1>5, <1>15 DEF MirrorTaskType, MirrorRunsOn
<1> HIDE DEF x
<1>6. MirrorMoved(t)
  BY <1>16, <1>17, MirrorReplaced DEF MirrorInv
<1>7. /\ mirrorTasks'[t].pc = "clear" /\ mirrorTasks'[t].next = next /\ mirrorTasks'[t].used = used
      /\ MirrorRunsOn(mirrorTasks[t], mirrorTasks'[t])
  BY <1>16, <1>17, MirrorReplaced DEF MirrorInv, p
<1>8. BodiesInOrder' /\ SendersSound' /\ TasksPermitted'
  BY <1>1, <1>6, <1>7, MirrorMovedKept, MirrorKeptKeeps DEF MirrorOthersStay
<1>9. MirrorTyped'
  BY <1>1, <1>4, <1>6, MirrorTypedStays DEF MirrorMoved, MirrorInv
<1>10. \A u \in MirrorTaskIds : /\ mirrorTasks'[u].pc \in Looking <=> mirrorTasks[u].pc \in Looking
                                /\ mirrorTasks'[u].pc \in Leading <=> mirrorTasks[u].pc \in Leading
  BY <1>1, <1>6, <1>7 DEF Leading, Looking, MirrorMoved
<1>11. /\ \A i : Leader(i)' <=> Leader(i)
       /\ \A i : Waker(i)' <=> Waker(i)
  BY <1>10 DEF Leader, Waker
<1>12. FlightLed'
  BY <1>4, <1>10, <1>11, MirrorTaskParts DEF MirrorInv, FlightLed
<1>13. FollowersWake'
  BY <1>6, <1>7, <1>11 DEF MirrorInv, FollowersWake, MirrorMoved
<1>14. AddressesFresh'
  BY <1>3, <1>6, <1>7 DEF MirrorInv, AddressesFresh, MirrorMoved, FreshEnough
<1> QED BY <1>8, <1>9, <1>12, <1>13, <1>14 DEF MirrorInv

\* The flag falls with its only leader, who still has to wake the waiters.
LEMMA LookupFlightClearsKeeps ==
  ASSUME MirrorInv, NEW t \in MirrorTaskIds, LookupFlightClears(t)
  PROVE  MirrorInv'
<1>1. /\ mirrorTasks[t].pc = "clear" /\ UNCHANGED <<mirrorPermits, mirrorNow, mirrorCtx>>
      /\ Goto(t, "notify") /\ mirrorDns' = [mirrorDns EXCEPT ![t[2]].flight = FALSE]
  BY DEF LookupFlightClears
<1>2. t[2] \in MirrorInstances /\ mirrorDns \in [MirrorInstances -> MirrorDnsType]
  BY MirrorTaskParts DEF MirrorInv, MirrorTyped
<1>3. /\ mirrorDns' \in [MirrorInstances -> MirrorDnsType] /\ ~mirrorDns'[t[2]].flight
      /\ \A m \in MirrorInstances : m # t[2] => mirrorDns'[m] = mirrorDns[m]
  BY <1>1, <1>2 DEF MirrorDnsType
<1>4. /\ "notify" \in MirrorPcs /\ "notify" \in Running /\ "clear" \in Running
      /\ "notify" \in Looking /\ "notify" \notin Leading /\ "clear" \in Leading
  BY DEF MirrorPcs, Running, Resolving, Looking, Leading
<1>5. /\ MirrorMoved(t) /\ mirrorTasks'[t].pc = "notify" /\ MirrorRunsOn(mirrorTasks[t], mirrorTasks'[t])
      /\ mirrorTasks'[t].next = mirrorTasks[t].next /\ mirrorTasks'[t].used = mirrorTasks[t].used
  BY <1>1, <1>4, MirrorGoto DEF MirrorInv
<1>6. BodiesInOrder' /\ SendersSound' /\ TasksPermitted'
  BY <1>1, <1>5, MirrorMovedKept, MirrorKeptKeeps DEF MirrorOthersStay
<1>7. MirrorTyped'
  BY <1>1, <1>3, <1>5, MirrorTypedStays DEF MirrorMoved, MirrorInv
<1>8. FlightLed'
  <2>1. ASSUME NEW u \in MirrorTaskIds, mirrorTasks'[u].pc \in Leading
        PROVE  u # t /\ u[2] # t[2] /\ mirrorTasks'[u] = mirrorTasks[u] /\ u[2] \in MirrorInstances
    <3>1. u # t
      BY <1>4, <1>5, <2>1
    <3>2. mirrorTasks'[u] = mirrorTasks[u]
      BY <1>5, <3>1 DEF MirrorMoved
    <3> QED BY <1>1, <1>4, <2>1, <3>1, <3>2, MirrorTaskParts DEF MirrorInv, FlightLed
  <2>2. ASSUME NEW m \in MirrorInstances, mirrorDns'[m].flight PROVE Leader(m)'
    <3>1. m # t[2] /\ mirrorDns[m].flight
      BY <1>3, <2>2
    <3>2. PICK u \in MirrorTaskIds : u[2] = m /\ mirrorTasks[u].pc \in Leading
      BY <3>1 DEF MirrorInv, FlightLed, Leader
    <3>3. mirrorTasks'[u] = mirrorTasks[u]
      BY <1>5, <3>1, <3>2 DEF MirrorMoved
    <3> QED BY <3>2, <3>3 DEF Leader
  <2>3. ASSUME NEW u \in MirrorTaskIds, mirrorTasks'[u].pc \in Leading PROVE mirrorDns'[u[2]].flight
    BY <1>3, <2>1, <2>3 DEF MirrorInv, FlightLed
  <2>4. ASSUME NEW u \in MirrorTaskIds, NEW v \in MirrorTaskIds, u[2] = v[2],
               mirrorTasks'[u].pc \in Leading, mirrorTasks'[v].pc \in Leading
        PROVE  u = v
    BY <2>1, <2>4 DEF MirrorInv, FlightLed
  <2> QED BY <2>2, <2>3, <2>4 DEF FlightLed
<1>9. \A m : Waker(m) => Waker(m)'
  BY <1>4, <1>5 DEF Waker, MirrorMoved
<1>10. FollowersWake'
  BY <1>5, <1>9 DEF MirrorInv, FollowersWake, MirrorMoved
<1>11. AddressesFresh'
  BY <1>1, <1>5 DEF MirrorInv, AddressesFresh, MirrorMoved, FreshEnough
<1> QED BY <1>6, <1>7, <1>8, <1>10, <1>11 DEF MirrorInv

\* Who waits on this lookup is woken.
LEMMA LookupFlightNotifiesKeeps ==
  ASSUME MirrorInv, NEW t \in MirrorTaskIds, LookupFlightNotifies(t)
  PROVE  MirrorInv'
<1> DEFINE Woken(u) == IF u[2] = t[2] /\ mirrorTasks[u].pc \in {"registered", "waiting"}
                       THEN [mirrorTasks[u] EXCEPT !.woken = TRUE] ELSE mirrorTasks[u]
           connecting == [mirrorTasks[t] EXCEPT !.pc = "connect", !.next = ""]
<1>1. /\ mirrorTasks[t].pc = "notify" /\ UNCHANGED <<mirrorPermits, mirrorNow, mirrorCtx, mirrorDns>>
      /\ mirrorTasks' = [u \in MirrorTaskIds |-> IF u # t THEN Woken(u)
                           ELSE IF mirrorTasks[t].next = "connect" THEN connecting ELSE Ended]
  BY DEF LookupFlightNotifies
<1>2. /\ "connect" \in MirrorPcs /\ "connect" \in Running /\ "notify" \in Running
      /\ "registered" \in Running /\ "waiting" \in Running
      /\ "connect" \notin Looking /\ "connect" \notin Leading /\ "notify" \notin Leading
      /\ Ended.pc \notin Looking /\ Ended.pc \notin Leading /\ Ended.pc = "dropped"
      /\ Leading \subseteq Looking
  BY MirrorEndedTyped DEF MirrorPcs, Running, Resolving, Looking, Leading
<1>3. ASSUME NEW u \in MirrorTaskIds, u # t
      PROVE  LET x == mirrorTasks'[u]
                 p == mirrorTasks[u]
             IN /\ x \in MirrorTaskType /\ (x = p \/ MirrorRunsOn(p, x))
                /\ x.pc = p.pc /\ x.next = p.next /\ x.used = p.used
                /\ (u[2] = t[2] /\ x.pc = "waiting" => x.woken) /\ (p.woken => x.woken)
  <2>1. mirrorTasks'[u] = Woken(u) /\ mirrorTasks[u] \in MirrorTaskType
    BY <1>1, <1>3 DEF MirrorInv, MirrorTyped
  <2>2. CASE u[2] = t[2] /\ mirrorTasks[u].pc \in {"registered", "waiting"}
    <3>1. mirrorTasks'[u] = [mirrorTasks[u] EXCEPT !.woken = TRUE] /\ mirrorTasks[u].pc \in Running
      BY <1>2, <2>1, <2>2
    <3> QED BY <2>1, <3>1 DEF MirrorTaskType, MirrorRunsOn
  <2>3. CASE ~(u[2] = t[2] /\ mirrorTasks[u].pc \in {"registered", "waiting"})
    BY <2>1, <2>3
  <2> QED BY <2>2, <2>3
<1>4. \/ mirrorTasks'[t] = Ended
      \/ /\ mirrorTasks'[t] \in MirrorTaskType /\ MirrorRunsOn(mirrorTasks[t], mirrorTasks'[t])
         /\ mirrorTasks'[t].pc = "connect" /\ mirrorTasks[t].next = "connect"
         /\ mirrorTasks'[t].used = mirrorTasks[t].used
  <2>1. mirrorTasks[t] \in MirrorTaskType /\ mirrorTasks[t].pc \in Running
    BY <1>1, <1>2 DEF MirrorInv, MirrorTyped
  <2>2. CASE mirrorTasks[t].next = "connect"
    <3>1. mirrorTasks'[t] = connecting
      BY <1>1, <2>2
    <3>2. connecting \in MirrorTaskType /\ connecting.pc = "connect" /\ connecting.used = mirrorTasks[t].used
          /\ MirrorRunsOn(mirrorTasks[t], connecting)
      BY <1>2, <2>1 DEF MirrorTaskType, MirrorRunsOn
    <3> HIDE DEF connecting
    <3> QED BY <2>2, <3>1, <3>2
  <2>3. CASE mirrorTasks[t].next # "connect"
    BY <1>1, <2>3
  <2> QED BY <2>2, <2>3
<1> HIDE DEF Woken, connecting
<1>5. mirrorTasks' \in [MirrorTaskIds -> MirrorTaskType]
  <2>1. \A u \in MirrorTaskIds : mirrorTasks'[u] \in MirrorTaskType
    BY <1>3, <1>4, MirrorEndedTyped
  <2>2. DOMAIN mirrorTasks' = MirrorTaskIds /\ mirrorTasks' = [u \in MirrorTaskIds |-> mirrorTasks'[u]]
    BY <1>1
  <2> QED BY <2>1, <2>2
<1>6. MirrorTasksKept
  <2>1. ASSUME NEW u \in MirrorTaskIds
        PROVE  mirrorTasks'[u] = mirrorTasks[u] \/ mirrorTasks'[u] = Ended \/ MirrorRunsOn(mirrorTasks[u], mirrorTasks'[u])
    BY <1>3, <1>4
  <2> QED BY <1>5, <2>1 DEF MirrorTasksKept
<1>7. BodiesInOrder' /\ SendersSound' /\ TasksPermitted'
  BY <1>1, <1>6, MirrorKeptKeeps DEF MirrorOthersStay
<1>8. MirrorTyped'
  BY <1>1, <1>5, MirrorTypedStays DEF MirrorInv, MirrorTyped
<1>9. ASSUME NEW u \in MirrorTaskIds PROVE mirrorTasks'[u].pc \in Leading <=> mirrorTasks[u].pc \in Leading
  BY <1>1, <1>2, <1>3, <1>4
<1>10. FlightLed'
  <2>1. \A m : Leader(m)' <=> Leader(m)
    BY <1>9 DEF Leader
  <2> QED BY <1>1, <1>9, <2>1 DEF MirrorInv, FlightLed
<1>11. FollowersWake'
  <2> SUFFICES ASSUME NEW u \in MirrorTaskIds, mirrorTasks'[u].pc = "waiting", ~mirrorTasks'[u].woken PROVE Waker(u[2])'
    BY DEF FollowersWake
  <2>1. u # t
    BY <1>2, <1>4
  <2>2. u[2] # t[2] /\ mirrorTasks[u].pc = "waiting" /\ ~mirrorTasks[u].woken
    BY <1>3, <2>1
  <2>3. PICK v \in MirrorTaskIds : v[2] = u[2] /\ mirrorTasks[v].pc \in Looking
    BY <2>2 DEF MirrorInv, FollowersWake, Waker
  <2>4. mirrorTasks'[v].pc = mirrorTasks[v].pc
    BY <1>3, <2>2, <2>3
  <2> QED BY <2>3, <2>4 DEF Waker
<1>12. AddressesFresh'
  <2> SUFFICES ASSUME NEW u \in MirrorTaskIds
               PROVE  /\ mirrorTasks'[u].pc \in {"clear", "notify"} /\ mirrorTasks'[u].next = "connect" => FreshEnough(mirrorTasks'[u].used)
                      /\ mirrorTasks'[u].pc = "connect" => FreshEnough(mirrorTasks'[u].used)
    BY DEF AddressesFresh, FreshEnough
  <2>1. CASE u = t
    BY <1>1, <1>2, <1>4, <2>1 DEF MirrorInv, AddressesFresh
  <2>2. CASE u # t
    BY <1>3, <2>2 DEF MirrorInv, AddressesFresh
  <2> QED BY <2>1, <2>2
<1> QED BY <1>7, <1>8, <1>10, <1>11, <1>12 DEF MirrorInv

LEMMA MirrorRetireKeeps ==
  ASSUME MirrorInv, NEW m \in MirrorInstances, MirrorRetire(m)
  PROVE  MirrorInv'
<1> DEFINE Given(u) == [mirrorTasks[u] EXCEPT !.pc = IF @ = "notify" THEN @ ELSE "clear", !.next = "dropped"]
           Aborted(u) == IF u[2] # m \/ mirrorTasks[u].pc \notin Running THEN mirrorTasks[u]
                         ELSE IF mirrorTasks[u].pc \notin Looking THEN Ended ELSE Given(u)
<1>1. /\ UNCHANGED <<mirrorPermits, mirrorNow, mirrorCtx, mirrorDns>>
      /\ mirrorTasks' = [u \in MirrorTaskIds |-> Aborted(u)]
  BY DEF MirrorRetire
<1>2. /\ "clear" \in MirrorPcs /\ "clear" \in Running /\ "notify" \in Running /\ "notify" \in MirrorPcs
      /\ Ended.pc \notin Looking /\ Ended.pc \notin Leading /\ Ended.pc = "dropped" /\ Looking \subseteq Running
      /\ Leading \subseteq Looking
  BY MirrorEndedTyped DEF MirrorPcs, Running, Resolving, Looking, Leading
<1>3. ASSUME NEW u \in MirrorTaskIds
      PROVE  LET x == mirrorTasks'[u]
                 p == mirrorTasks[u]
             IN \/ x = p /\ (u[2] # m \/ p.pc \notin Running)
                \/ x = Ended /\ p.pc \notin Looking /\ u[2] = m
                \/ /\ x \in MirrorTaskType /\ MirrorRunsOn(p, x) /\ u[2] = m /\ x.next = "dropped"
                   /\ ((p.pc \in {"lookup", "clear"} /\ x.pc = "clear") \/ (p.pc = "notify" /\ x.pc = "notify"))
  <2>1. mirrorTasks'[u] = Aborted(u) /\ mirrorTasks[u] \in MirrorTaskType
    BY <1>1 DEF MirrorInv, MirrorTyped
  <2>2. CASE u[2] # m \/ mirrorTasks[u].pc \notin Running
    BY <2>1, <2>2
  <2>3. CASE u[2] = m /\ mirrorTasks[u].pc \in Running \ Looking
    BY <2>1, <2>3
  <2>4. CASE u[2] = m /\ mirrorTasks[u].pc \in Looking
    <3> DEFINE p == mirrorTasks[u]
               pc == IF p.pc = "notify" THEN p.pc ELSE "clear"
    <3>1. mirrorTasks'[u] = [p EXCEPT !.pc = pc, !.next = "dropped"] /\ p \in MirrorTaskType
      BY <1>2, <2>1, <2>4
    <3>2. /\ pc \in MirrorPcs /\ pc \in Running /\ p.pc \in Running
          /\ (p.pc \in {"lookup", "clear"} /\ pc = "clear") \/ (p.pc = "notify" /\ pc = "notify")
      BY <1>2, <2>4 DEF Looking
    <3> HIDE DEF p, pc
    <3>3. [p EXCEPT !.pc = pc, !.next = "dropped"] \in MirrorTaskType
          /\ MirrorRunsOn(p, [p EXCEPT !.pc = pc, !.next = "dropped"])
          /\ [p EXCEPT !.pc = pc, !.next = "dropped"].pc = pc
          /\ [p EXCEPT !.pc = pc, !.next = "dropped"].next = "dropped"
      BY <3>1, <3>2 DEF MirrorTaskType, MirrorRunsOn
    <3> QED BY <2>4, <3>1, <3>2, <3>3 DEF p
  <2> QED BY <2>2, <2>3, <2>4
<1> HIDE DEF Given, Aborted
<1>4. mirrorTasks' \in [MirrorTaskIds -> MirrorTaskType]
  <2>1. \A u \in MirrorTaskIds : mirrorTasks'[u] \in MirrorTaskType
    BY <1>3, MirrorEndedTyped DEF MirrorInv, MirrorTyped
  <2>2. mirrorTasks' = [u \in MirrorTaskIds |-> mirrorTasks'[u]]
    BY <1>1
  <2> QED BY <2>1, <2>2
<1>5. MirrorTasksKept
  <2>1. ASSUME NEW u \in MirrorTaskIds
        PROVE  mirrorTasks'[u] = mirrorTasks[u] \/ mirrorTasks'[u] = Ended \/ MirrorRunsOn(mirrorTasks[u], mirrorTasks'[u])
    BY <1>3
  <2> QED BY <1>4, <2>1 DEF MirrorTasksKept
<1>6. BodiesInOrder' /\ SendersSound' /\ TasksPermitted'
  BY <1>1, <1>5, MirrorKeptKeeps DEF MirrorOthersStay
<1>7. MirrorTyped'
  BY <1>1, <1>4, MirrorTypedStays DEF MirrorInv, MirrorTyped
<1>8. ASSUME NEW u \in MirrorTaskIds
      PROVE  /\ mirrorTasks'[u].pc \in Leading <=> mirrorTasks[u].pc \in Leading
             /\ mirrorTasks'[u].pc \in Looking <=> mirrorTasks[u].pc \in Looking
  BY <1>2, <1>3 DEF Leading, Looking
<1>9. (\A i : Leader(i)' <=> Leader(i)) /\ (\A i : Waker(i)' <=> Waker(i))
  BY <1>8 DEF Leader, Waker
<1>10. FlightLed'
  BY <1>1, <1>8, <1>9 DEF MirrorInv, FlightLed
<1>11. FollowersWake'
  <2> SUFFICES ASSUME NEW u \in MirrorTaskIds, mirrorTasks'[u].pc = "waiting", ~mirrorTasks'[u].woken PROVE Waker(u[2])
    BY <1>9 DEF FollowersWake
  <2>1. mirrorTasks'[u] = mirrorTasks[u]
    BY <1>2, <1>3
  <2> QED BY <2>1 DEF MirrorInv, FollowersWake
<1>12. AddressesFresh'
  <2> SUFFICES ASSUME NEW u \in MirrorTaskIds
               PROVE  /\ mirrorTasks'[u].pc \in {"clear", "notify"} /\ mirrorTasks'[u].next = "connect" => FreshEnough(mirrorTasks'[u].used)
                      /\ mirrorTasks'[u].pc = "connect" => FreshEnough(mirrorTasks'[u].used)
    BY DEF AddressesFresh, FreshEnough
  <2>1. CASE mirrorTasks'[u] = mirrorTasks[u]
    BY <2>1 DEF MirrorInv, AddressesFresh
  <2>2. CASE mirrorTasks'[u] # mirrorTasks[u]
    BY <1>2, <1>3, <2>2
  <2> QED BY <2>1, <2>2
<1> QED BY <1>6, <1>7, <1>10, <1>11, <1>12 DEF MirrorInv

\* Lookups depend on these fields alone.
LEMMA MirrorLookupsStay ==
  ASSUME MirrorInv, mirrorDns' = mirrorDns,
         \A u \in MirrorTaskIds :
           /\ mirrorTasks'[u].pc = mirrorTasks[u].pc /\ mirrorTasks'[u].next = mirrorTasks[u].next
           /\ mirrorTasks'[u].used = mirrorTasks[u].used /\ mirrorTasks'[u].woken = mirrorTasks[u].woken
  PROVE  FlightLed' /\ FollowersWake' /\ AddressesFresh'
<1>1. (\A i : Leader(i)' <=> Leader(i)) /\ (\A i : Waker(i)' <=> Waker(i))
  BY DEF Leader, Waker
<1>2. FlightLed'
  BY <1>1 DEF MirrorInv, FlightLed
<1>3. FollowersWake'
  BY <1>1 DEF MirrorInv, FollowersWake
<1>4. AddressesFresh'
  BY DEF MirrorInv, AddressesFresh, FreshEnough
<1> QED BY <1>2, <1>3, <1>4

LEMMA MirrorTickKeeps ==
  ASSUME MirrorInv, MirrorTick
  PROVE  MirrorInv'
<1>1. mirrorNow' = mirrorNow + 1 /\ UNCHANGED <<mirrorPermits, mirrorDns, mirrorCtx, mirrorTasks>>
  BY DEF MirrorTick
<1>2. MirrorTyped'
  BY <1>1 DEF MirrorInv, MirrorTyped
<1>3. BodiesInOrder' /\ SendersSound' /\ TasksPermitted'
  BY <1>1 DEF MirrorInv, BodiesInOrder, SendersSound, SenderSound, NoTaskRuns, TasksPermitted
<1>4. FlightLed' /\ FollowersWake' /\ AddressesFresh'
  BY <1>1, MirrorLookupsStay
<1> QED BY <1>2, <1>3, <1>4 DEF MirrorInv

LEMMA MirrorStutters ==
  ASSUME MirrorInv, UNCHANGED mirrorVars
  PROVE  MirrorInv'
<1>1. UNCHANGED <<mirrorNow, mirrorPermits, mirrorDns, mirrorCtx, mirrorTasks>>
  BY DEF mirrorVars
<1>2. MirrorTyped'
  BY <1>1 DEF MirrorInv, MirrorTyped
<1>3. BodiesInOrder' /\ SendersSound' /\ TasksPermitted'
  BY <1>1 DEF MirrorInv, BodiesInOrder, SendersSound, SenderSound, NoTaskRuns, TasksPermitted
<1>4. FlightLed' /\ FollowersWake' /\ AddressesFresh'
  BY <1>1, MirrorLookupsStay
<1> QED BY <1>2, <1>3, <1>4 DEF MirrorInv

\* Only the context of one request changes.
LEMMA MirrorContextKeeps ==
  ASSUME MirrorInv, NEW r \in MirrorIds, UNCHANGED <<mirrorNow, mirrorPermits, mirrorDns, mirrorTasks>>,
         mirrorCtx' \in [MirrorIds -> MirrorCtxType],
         \A q \in MirrorIds : q # r => mirrorCtx'[q] = mirrorCtx[q],
         SenderSound(r)'
  PROVE  MirrorInv'
<1>1. MirrorTyped'
  BY DEF MirrorInv, MirrorTyped
<1>2. BodiesInOrder' /\ TasksPermitted'
  BY DEF MirrorInv, BodiesInOrder, TasksPermitted
<1>3. SendersSound'
  <2>1. \A q \in MirrorIds : q # r => SenderSound(q)'
    BY DEF MirrorInv, SendersSound, SenderSound, NoTaskRuns
  <2> QED BY <2>1 DEF SendersSound
<1>4. FlightLed' /\ FollowersWake' /\ AddressesFresh'
  BY MirrorLookupsStay
<1> QED BY <1>1, <1>2, <1>3, <1>4 DEF MirrorInv

\* The request's own steps.
LEMMA MirrorSampleKeeps ==
  ASSUME MirrorInv, NEW r \in MirrorIds, NEW sampled \in BOOLEAN, MirrorSample(r, sampled)
  PROVE  MirrorInv'
<1>1. /\ mirrorCtx[r].stage = "new" /\ UNCHANGED <<mirrorNow, mirrorPermits, mirrorDns, mirrorTasks>>
      /\ mirrorCtx' = [mirrorCtx EXCEPT ![r].stage = "sampled", ![r].sampled = sampled]
  BY DEF MirrorSample
<1>2. /\ mirrorCtx' \in [MirrorIds -> MirrorCtxType] /\ mirrorCtx'[r].stage = "sampled"
      /\ mirrorCtx'[r].fed = mirrorCtx[r].fed
      /\ \A q \in MirrorIds : q # r => mirrorCtx'[q] = mirrorCtx[q]
  BY <1>1 DEF MirrorInv, MirrorTyped, MirrorCtxType
<1>3. SenderSound(r)'
  BY <1>1, <1>2 DEF MirrorInv, SendersSound, SenderSound, NoTaskRuns
<1> QED BY <1>1, <1>2, <1>3, MirrorContextKeeps

LEMMA MirrorRequestEndsKeeps ==
  ASSUME MirrorInv, NEW r \in MirrorIds, MirrorRequestEnds(r)
  PROVE  MirrorInv'
<1> DEFINE over == [stage |-> "over", sampled |-> FALSE, sender |-> NoSender, fed |-> 0]
<1>1. /\ UNCHANGED <<mirrorNow, mirrorPermits, mirrorDns, mirrorTasks>>
      /\ mirrorCtx' = [mirrorCtx EXCEPT ![r] = over]
  BY DEF MirrorRequestEnds
<1>2. over \in MirrorCtxType /\ over.stage = "over"
  BY DEF MirrorCtxType
<1> HIDE DEF over
<1>3. /\ mirrorCtx' \in [MirrorIds -> MirrorCtxType] /\ mirrorCtx'[r].stage = "over"
      /\ \A q \in MirrorIds : q # r => mirrorCtx'[q] = mirrorCtx[q]
  BY <1>1, <1>2 DEF MirrorInv, MirrorTyped
<1>4. SenderSound(r)'
  BY <1>3 DEF SenderSound
<1> QED BY <1>1, <1>3, <1>4, MirrorContextKeeps

\* Sequences of chunks, and the places in them.
LEMMA QueueTaken ==
  ASSUME NEW S, NEW queue \in Seq(S), queue # <<>>
  PROVE  /\ Head(queue) \in S /\ Tail(queue) \in Seq(S) /\ Head(queue) = queue[1]
         /\ Len(queue) \in Nat /\ Len(queue) >= 1 /\ Len(Tail(queue)) = Len(queue) - 1
         /\ \A k \in 1 .. Len(queue) - 1 : Tail(queue)[k] = queue[k + 1]
OBVIOUS

LEMMA PlacesAfter ==
  ASSUME NEW w \in Nat, NEW q \in Nat, NEW k \in 1 .. q - 1
  PROVE  k + 1 \in 1 .. q /\ w + k + 1 = w + (k + 1) /\ (w + 1) + k = w + k + 1
OBVIOUS

LEMMA PlaceMoves ==
  ASSUME NEW w \in Nat, NEW q \in Nat PROVE (w + 1) + (q - 1) = w + q /\ w + (q + 1) = (w + q) + 1
OBVIOUS

LEMMA ChunkAppended ==
  ASSUME NEW S, NEW s \in Seq(S), NEW c \in S
  PROVE  /\ Append(s, c) \in Seq(S) /\ Len(s) \in Nat /\ Len(Append(s, c)) = Len(s) + 1
         /\ Append(s, c)[Len(s) + 1] = c /\ \A k \in 1 .. Len(s) : Append(s, c)[k] = s[k]
OBVIOUS

\* What is written is the next chunk, and its end the end of the body.
LEMMA MirrorWritesKeeps ==
  ASSUME MirrorInv, NEW t \in MirrorTaskIds, NEW ok \in BOOLEAN, MirrorWrites(t, ok)
  PROVE  MirrorInv'
<1> DEFINE p == mirrorTasks[t]
           chunk == Head(p.queue)
           written == IF chunk.n = Finish THEN p.written ELSE Append(p.written, chunk.n)
           pc == IF chunk.end THEN "ok" ELSE p.pc
           active == p.active /\ ~chunk.end
           x == [p EXCEPT !.queue = Tail(p.queue), !.written = written, !.pc = pc, !.active = active]
           n == MirrorRequests[t[1]].chunks
<1>1. /\ p.pc = "body" /\ UNCHANGED <<mirrorPermits, mirrorNow, mirrorDns, mirrorCtx>>
      /\ Drops(t) \/ (p.queue # <<>> /\ mirrorTasks' = [mirrorTasks EXCEPT ![t] = x])
  <2>1. /\ p.pc = "body" /\ UNCHANGED <<mirrorPermits, mirrorNow, mirrorDns, mirrorCtx>>
    BY DEF MirrorWrites
  <2>2. CASE p.queue = <<>> \/ ~ok
    BY <2>1, <2>2 DEF MirrorWrites
  <2>3. CASE p.queue # <<>> /\ ok
    <3>1. mirrorTasks' = [mirrorTasks EXCEPT ![t] = [p EXCEPT !.queue = Tail(p.queue), !.written = written,
                            !.pc = IF chunk.end THEN "ok" ELSE p.pc, !.active = p.active /\ ~chunk.end]]
      BY <2>3 DEF MirrorWrites
    <3> HIDE DEF written, chunk
    <3> QED BY <2>1, <2>3, <3>1
  <2> QED BY <2>1, <2>2, <2>3
<1>2. "body" \in Running /\ "body" \notin Looking /\ "ok" \notin Looking /\ "ok" \in MirrorPcs /\ "body" \in MirrorPcs /\ "ok" \notin Running
  BY DEF MirrorPcs, Running, Resolving, Looking
<1>3. CASE Drops(t)
  BY <1>1, <1>2, <1>3, MirrorEndedFollows, MirrorFollowsKeeps
<1>4. CASE p.queue # <<>> /\ mirrorTasks' = [mirrorTasks EXCEPT ![t] = x]
  <2>1. p \in MirrorTaskType /\ n \in Nat
    BY MirrorTaskParts DEF MirrorInv, MirrorTyped
  <2>2. TaskBody(t, p)
    BY DEF MirrorInv, BodiesInOrder
  <2>3. /\ p.queue \in Seq([n : Nat, end : BOOLEAN]) /\ p.written \in Seq(Nat)
    BY <2>1 DEF MirrorTaskType
  <2>4. /\ chunk \in [n : Nat, end : BOOLEAN] /\ Tail(p.queue) \in Seq([n : Nat, end : BOOLEAN])
        /\ Len(p.queue) \in Nat /\ Len(p.queue) >= 1 /\ Len(Tail(p.queue)) = Len(p.queue) - 1
        /\ \A k \in 1 .. Len(p.queue) - 1 : Tail(p.queue)[k] = p.queue[k + 1]
        /\ chunk = p.queue[1]
    <3> HIDE DEF p
    <3> QED BY <1>4, <2>3, QueueTaken
  <2>5. ChunkAt(chunk, Len(p.written) + 1, n)
    BY <2>2, <2>4 DEF TaskBody
  <2>6. \A k \in 1 .. Len(p.queue) - 1 : ChunkAt(p.queue[k + 1], Len(p.written) + k + 1, n)
    <3> SUFFICES ASSUME NEW k \in 1 .. Len(p.queue) - 1 PROVE ChunkAt(p.queue[k + 1], Len(p.written) + k + 1, n)
      OBVIOUS
    <3>1. k + 1 \in 1 .. Len(p.queue)
      BY <2>4
    <3>2. Len(p.written) \in Nat
      BY <2>3
    <3>3. Len(p.written) + k + 1 = Len(p.written) + (k + 1)
      BY <2>4, <3>2, PlacesAfter
    <3>4. ChunkAt(p.queue[k + 1], Len(p.written) + (k + 1), n)
      BY <2>2, <3>1 DEF TaskBody
    <3> QED BY <3>3, <3>4
  <2>8. /\ Len(p.written) \in Nat /\ written \in Seq(Nat)
        /\ chunk.n # Finish =>
             /\ Len(written) = Len(p.written) + 1 /\ written[Len(p.written) + 1] = chunk.n
             /\ \A k \in 1 .. Len(p.written) : written[k] = p.written[k]
        /\ chunk.n = Finish => written = p.written
    <3>1. chunk.n \in Nat
      BY <2>4
    <3> HIDE DEF p, chunk
    <3>2. Len(p.written) \in Nat
      BY <2>3
    <3>3. CASE chunk.n = Finish
      BY <2>3, <3>2, <3>3
    <3>4. CASE chunk.n # Finish
      <4>1. written = Append(p.written, chunk.n)
        BY <3>4
      <4> HIDE DEF written
      <4> QED BY <2>3, <3>1, <3>4, <4>1, ChunkAppended
    <3> QED BY <3>3, <3>4
  <2>18. p.active \in BOOLEAN /\ chunk.end \in BOOLEAN
    BY <2>1, <2>4 DEF MirrorTaskType
  <2>7. pc \in MirrorPcs /\ active \in BOOLEAN /\ (active => ~chunk.end) /\ (active => p.active)
        /\ (pc = "ok" <=> chunk.end) /\ (pc = "body" \/ pc = "ok")
    <3> HIDE DEF p, chunk
    <3> QED BY <1>1, <1>2, <2>18
  <2> DEFINE rest == Tail(p.queue)
  <2> HIDE DEF p, chunk, written, pc, active, n, rest
  <2>9. /\ x \in MirrorTaskType /\ x.queue = rest /\ x.written = written /\ x.pc = pc /\ x.active = active /\ x.request = p.request
    BY <2>1, <2>4, <2>7, <2>8 DEF MirrorTaskType, rest
  <2>10. mirrorTasks' = [mirrorTasks EXCEPT ![t] = x]
    BY <1>4 DEF rest
  <2> HIDE DEF x
  <2>11. MirrorMoved(t) /\ mirrorTasks'[t] = x
    BY <2>9, <2>10, MirrorReplaced DEF MirrorInv
  <2>12. TaskBody(t, x)
    <3>1. /\ Len(p.written) <= n /\ \A k \in 1 .. Len(p.written) : p.written[k] = k
          /\ p.request # <<>> /\ p.request[1].query = MirrorRequests[t[1]].uri.query
      BY <1>1, <1>2, <2>2 DEF TaskBody, n, p
    <3>2. CASE chunk.n = Finish
      <4>1. chunk.end /\ Len(p.written) = n
        BY <2>1, <2>5, <2>8, <3>2 DEF ChunkAt, Finish
      <4>2. \A k \in 1 .. Len(p.queue) - 1 : FALSE
        BY <2>1, <2>4, <2>6, <4>1 DEF ChunkAt
      <4>3. Len(rest) = Len(p.queue) - 1 /\ \A k \in 1 .. Len(rest) : FALSE
        BY <2>4, <4>2 DEF rest
      <4> QED BY <2>7, <2>8, <2>9, <3>1, <3>2, <4>1, <4>3 DEF TaskBody, n
    <3>3. CASE chunk.n # Finish
      <4>1. chunk.n = Len(p.written) + 1 /\ Len(p.written) + 1 <= n /\ (chunk.end => Len(p.written) + 1 = n)
        BY <2>5, <3>3 DEF ChunkAt
      <4>2. \A k \in 1 .. Len(written) : written[k] = k
        BY <2>8, <3>1, <3>3, <4>1
      <4>3. Len(rest) = Len(p.queue) - 1 /\ \A k \in 1 .. Len(rest) : rest[k] = p.queue[k + 1]
        BY <2>4 DEF rest
      <4>4. \A k \in 1 .. Len(rest) : ChunkAt(rest[k], Len(written) + k, n)
        <5> SUFFICES ASSUME NEW k \in 1 .. Len(rest) PROVE ChunkAt(rest[k], Len(written) + k, n)
          OBVIOUS
        <5>2. k \in 1 .. Len(p.queue) - 1
          BY <4>3
        <5>3. Len(p.written) \in Nat /\ Len(p.queue) \in Nat /\ Len(written) = Len(p.written) + 1
          BY <2>4, <2>8, <3>3
        <5>1. Len(written) + k = Len(p.written) + k + 1 /\ k \in 1 .. Len(p.queue) - 1
          BY <5>2, <5>3, PlacesAfter
        <5> QED BY <2>6, <4>3, <5>1
      <4> QED BY <2>7, <2>8, <2>9, <3>1, <3>3, <4>1, <4>2, <4>4 DEF TaskBody, n
    <3> QED BY <3>2, <3>3
  <2>13. BodiesInOrder'
    BY <2>11, <2>12 DEF MirrorInv, BodiesInOrder, MirrorMoved
  <2>14. SendersSound'
    <3> SUFFICES ASSUME NEW r \in MirrorIds PROVE SenderSound(r)'
      BY DEF SendersSound
    <3>1. SenderSound(r) /\ mirrorCtx' = mirrorCtx
      BY <1>1 DEF MirrorInv, SendersSound
    <3>2. NoTaskRuns(r) => NoTaskRuns(r)'
      BY <1>1, <1>2, <2>7, <2>9, <2>11 DEF NoTaskRuns, MirrorMoved, p
    <3>3. SUFFICES ASSUME mirrorCtx[r].stage = "body", mirrorCtx[r].sender # NoSender
                   PROVE  Sends(mirrorTasks'[mirrorCtx[r].sender], mirrorCtx[r].fed)
      BY <3>1, <3>2 DEF SenderSound
    <3>4. mirrorCtx[r].sender \in MirrorTaskIds /\ Sends(mirrorTasks[mirrorCtx[r].sender], mirrorCtx[r].fed)
      BY <3>1, <3>3 DEF MirrorInv, MirrorTyped, MirrorCtxType, SenderSound
    <3>5. CASE mirrorCtx[r].sender # t
      BY <2>11, <3>4, <3>5 DEF MirrorMoved
    <3>6. CASE mirrorCtx[r].sender = t
      <4> SUFFICES ASSUME x.active, x.pc \in Running PROVE Len(x.written) + Len(x.queue) = mirrorCtx[r].fed
        BY <2>11, <3>6 DEF Sends
      <4>1. p.active /\ ~chunk.end
        BY <2>7, <2>9
      <4>2. Len(p.written) + Len(p.queue) = mirrorCtx[r].fed
        BY <1>1, <1>2, <3>4, <3>6, <4>1 DEF Sends, p
      <4>3. chunk.n # Finish
        BY <2>5, <2>8, <4>1 DEF ChunkAt, Finish
      <4>4. Len(rest) = Len(p.queue) - 1
        BY <2>4 DEF rest
      <4>5. Len(p.written) \in Nat /\ Len(p.queue) \in Nat /\ Len(written) = Len(p.written) + 1
        BY <2>4, <2>8, <4>3
      <4>6. Len(written) + Len(rest) = Len(p.written) + Len(p.queue)
        BY <4>4, <4>5, PlaceMoves
      <4> QED BY <2>9, <4>2, <4>6
    <3> QED BY <3>5, <3>6
  <2>15. TasksPermitted'
    <3>1. RunningTasks(mirrorTasks') \subseteq RunningTasks(mirrorTasks)
      BY <1>1, <1>2, <2>11 DEF RunningTasks, MirrorMoved, p
    <3> QED BY <1>1, <3>1, MirrorFewerRun
  <2>16. FlightLed' /\ FollowersWake' /\ AddressesFresh'
    <3>1. x.pc \notin Looking /\ x.pc # "waiting" /\ x.pc # "connect" /\ mirrorTasks[t].pc \notin Looking
      BY <1>1, <1>2, <2>7, <2>9 DEF p
    <3> QED BY <1>1, <2>11, <3>1, MirrorFollowerMoves
  <2>17. MirrorTyped'
    BY <1>1, <2>11, MirrorTypedStays DEF MirrorMoved, MirrorInv, MirrorTyped
  <2> QED BY <2>13, <2>14, <2>15, <2>16, <2>17 DEF MirrorInv
<1> QED BY <1>1, <1>3, <1>4

\* One instance: its sender is the request's, its spawn the only one.
LEMMA OneLayer ==
  ASSUME NEW r \in MirrorIds, OneInstance
  PROVE  /\ MirrorRequests[r].layers \in Seq(DOMAIN MirrorConfigs)
         /\ Len(MirrorRequests[r].layers) \in {0, 1}
         /\ Len(MirrorRequests[r].layers) = 1 <=> MirrorRequests[r].layers # <<>>
<1> DEFINE layers == MirrorRequests[r].layers
<1>1. layers \in Seq(DOMAIN MirrorConfigs)
  BY MirrorConstants DEF MirrorIds
<1>2. Len(layers) <= 1
  BY DEF OneInstance
<1> HIDE DEF layers
<1>3. Len(layers) \in Nat /\ (Len(layers) # 0 <=> layers # <<>>)
  BY <1>1
<1>4. \A k \in Nat : k <= 1 => k \in {0, 1}
  OBVIOUS
<1>5. Len(layers) \in {0, 1}
  BY <1>2, <1>3, <1>4
<1>6. Len(layers) = 1 <=> layers # <<>>
  BY <1>3, <1>5
<1> QED BY <1>1, <1>5, <1>6 DEF layers

\* One instance sends a chunk once and spawns one task.
LEMMA SendsOnce ==
  ASSUME NEW r \in MirrorIds, OneInstance, MirrorRequests[r].layers # <<>>, NEW chunk
  PROVE  SendAll(r, chunk) = try_send(mirrorTasks[mirrorCtx[r].sender], chunk)
<1> DEFINE layers == MirrorRequests[r].layers
           p == mirrorTasks[mirrorCtx[r].sender]
<1>1. Len(layers) = 1
  BY OneLayer
<1> HIDE DEF layers
<1> DEFINE sent == CHOOSE f : f = [i \in 0 .. Len(layers) |-> IF i = 0 THEN p ELSE try_send(f[i - 1], chunk)]
           g == [i \in 0 .. Len(layers) |-> IF i = 0 THEN p ELSE try_send(p, chunk)]
<1>2. g = [i \in 0 .. Len(layers) |-> IF i = 0 THEN p ELSE try_send(g[i - 1], chunk)]
  <2>1. ASSUME NEW i \in 0 .. Len(layers), i # 0 PROVE g[i - 1] = p
    BY <1>1, <2>1
  <2> HIDE DEF p
  <2> QED BY <2>1
<1>3. sent = [i \in 0 .. Len(layers) |-> IF i = 0 THEN p ELSE try_send(sent[i - 1], chunk)]
  <2> HIDE DEF g, p
  <2> QED BY <1>2
<1>4. SendAll(r, chunk) = sent[Len(layers)]
  BY DEF SendAll, layers
<1> HIDE DEF sent, g, p
<1>5. sent[0] = p
  BY <1>1, <1>3
<1>6. sent[1] = try_send(sent[0], chunk)
  BY <1>1, <1>3
<1> QED BY <1>1, <1>4, <1>5, <1>6 DEF p

LEMMA SpawnsOnce ==
  ASSUME NEW r \in MirrorIds, OneInstance
  PROVE  \/ SpawnAll(r) = [tasks |-> mirrorTasks, sender |-> NoSender]
         \/ /\ MirrorRequests[r].layers # <<>>
            /\ SpawnAll(r) = Spawn(r, [tasks |-> mirrorTasks, sender |-> NoSender], MirrorRequests[r].layers[1])
<1> DEFINE layers == MirrorRequests[r].layers
           p == [tasks |-> mirrorTasks, sender |-> NoSender]
<1>1. Len(layers) \in {0, 1} /\ (Len(layers) = 1 => layers # <<>>)
  BY OneLayer
<1> HIDE DEF layers
<1> DEFINE spawned == CHOOSE f : f = [i \in 0 .. Len(layers) |-> IF i = 0 THEN p ELSE Spawn(r, f[i - 1], layers[i])]
           g == [i \in 0 .. Len(layers) |-> IF i = 0 THEN p ELSE Spawn(r, p, layers[i])]
<1>2. g = [i \in 0 .. Len(layers) |-> IF i = 0 THEN p ELSE Spawn(r, g[i - 1], layers[i])]
  <2>1. ASSUME NEW i \in 0 .. Len(layers), i # 0 PROVE g[i - 1] = p
    BY <1>1, <2>1
  <2> HIDE DEF p
  <2> QED BY <2>1
<1>3. spawned = [i \in 0 .. Len(layers) |-> IF i = 0 THEN p ELSE Spawn(r, spawned[i - 1], layers[i])]
  <2> HIDE DEF g, p
  <2> QED BY <1>2
<1>4. SpawnAll(r) = spawned[Len(layers)]
  BY DEF SpawnAll, layers
<1> HIDE DEF spawned, g, p
<1>5. spawned[0] = p
  BY <1>1, <1>3
<1>6. Len(layers) = 1 => spawned[1] = Spawn(r, spawned[0], layers[1])
  BY <1>1, <1>3
<1> QED BY <1>1, <1>4, <1>5, <1>6 DEF p, layers

\* What a sender that is good makes of a chunk: the next place of its queue, or the end.
LEMMA ChunkSent ==
  ASSUME NEW t \in MirrorTaskIds, NEW p \in MirrorTaskType, NEW chunk \in [n : Nat, end : BOOLEAN], NEW fed \in Nat,
         TaskBody(t, p), Sends(p, fed), ChunkAt(chunk, fed + 1, MirrorRequests[t[1]].chunks)
  PROVE  /\ try_send(p, chunk) \in MirrorTaskType /\ TaskBody(t, try_send(p, chunk))
         /\ Sends(try_send(p, chunk), fed + 1)
         /\ try_send(p, chunk).pc = p.pc /\ try_send(p, chunk).next = p.next
         /\ try_send(p, chunk).used = p.used /\ try_send(p, chunk).woken = p.woken
<1> DEFINE n == MirrorRequests[t[1]].chunks
           queue == Append(p.queue, chunk)
           w == Len(p.written)
           q == Len(p.queue)
<1>1. n \in Nat
  BY MirrorTaskParts
<1>2. p.queue \in Seq([n : Nat, end : BOOLEAN]) /\ p.written \in Seq(Nat) /\ p.active \in BOOLEAN
  BY DEF MirrorTaskType
<1>3. w \in Nat /\ q \in Nat
  BY <1>2
<1>4. CASE ~p.active
  <2>1. try_send(p, chunk) = p
    BY <1>4 DEF try_send
  <2> QED BY <1>4, <2>1 DEF Sends
<1>5. CASE p.active /\ try_send(p, chunk) = [p EXCEPT !.active = FALSE]
  <2> DEFINE x == [p EXCEPT !.active = FALSE]
  <2>1. /\ x \in MirrorTaskType /\ ~x.active /\ x.pc = p.pc /\ x.next = p.next /\ x.used = p.used /\ x.woken = p.woken
        /\ x.written = p.written /\ x.queue = p.queue /\ x.request = p.request
    BY DEF MirrorTaskType
  <2> HIDE DEF x
  <2>2. TaskBody(t, x)
    BY <2>1 DEF TaskBody
  <2>3. Sends(x, fed + 1)
    BY <2>1 DEF Sends
  <2>4. try_send(p, chunk) = x
    BY <1>5 DEF x
  <2> QED BY <2>1, <2>2, <2>3, <2>4
<1>6. CASE p.active /\ p.pc \in Running /\ try_send(p, chunk) = [p EXCEPT !.queue = Append(p.queue, chunk)]
  <2>1. /\ queue \in Seq([n : Nat, end : BOOLEAN]) /\ Len(queue) = q + 1 /\ queue[q + 1] = chunk
        /\ \A k \in 1 .. q : queue[k] = p.queue[k]
    BY <1>2, ChunkAppended
  <2> DEFINE x == [p EXCEPT !.queue = queue]
  <2> HIDE DEF queue
  <2>2. /\ x \in MirrorTaskType /\ x.active = p.active /\ x.pc = p.pc /\ x.next = p.next /\ x.used = p.used /\ x.woken = p.woken
        /\ x.written = p.written /\ x.queue = queue /\ x.request = p.request
    BY <2>1 DEF MirrorTaskType
  <2>3. try_send(p, chunk) = x
    BY <1>6 DEF queue
  <2> HIDE DEF x
  <2>4. w + q = fed
    BY <1>6 DEF Sends
  <2>5. \A k \in 1 .. Len(queue) : ChunkAt(queue[k], w + k, n)
    <3> SUFFICES ASSUME NEW k \in 1 .. q + 1 PROVE ChunkAt(queue[k], w + k, n)
      BY <2>1
    <3> HIDE DEF w, q, n
    <3>1. CASE k = q + 1
      <4>1. w + k = fed + 1
        BY <1>3, <2>4, <3>1, PlaceMoves
      <4> QED BY <2>1, <3>1, <4>1 DEF n
    <3>2. CASE k # q + 1
      <4>1. k \in 1 .. q
        BY <1>3, <3>2
      <4> QED BY <2>1, <4>1 DEF TaskBody, w, q, n
    <3> QED BY <3>1, <3>2
  <2>6. TaskBody(t, x)
    <3>1. p.pc # "ok"
      BY <1>6 DEF Running, Resolving, Looking
    <3> QED BY <2>2, <2>5, <3>1 DEF TaskBody
  <2>7. Sends(x, fed + 1)
    <3> HIDE DEF w, q
    <3>1. w + (q + 1) = fed + 1
      BY <1>3, <2>4, PlaceMoves
    <3> QED BY <2>1, <2>2, <3>1 DEF Sends, w, q
  <2> QED BY <2>2, <2>3, <2>6, <2>7
<1> QED BY <1>2, <1>4, <1>5, <1>6 DEF try_send

\* A chunk goes to the request's own task and to no other.
LEMMA MirrorBodyChunkKeeps ==
  ASSUME MirrorInv, OneInstance, NEW r \in MirrorIds, NEW end \in BOOLEAN, MirrorBodyChunk(r, end)
  PROVE  MirrorInv'
<1> DEFINE ctx == mirrorCtx[r]
           fed == ctx.fed
           n == MirrorRequests[r].chunks
           last == fed = n
           chunk == IF last THEN [n |-> Finish, end |-> TRUE] ELSE [n |-> fed + 1, end |-> end]
           t == ctx.sender
           fed2 == IF last THEN fed ELSE fed + 1
           stage2 == IF end THEN "sent" ELSE ctx.stage
<1>1. /\ ctx.stage = "body" /\ (end => last \/ fed + 1 = n) /\ (last => end)
      /\ mirrorCtx' = [mirrorCtx EXCEPT ![r].fed = fed2, ![r].stage = stage2]
      /\ mirrorTasks' = IF t = NoSender THEN mirrorTasks ELSE [mirrorTasks EXCEPT ![t] = SendAll(r, chunk)]
      /\ UNCHANGED <<mirrorPermits, mirrorNow, mirrorDns>>
  BY DEF MirrorBodyChunk
<1>2. mirrorCtx \in [MirrorIds -> MirrorCtxType] /\ ctx \in MirrorCtxType /\ fed \in Nat /\ n \in Nat /\ fed <= n
      /\ mirrorTasks \in [MirrorTaskIds -> MirrorTaskType] /\ SenderSound(r)
  <2>1. mirrorCtx \in [MirrorIds -> MirrorCtxType] /\ ctx \in MirrorCtxType /\ fed \in Nat
        /\ mirrorTasks \in [MirrorTaskIds -> MirrorTaskType]
    BY DEF MirrorInv, MirrorTyped, MirrorCtxType
  <2>2. n \in Nat
    BY MirrorConstants DEF MirrorIds
  <2>3. SenderSound(r)
    BY DEF MirrorInv, SendersSound
  <2>4. fed <= n
    BY <1>1, <2>3 DEF SenderSound
  <2> QED BY <2>1, <2>2, <2>3, <2>4
<1>3. /\ fed2 \in Nat /\ stage2 \in {"sent", "body"} /\ fed2 <= n /\ (stage2 = "body" => fed2 = fed + 1)
      /\ chunk \in [n : Nat, end : BOOLEAN] /\ ChunkAt(chunk, fed + 1, n)
  <2> HIDE DEF ctx, fed, n
  <2>1. CASE last
    <3>1. chunk = [n |-> Finish, end |-> TRUE] /\ fed2 = fed /\ stage2 = "sent"
      BY <1>1, <2>1
    <3> QED BY <1>2, <2>1, <3>1 DEF ChunkAt, Finish
  <2>2. CASE ~last
    <3>1. chunk = [n |-> fed + 1, end |-> end] /\ fed2 = fed + 1 /\ stage2 \in {"sent", "body"}
      BY <1>1, <2>2
    <3>2. fed + 1 <= n /\ (end => fed + 1 = n)
      BY <1>1, <1>2, <2>2
    <3> QED BY <1>2, <3>1, <3>2 DEF ChunkAt
  <2> QED BY <2>1, <2>2
<1> HIDE DEF fed2, stage2, chunk
<1>4. /\ mirrorCtx' \in [MirrorIds -> MirrorCtxType]
      /\ mirrorCtx'[r].fed = fed2 /\ mirrorCtx'[r].stage = stage2 /\ mirrorCtx'[r].sender = ctx.sender
      /\ \A q \in MirrorIds : q # r => mirrorCtx'[q] = mirrorCtx[q]
  BY <1>1, <1>2, <1>3 DEF MirrorCtxType
<1>5. CASE t = NoSender
  <2>1. mirrorTasks' = mirrorTasks
    BY <1>1, <1>5
  <2>2. SenderSound(r)'
    BY <1>3, <1>4, <1>5 DEF SenderSound
  <2> QED BY <1>1, <1>4, <2>1, <2>2, MirrorContextKeeps
<1>6. CASE t # NoSender
  <2> DEFINE p == mirrorTasks[t]
             x == try_send(p, chunk)
  <2>1. t \in MirrorTaskIds /\ p \in MirrorTaskType
    BY <1>2, <1>6 DEF MirrorCtxType
  <2>2. t[1] = r /\ MirrorRequests[r].layers # <<>> /\ Sends(p, fed)
    BY <1>1, <1>2, <1>6 DEF SenderSound
  <2>3. mirrorTasks' = [mirrorTasks EXCEPT ![t] = x]
    BY <1>1, <1>6, <2>2, SendsOnce
  <2>4. TaskBody(t, p)
    BY <2>1 DEF MirrorInv, BodiesInOrder
  <2>5. /\ x \in MirrorTaskType /\ TaskBody(t, x) /\ Sends(x, fed + 1)
        /\ x.pc = p.pc /\ x.next = p.next /\ x.used = p.used /\ x.woken = p.woken
    BY <1>2, <1>3, <2>1, <2>2, <2>4, ChunkSent
  <2> HIDE DEF x
  <2>6. MirrorMoved(t) /\ mirrorTasks'[t] = x
    BY <2>1, <2>3, <2>5, MirrorReplaced DEF MirrorInv
  <2>7. \A u \in MirrorTaskIds :
          /\ mirrorTasks'[u].pc = mirrorTasks[u].pc /\ mirrorTasks'[u].next = mirrorTasks[u].next
          /\ mirrorTasks'[u].used = mirrorTasks[u].used /\ mirrorTasks'[u].woken = mirrorTasks[u].woken
    BY <2>5, <2>6 DEF MirrorMoved
  <2>8. BodiesInOrder'
    BY <2>5, <2>6 DEF MirrorInv, BodiesInOrder, MirrorMoved
  <2>9. SendersSound'
    <3> SUFFICES ASSUME NEW q \in MirrorIds PROVE SenderSound(q)'
      BY DEF SendersSound
    <3>1. SenderSound(q) /\ (NoTaskRuns(q) => NoTaskRuns(q)')
      BY <2>7 DEF MirrorInv, SendersSound, NoTaskRuns
    <3>2. CASE q = r
      BY <1>3, <1>4, <2>2, <2>5, <2>6, <3>2 DEF SenderSound
    <3>3. CASE q # r
      <4>1. mirrorCtx'[q] = mirrorCtx[q]
        BY <1>4, <3>3
      <4>2. SUFFICES ASSUME mirrorCtx[q].stage = "body", mirrorCtx[q].sender # NoSender
                     PROVE  Sends(mirrorTasks'[mirrorCtx[q].sender], mirrorCtx[q].fed)
        BY <3>1, <4>1 DEF SenderSound
      <4>3. mirrorCtx[q].sender \in MirrorTaskIds /\ mirrorCtx[q].sender[1] = q
            /\ Sends(mirrorTasks[mirrorCtx[q].sender], mirrorCtx[q].fed)
        BY <1>2, <3>1, <4>2 DEF MirrorCtxType, SenderSound
      <4>4. mirrorCtx[q].sender # t
        BY <2>2, <3>3, <4>3
      <4> QED BY <2>6, <4>3, <4>4 DEF MirrorMoved
    <3> QED BY <3>2, <3>3
  <2>10. TasksPermitted'
    <3>1. RunningTasks(mirrorTasks') \subseteq RunningTasks(mirrorTasks)
      BY <2>7 DEF RunningTasks
    <3> QED BY <1>1, <3>1, MirrorFewerRun
  <2>11. FlightLed' /\ FollowersWake' /\ AddressesFresh'
    BY <1>1, <2>7, MirrorLookupsStay
  <2>12. MirrorTyped'
    BY <1>1, <1>4, <2>6 DEF MirrorMoved, MirrorInv, MirrorTyped
  <2> QED BY <2>8, <2>9, <2>10, <2>11, <2>12 DEF MirrorInv
<1> QED BY <1>5, <1>6

\* The copy's path may be another, its query is the request's.
LEMMA MirrorCopyKeepsQuery ==
  ASSUME NEW r \in MirrorIds, NEW m
  PROVE  build_mirror_request(MirrorConfigs[m], MirrorRequests[r].uri).query = MirrorRequests[r].uri.query
<1> DEFINE uri == MirrorRequests[r].uri
           path == IF MirrorConfigs[m].mode = "replace" THEN MirrorConfigs[m].path[1]
                   ELSE MirrorConfigs[m].path[1] \o uri.path
<1>1. uri = [path |-> uri.path, query |-> uri.query]
  BY MirrorConstants DEF MirrorIds
<1>2. build_mirror_request(MirrorConfigs[m], uri) = uri \/ build_mirror_request(MirrorConfigs[m], uri) = [uri EXCEPT !.path = path]
  BY DEF build_mirror_request
<1> HIDE DEF uri, path
<1>3. [uri EXCEPT !.path = path].query = uri.query
  BY <1>1
<1> QED BY <1>2, <1>3 DEF uri

\* A task takes a permit that is free and starts with an empty queue.
LEMMA MirrorSpawnKeeps ==
  ASSUME MirrorInv, OneInstance, NEW r \in MirrorIds, MirrorSpawn(r)
  PROVE  MirrorInv'
<1> DEFINE result == SpawnAll(r)
           before == [tasks |-> mirrorTasks, sender |-> NoSender]
           m == MirrorRequests[r].layers[1]
           t == <<r, m>>
           copy == build_mirror_request(MirrorConfigs[m], MirrorRequests[r].uri)
           x == [MirrorTask("resolve") EXCEPT !.request = <<copy>>]
           spawned == [tasks |-> [mirrorTasks EXCEPT ![t] = x], sender |-> t]
<1>1. /\ mirrorCtx[r].stage = "sampled" /\ mirrorTasks' = result.tasks
      /\ mirrorCtx' = [mirrorCtx EXCEPT ![r].stage = "body", ![r].sender = result.sender]
      /\ UNCHANGED <<mirrorPermits, mirrorNow, mirrorDns>>
  BY DEF MirrorSpawn
<1>2. /\ mirrorCtx \in [MirrorIds -> MirrorCtxType] /\ mirrorTasks \in [MirrorTaskIds -> MirrorTaskType]
      /\ mirrorCtx[r].fed = 0 /\ NoTaskRuns(r)
  BY <1>1 DEF MirrorInv, MirrorTyped, SendersSound, SenderSound
<1>3. MirrorRequests[r].chunks \in Nat
  BY MirrorConstants DEF MirrorIds
<1>4. \/ result = before
      \/ /\ MirrorRequests[r].layers # <<>> /\ result = spawned
         /\ ~(Cardinality(RunningTasks(mirrorTasks)) >= mirrorPermits)
  <2>1. before.tasks = mirrorTasks /\ before.sender = NoSender
    OBVIOUS
  <2>2. Spawn(r, before, m) = before
        \/ (Spawn(r, before, m) = spawned /\ ~(Cardinality(RunningTasks(mirrorTasks)) >= mirrorPermits))
    <3> HIDE DEF before
    <3> QED BY <2>1 DEF Spawn
  <2> HIDE DEF spawned
  <2> QED BY <2>2, SpawnsOnce
<1>5. CASE result = before
  <2>1. mirrorTasks' = mirrorTasks /\ result.sender = NoSender
    BY <1>1, <1>5
  <2> HIDE DEF result, before
  <2>2. /\ mirrorCtx' \in [MirrorIds -> MirrorCtxType]
        /\ mirrorCtx'[r].fed = 0 /\ mirrorCtx'[r].stage = "body" /\ mirrorCtx'[r].sender = NoSender
        /\ \A q \in MirrorIds : q # r => mirrorCtx'[q] = mirrorCtx[q]
    BY <1>1, <1>2, <2>1 DEF MirrorCtxType
  <2>3. SenderSound(r)'
    BY <1>3, <2>2 DEF SenderSound
  <2> QED BY <1>1, <2>1, <2>2, <2>3, MirrorContextKeeps
<1>6. CASE /\ MirrorRequests[r].layers # <<>> /\ result = spawned
           /\ ~(Cardinality(RunningTasks(mirrorTasks)) >= mirrorPermits)
  <2>1. mirrorTasks' = [mirrorTasks EXCEPT ![t] = x] /\ result.sender = t
    BY <1>1, <1>6
  <2>2. m \in MirrorInstances
    <3> DEFINE layers == MirrorRequests[r].layers
    <3>1. layers \in Seq(DOMAIN MirrorConfigs) /\ Len(layers) = 1
      BY <1>6, OneLayer
    <3>2. layers[1] \in Range(layers)
      <4> HIDE DEF layers
      <4> QED BY <3>1 DEF Range
    <3> QED BY <3>2 DEF MirrorInstances
  <2>3. t \in MirrorTaskIds /\ t[1] = r
    BY <2>2 DEF MirrorTaskIds
  <2>4. copy.query = MirrorRequests[r].uri.query /\ <<copy>> \in MirrorCopies
    BY <2>2, MirrorCopyKeepsQuery DEF MirrorCopies
  <2> HIDE DEF copy, result, spawned
  <2>5. /\ x \in MirrorTaskType /\ x.pc = "resolve" /\ x.queue = <<>> /\ x.written = <<>> /\ x.request = <<copy>>
    <3> DEFINE fresh == MirrorTask("resolve")
    <3>1. /\ fresh \in MirrorTaskType /\ fresh.pc = "resolve" /\ fresh.queue = <<>> /\ fresh.written = <<>>
      BY DEF MirrorTask, MirrorTaskType, MirrorPcs, MirrorCopies, Running, Resolving
    <3> HIDE DEF fresh
    <3>2. /\ [fresh EXCEPT !.request = <<copy>>] \in MirrorTaskType
          /\ [fresh EXCEPT !.request = <<copy>>].pc = "resolve" /\ [fresh EXCEPT !.request = <<copy>>].queue = <<>>
          /\ [fresh EXCEPT !.request = <<copy>>].written = <<>>
          /\ [fresh EXCEPT !.request = <<copy>>].request = <<copy>>
      BY <2>4, <3>1 DEF MirrorTaskType
    <3> QED BY <3>2 DEF fresh
  <2> HIDE DEF x
  <2>6. TaskBody(t, x)
    <3>1. x.request # <<>> /\ x.request[1] = copy
      BY <2>5
    <3>2. x.request[1].query = MirrorRequests[t[1]].uri.query
      BY <2>3, <2>4, <3>1
    <3>3. Len(x.written) = 0 /\ Len(x.queue) = 0 /\ x.pc # "ok"
      BY <2>5
    <3>4. MirrorRequests[t[1]].chunks \in Nat
      BY <1>3, <2>3
    <3> HIDE DEF t
    <3> QED BY <3>1, <3>2, <3>3, <3>4 DEF TaskBody
  <2> HIDE DEF t
  <2>7. MirrorMoved(t) /\ mirrorTasks'[t] = x
    BY <2>1, <2>3, <2>5, MirrorReplaced DEF MirrorInv
  <2>8. /\ mirrorCtx' \in [MirrorIds -> MirrorCtxType]
        /\ mirrorCtx'[r].fed = 0 /\ mirrorCtx'[r].stage = "body" /\ mirrorCtx'[r].sender = t
        /\ \A q \in MirrorIds : q # r => mirrorCtx'[q] = mirrorCtx[q]
    <3>1. mirrorCtx' = [mirrorCtx EXCEPT ![r].stage = "body", ![r].sender = t]
      BY <1>1, <2>1
    <3> DEFINE c == mirrorCtx[r]
               d == [c EXCEPT !.stage = "body", !.sender = t]
    <3>2. c \in MirrorCtxType /\ c.fed = 0
      BY <1>2
    <3>3. mirrorCtx' = [mirrorCtx EXCEPT ![r] = d]
      BY <3>1
    <3> HIDE DEF c
    <3>4. d \in MirrorCtxType /\ d.fed = 0 /\ d.stage = "body" /\ d.sender = t
      BY <2>3, <3>2 DEF MirrorCtxType
    <3> HIDE DEF d
    <3> QED BY <1>2, <3>3, <3>4
  <2>9. BodiesInOrder'
    BY <2>6, <2>7 DEF MirrorInv, BodiesInOrder, MirrorMoved
  <2>10. SendersSound'
    <3> SUFFICES ASSUME NEW q \in MirrorIds PROVE SenderSound(q)'
      BY DEF SendersSound
    <3>1. CASE q = r
      <4>1. Sends(x, 0)
        BY <2>5 DEF Sends
      <4> QED BY <1>3, <1>6, <2>3, <2>7, <2>8, <3>1, <4>1 DEF SenderSound
    <3>2. CASE q # r
      <4>1. mirrorCtx'[q] = mirrorCtx[q] /\ SenderSound(q)
        BY <2>8, <3>2 DEF MirrorInv, SendersSound
      <4>2. NoTaskRuns(q) => NoTaskRuns(q)'
        BY <2>3, <2>7, <3>2 DEF NoTaskRuns, MirrorMoved
      <4>3. SUFFICES ASSUME mirrorCtx[q].stage = "body", mirrorCtx[q].sender # NoSender
                     PROVE  Sends(mirrorTasks'[mirrorCtx[q].sender], mirrorCtx[q].fed)
        BY <4>1, <4>2 DEF SenderSound
      <4>4. mirrorCtx[q].sender \in MirrorTaskIds /\ mirrorCtx[q].sender[1] = q
            /\ Sends(mirrorTasks[mirrorCtx[q].sender], mirrorCtx[q].fed)
        BY <1>2, <4>1, <4>3 DEF MirrorCtxType, SenderSound
      <4>5. mirrorCtx[q].sender # t
        BY <2>3, <3>2, <4>4
      <4> QED BY <2>7, <4>4, <4>5 DEF MirrorMoved
    <3> QED BY <3>1, <3>2
  <2>11. TasksPermitted'
    <3> DEFINE old == RunningTasks(mirrorTasks)
               new == RunningTasks(mirrorTasks')
    <3>1. new = old \cup {t} /\ t \notin old
      <4>1. mirrorTasks[t].pc \notin Running /\ mirrorTasks'[t].pc \in Running
        BY <1>2, <2>3, <2>5, <2>7 DEF NoTaskRuns, Running, Resolving
      <4> QED BY <2>3, <2>7, <4>1 DEF RunningTasks, MirrorMoved
    <3>2. IsFiniteSet(old) /\ ~(Cardinality(old) >= mirrorPermits) /\ mirrorPermits \in Nat /\ mirrorPermits' = mirrorPermits
      BY <1>1, <1>6 DEF MirrorInv, TasksPermitted, MirrorTyped
    <3> HIDE DEF old, new
    <3>3. IsFiniteSet(new) /\ Cardinality(new) = Cardinality(old) + 1
      BY <3>1, <3>2, FS_AddElement
    <3>4. Cardinality(old) \in Nat
      BY <3>2, FS_CardinalityType
    <3>5. Cardinality(new) <= mirrorPermits'
      BY <3>2, <3>3, <3>4
    <3> QED BY <3>3, <3>5 DEF TasksPermitted, new
  <2>12. FlightLed' /\ FollowersWake' /\ AddressesFresh'
    <3>1. mirrorTasks[t].pc \notin Looking /\ x.pc \notin Looking /\ x.pc # "waiting" /\ x.pc # "connect"
      BY <1>2, <2>3, <2>5 DEF NoTaskRuns, Running, Resolving, Looking
    <3> QED BY <1>1, <2>3, <2>7, <3>1, MirrorFollowerMoves
  <2>13. MirrorTyped'
    BY <1>1, <2>7, <2>8 DEF MirrorMoved, MirrorInv, MirrorTyped
  <2> QED BY <2>9, <2>10, <2>11, <2>12, <2>13 DEF MirrorInv
<1> HIDE DEF result, spawned, before
<1> QED BY <1>4, <1>5, <1>6

\* The initial states, and every step.
LEMMA MirrorStarts ==
  ASSUME MirrorInit
  PROVE  MirrorInv
<1> DEFINE dns == [addr |-> FALSE, at |-> 0, error |-> FALSE, flight |-> FALSE]
           ctx == [stage |-> "new", sampled |-> FALSE, sender |-> NoSender, fed |-> 0]
           none == MirrorTask("none")
<1>1. /\ mirrorNow = 0 /\ mirrorPermits \in {MAX_CONCURRENT_MIRRORS - n : n \in PermitsElsewhere}
      /\ mirrorDns = [m \in MirrorInstances |-> dns] /\ mirrorCtx = [r \in MirrorIds |-> ctx]
      /\ mirrorTasks = [t \in MirrorTaskIds |-> none]
  BY DEF MirrorInit
<1>2. mirrorPermits \in Nat
  <2>1. PICK n \in PermitsElsewhere : mirrorPermits = MAX_CONCURRENT_MIRRORS - n
    BY <1>1
  <2>2. n \in 0 .. MAX_CONCURRENT_MIRRORS /\ MAX_CONCURRENT_MIRRORS \in Nat
    BY MirrorConstants
  <2> QED BY <2>1, <2>2
<1>3. dns \in MirrorDnsType /\ ~dns.flight /\ ctx \in MirrorCtxType /\ ctx.stage = "new" /\ ctx.fed = 0
  BY DEF MirrorDnsType, MirrorCtxType
<1>4. none \in MirrorTaskType /\ none.pc = "none" /\ none.queue = <<>> /\ none.written = <<>>
  BY MirrorEndedTyped DEF MirrorTask
<1> HIDE DEF dns, ctx, none
<1>5. "none" \notin Running \cup {"ok", "waiting", "clear", "notify", "connect"} /\ "none" \notin Leading
  BY DEF Running, Resolving, Looking, Leading
<1>6. MirrorTyped
  BY <1>1, <1>2, <1>3, <1>4 DEF MirrorTyped
<1>7. BodiesInOrder
  <2> SUFFICES ASSUME NEW t \in MirrorTaskIds PROVE TaskBody(t, none)
    BY <1>1 DEF BodiesInOrder
  <2>1. MirrorRequests[t[1]].chunks \in Nat
    BY MirrorTaskParts
  <2> QED BY <1>4, <1>5, <2>1 DEF TaskBody
<1>8. SendersSound
  BY <1>1, <1>3, <1>4, <1>5, MirrorTaskParts DEF SendersSound, SenderSound, NoTaskRuns
<1>9. FlightLed /\ FollowersWake /\ AddressesFresh
  BY <1>1, <1>3, <1>4, <1>5, MirrorTaskParts DEF FlightLed, FollowersWake, AddressesFresh
<1>10. TasksPermitted
  <2>1. RunningTasks(mirrorTasks) = {}
    BY <1>1, <1>4, <1>5 DEF RunningTasks
  <2> QED BY <1>2, <2>1, FS_EmptySet DEF TasksPermitted
<1> QED BY <1>6, <1>7, <1>8, <1>9, <1>10 DEF MirrorInv

LEMMA MirrorStepKeeps ==
  ASSUME MirrorInv, OneInstance, [MirrorNext]_mirrorVars
  PROVE  MirrorInv'
<1>1. CASE MirrorTick
  BY <1>1, MirrorTickKeeps
<1>2. ASSUME NEW r \in MirrorIds,
             \/ \E sampled \in BOOLEAN : MirrorSample(r, sampled)
             \/ MirrorSpawn(r) \/ MirrorRequestEnds(r)
             \/ \E end \in BOOLEAN : MirrorBodyChunk(r, end)
      PROVE  MirrorInv'
  BY <1>2, MirrorSampleKeeps, MirrorSpawnKeeps, MirrorRequestEndsKeeps, MirrorBodyChunkKeeps
<1>3. ASSUME NEW m \in MirrorInstances, MirrorRetire(m) PROVE MirrorInv'
  BY <1>3, MirrorRetireKeeps
<1>4. ASSUME NEW t \in MirrorTaskIds,
             \/ ResolveChecksCache(t) \/ ResolveElects(t)
             \/ \E ok \in BOOLEAN : LookupAnswers(t, ok) \/ MirrorConnects(t, ok) \/ MirrorWrites(t, ok)
             \/ LookupFlightClears(t) \/ LookupFlightNotifies(t)
             \/ FollowerRegisters(t) \/ FollowerLooks(t) \/ FollowerWakes(t) \/ ResolveTimesOut(t)
      PROVE  MirrorInv'
  BY <1>4, ResolveChecksCacheKeeps, ResolveElectsKeeps, LookupAnswersKeeps, MirrorConnectsKeeps, MirrorWritesKeeps,
     LookupFlightClearsKeeps, LookupFlightNotifiesKeeps, FollowerRegistersKeeps, FollowerLooksKeeps,
     FollowerWakesKeeps, ResolveTimesOutKeeps
<1>5. CASE UNCHANGED mirrorVars
  BY <1>5, MirrorStutters
<1>6. CASE MirrorNext
  BY <1>1, <1>2, <1>3, <1>4, <1>6 DEF MirrorNext
<1> QED BY <1>5, <1>6

\* A set without two members.
LEMMA AtMostOneMember ==
  ASSUME NEW S, \A u, v \in S : u = v
  PROVE  Cardinality(S) <= 1
<1>1. CASE S = {}
  BY <1>1, FS_EmptySet
<1>2. CASE S # {}
  <2>1. PICK u : u \in S
    BY <1>2
  <2>2. S = {u}
    BY <2>1
  <2>3. Cardinality({u}) = 1
    BY FS_Singleton
  <2> DEFINE one == {u}
  <2>4. S = one /\ Cardinality(one) = 1
    BY <2>2, <2>3
  <2> HIDE DEF one
  <2> QED BY <2>4
<1> QED BY <1>1, <1>2

\* The invariant gives what the runs check.
LEMMA MirrorInvWhole ==
  ASSUME MirrorInv
  PROVE  MirrorWhole
<1>1. ASSUME NEW t \in MirrorTaskIds
      PROVE  LET task == mirrorTasks[t]
                 n == MirrorRequests[t[1]].chunks
             IN /\ Len(task.written) <= n /\ \A k \in DOMAIN task.written : task.written[k] = k
                /\ task.pc = "ok" =>
                     /\ Len(task.written) = n
                     /\ task.request[1].query = MirrorRequests[t[1]].uri.query
                /\ task.pc = "waiting" /\ ~task.woken =>
                     \E u \in MirrorTaskIds : u[2] = t[2] /\ mirrorTasks[u].pc \in Looking
                /\ task.pc = "connect" => task.used < MIRROR_DNS_CACHE_TTL + MIRROR_DNS_STALE_GRACE
  <2>1. TaskBody(t, mirrorTasks[t])
    BY DEF MirrorInv, BodiesInOrder
  <2>2. DOMAIN mirrorTasks[t].written = 1 .. Len(mirrorTasks[t].written)
    <3>1. mirrorTasks[t].written \in Seq(Nat)
      BY DEF MirrorInv, MirrorTyped, MirrorTaskType
    <3> QED BY <3>1
  <2>3. mirrorTasks[t].pc = "waiting" /\ ~mirrorTasks[t].woken => Waker(t[2])
    BY DEF MirrorInv, FollowersWake
  <2>4. mirrorTasks[t].pc = "connect" => FreshEnough(mirrorTasks[t].used)
    BY DEF MirrorInv, AddressesFresh
  <2> QED BY <2>1, <2>2, <2>3, <2>4 DEF TaskBody, Waker, FreshEnough
<1>2. ASSUME NEW m \in MirrorInstances
      PROVE  Cardinality({t \in MirrorTaskIds : t[2] = m /\ mirrorTasks[t].pc = "lookup"}) <= 1
  <2> DEFINE S == {t \in MirrorTaskIds : t[2] = m /\ mirrorTasks[t].pc = "lookup"}
  <2>1. \A u, v \in S : u = v
    BY DEF MirrorInv, FlightLed, Leading
  <2> HIDE DEF S
  <2>2. Cardinality(S) <= 1
    BY <2>1, AtMostOneMember
  <2> QED BY <2>2 DEF S
<1> QED BY <1>1, <1>2 DEF MirrorWhole, MirrorInv, TasksPermitted

\* MirrorWhole, for any requests, instances, permits, queues and clocks: bodies arrive
\* in order and whole, permits bound the tasks, one lookup at a time runs per instance,
\* no follower is left waiting and no address outlives the grace.
THEOREM MirrorsWhole == OneInstance /\ MirrorSpec => []MirrorWhole
<1>1. MirrorInit => MirrorInv
  BY MirrorStarts
<1>2. OneInstance /\ MirrorInv /\ [MirrorNext]_mirrorVars => MirrorInv'
  BY MirrorStepKeeps
<1>3. MirrorInv => MirrorWhole
  BY MirrorInvWhole
<1> QED
  <2> SUFFICES ASSUME OneInstance PROVE MirrorSpec => []MirrorWhole
    OBVIOUS
  <2>1. MirrorInv /\ [MirrorNext]_mirrorVars => MirrorInv'
    BY <1>2
  <2> QED BY <1>1, <1>3, <2>1, PTL DEF MirrorSpec

================================================================================
