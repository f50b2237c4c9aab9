------------------------- MODULE PeerRegistryProofs -------------------------
(***************************************************************************)
(* Theorems about PeerRegistry, for every set of peers and of connections, *)
(* and about PubKey, the identifiers that the registry keeps its entries   *)
(* under, for all hashes and all public keys.                              *)
(*                                                                         *)
(* NoDanglingEntry is not inductive: that the connection an entry names    *)
(* removes the entry when it ends needs the two tokens to agree, and that  *)
(* no overwritten connection of the same epoch removes it needs the tokens *)
(* of one epoch to be ordered. IInv adds TokensOrderRegistrations.         *)
(***************************************************************************)
EXTENDS PeerRegistry, PubKey, TLAPS

\* The inductive invariant of the registry.
IInv == TypeOK /\ NoDanglingEntry /\ TokensOrderRegistrations

\* A vacant entry is none that register_peer could have written.
LEMMA VacantIsNoEntry == Vacant \notin Entry
  BY ConnsAssumption DEF Vacant, Entry

\* Every variable keeps its type through every operation of the registry, the
\* key store and the connections.
THEOREM TypeCorrect == Spec => []TypeOK
<1>1. Init => TypeOK
  BY DEF Init, TypeOK, Closed
<1>2. TypeOK /\ [Next]_vars => TypeOK'
  <2> SUFFICES ASSUME TypeOK, [Next]_vars PROVE TypeOK'
    OBVIOUS
  <2> USE DEF TypeOK
  <2>1. ASSUME NEW c \in Conns, NEW p \in Peers, NEW verdict \in BOOLEAN,
               Verify(c, p, verdict)
        PROVE  TypeOK'
    BY <2>1 DEF Verify, Closed
  <2>2. ASSUME NEW c \in Conns, VerifyError(c) PROVE TypeOK'
    BY <2>2 DEF VerifyError
  <2>3. ASSUME NEW c \in Conns, NewConnection(c) PROVE TypeOK'
    <3>1. CASE incoming_con_pub_keys[c] = NoPeer
      BY <2>3, <3>1 DEF NewConnection, TakeKey
    <3>2. CASE incoming_con_pub_keys[c] # NoPeer
      <4> DEFINE p == incoming_con_pub_keys[c]
      <4>1. p \in Peers
        BY <3>2
      <4>2. TokenFor(p) \in Nat
        BY <4>1 DEF TokenFor, Occupied, Entry
      <4>3. [handle |-> c, token |-> TokenFor(p)] \in Entry
        BY <4>2 DEF Entry
      <4>4. connected_peers' \in [Peers -> Entry \cup {Vacant}]
        BY <2>3, <3>2, <4>1, <4>3 DEF NewConnection, RegisterPeer
      <4> QED
        BY <2>3, <3>2, <4>1, <4>2, <4>4 DEF NewConnection, RegisterPeer, TakeKey
    <3> QED
      BY <3>1, <3>2
  <2>4. ASSUME NEW c \in Conns, DropNewConnectionFuture(c) PROVE TypeOK'
    BY <2>4 DEF DropNewConnectionFuture
  <2>5. ASSUME NEW c \in Conns, NEW how \in Closed, TransportCloses(c, how)
        PROVE  TypeOK'
    BY <2>5 DEF TransportCloses
  <2>6. ASSUME NEW c \in Conns, ConnectionEnds(c) PROVE TypeOK'
    BY <2>6 DEF ConnectionEnds, UnregisterPeer
  <2>7. CASE UNCHANGED vars
    BY <2>7 DEF vars
  <2> QED
    BY <2>1, <2>2, <2>3, <2>4, <2>5, <2>6, <2>7 DEF Next
<1> QED
  BY <1>1, <1>2, PTL DEF Spec

\* One step of the system keeps the inductive invariant.
LEMMA IInvStep == IInv /\ TypeOK' /\ [Next]_vars => IInv'
<1> SUFFICES ASSUME IInv, TypeOK', [Next]_vars PROVE IInv'
  OBVIOUS
<1> USE VacantIsNoEntry DEF IInv, TypeOK
<1>1. ASSUME UNCHANGED <<task, peer_identifier, registration_token,
                         connected_peers, epoch, regEpoch>>
      PROVE  NoDanglingEntry' /\ TokensOrderRegistrations'
  BY <1>1 DEF NoDanglingEntry, TokensOrderRegistrations, EntryTokenMatches,
         RegistrationInOrder, TokenBelowEntry, Occupied, Entry
<1>2. ASSUME NEW c \in Conns, NEW p \in Peers, NEW verdict \in BOOLEAN,
             Verify(c, p, verdict)
      PROVE  IInv'
  BY <1>1, <1>2 DEF Verify
<1>3. ASSUME NEW c \in Conns, VerifyError(c) PROVE IInv'
  BY <1>1, <1>3 DEF VerifyError
<1>4. ASSUME NEW c \in Conns, NewConnection(c) PROVE IInv'
  <2>1. CASE incoming_con_pub_keys[c] = NoPeer
    <3>1. /\ \A d \in Conns : task[d] = "running" <=> task'[d] = "running"
          /\ UNCHANGED <<peer_identifier, registration_token, connected_peers,
                         epoch, regEpoch>>
      BY <1>4, <2>1 DEF NewConnection
    <3> QED
      BY <3>1 DEF NoDanglingEntry, TokensOrderRegistrations, EntryTokenMatches,
         RegistrationInOrder, TokenBelowEntry, Occupied, Entry
  <2>2. CASE incoming_con_pub_keys[c] # NoPeer
    <3>1. PICK key \in Peers : key = incoming_con_pub_keys[c] /\ task[c] = "none"
      BY <1>4, <2>2 DEF NewConnection
    <3>2. TokenFor(key) \in Nat
      BY <3>1 DEF TokenFor, Occupied, Entry
    <3>3. /\ connected_peers' = [connected_peers EXCEPT
                 ![key] = [handle |-> c, token |-> TokenFor(key)]]
          /\ registration_token' = [registration_token EXCEPT ![c] = TokenFor(key)]
          /\ regEpoch' = [regEpoch EXCEPT ![c] = epoch[key]]
          /\ peer_identifier' = [peer_identifier EXCEPT ![c] = key]
          /\ task' = [task EXCEPT ![c] = "running"]
          /\ epoch' = epoch
      BY <1>4, <2>2, <3>1 DEF NewConnection, RegisterPeer
    <3>4. [handle |-> c, token |-> TokenFor(key)] \in Entry
      BY <3>2 DEF Entry
    <3>5. \A q \in Peers : Occupied(q) => connected_peers[q].handle # c
      BY <3>1 DEF NoDanglingEntry
    <3>6. \A q \in Peers \ {key} :
              connected_peers'[q] = connected_peers[q] /\ (Occupied(q)' <=> Occupied(q))
      BY <3>1, <3>3 DEF Occupied
    <3>7. connected_peers'[key] = [handle |-> c, token |-> TokenFor(key)]
      BY <3>1, <3>3
    <3>8. Occupied(key)'
      BY <3>4, <3>7 DEF Occupied
    <3>9. NoDanglingEntry'
      BY <3>1, <3>3, <3>5, <3>6, <3>7 DEF NoDanglingEntry, Occupied, Entry
    <3>10. ASSUME NEW q \in Peers PROVE EntryTokenMatches(q)'
      BY <3>1, <3>3, <3>5, <3>6, <3>7
         DEF TokensOrderRegistrations, EntryTokenMatches, Occupied, Entry
    <3>11. ASSUME NEW d \in Conns, task'[d] = "running" PROVE RegistrationInOrder(d)'
      <4>1. CASE d = c
        <5>1. peer_identifier'[d] = key /\ regEpoch'[d] = epoch'[key]
          BY <3>3, <4>1
        <5>2. TokenBelowEntry(d, key)'
          BY <3>7, <3>8, <4>1 DEF TokenBelowEntry
        <5> QED
          BY <3>1, <5>1, <5>2 DEF RegistrationInOrder
      <4>2. CASE d # c
        <5>1. /\ task[d] = "running" /\ RegistrationInOrder(d)
              /\ peer_identifier'[d] = peer_identifier[d]
              /\ regEpoch'[d] = regEpoch[d] /\ epoch' = epoch
              /\ registration_token'[d] = registration_token[d]
          BY <3>3, <3>11, <4>2 DEF TokensOrderRegistrations
        <5>2. ASSUME peer_identifier[d] = key, TokenBelowEntry(d, key)
              PROVE  TokenBelowEntry(d, key)'
          <6>1. TokenFor(key) = connected_peers[key].token + 1
                /\ connected_peers[key].token \in Nat
            BY <3>1, <5>2 DEF TokenBelowEntry, TokenFor, Occupied, Entry
          <6>2. registration_token[d] <= connected_peers[key].token
            BY <3>1, <5>2, <6>1
               DEF TokenBelowEntry, TokensOrderRegistrations, EntryTokenMatches
          <6>3. registration_token'[d] < connected_peers'[key].token
            BY <3>7, <5>1, <6>1, <6>2
          <6> QED
            BY <3>8, <6>3 DEF TokenBelowEntry
        <5>3. ASSUME peer_identifier[d] # key,
                     TokenBelowEntry(d, peer_identifier[d])
              PROVE  TokenBelowEntry(d, peer_identifier[d])'
          BY <3>6, <5>1, <5>3 DEF TokenBelowEntry, RegistrationInOrder
        <5> QED
          BY <5>1, <5>2, <5>3 DEF RegistrationInOrder
      <4> QED
        BY <4>1, <4>2
    <3> QED
      BY <3>9, <3>10, <3>11 DEF TokensOrderRegistrations, RegistrationInOrder
  <2> QED
    BY <2>1, <2>2
<1>5. ASSUME NEW c \in Conns, DropNewConnectionFuture(c) PROVE IInv'
  <2>1. /\ \A d \in Conns : task[d] = "running" <=> task'[d] = "running"
        /\ UNCHANGED <<peer_identifier, registration_token, connected_peers,
                       epoch, regEpoch>>
    BY <1>5 DEF DropNewConnectionFuture
  <2> QED
    BY <2>1 DEF NoDanglingEntry, TokensOrderRegistrations, EntryTokenMatches,
         RegistrationInOrder, TokenBelowEntry, Occupied, Entry
<1>6. ASSUME NEW c \in Conns, NEW how \in Closed, TransportCloses(c, how)
      PROVE  IInv'
  BY <1>1, <1>6 DEF TransportCloses
<1>7. ASSUME NEW c \in Conns, ConnectionEnds(c) PROVE IInv'
  <2> DEFINE p == peer_identifier[c]
  <2>1. /\ task[c] = "running" /\ p \in Peers
        /\ task' = [task EXCEPT ![c] = "done"]
        /\ UNCHANGED <<peer_identifier, registration_token, regEpoch>>
    BY <1>7 DEF ConnectionEnds, TokensOrderRegistrations, RegistrationInOrder
  <2>2. CASE UnregisterMatches(p, registration_token[c])
    <3>1. /\ connected_peers' = [connected_peers EXCEPT ![p] = Vacant]
          /\ epoch' = [epoch EXCEPT ![p] = @ + 1]
      BY <1>7, <2>2 DEF ConnectionEnds, UnregisterPeer
    <3>2. ~Occupied(p)' /\ \A q \in Peers \ {p} : connected_peers'[q] = connected_peers[q]
      BY <2>1, <3>1 DEF Occupied
    <3>3. NoDanglingEntry'
      BY <2>1, <3>1, <3>2 DEF NoDanglingEntry, Occupied, Entry
    <3>4. TokensOrderRegistrations'
      BY <2>1, <3>1, <3>2 DEF TokensOrderRegistrations, EntryTokenMatches,
         RegistrationInOrder, TokenBelowEntry, Occupied, Entry
    <3> QED
      BY <3>3, <3>4
  <2>3. CASE ~UnregisterMatches(p, registration_token[c])
    <3>1. UNCHANGED <<connected_peers, epoch>>
      BY <1>7, <2>3 DEF ConnectionEnds, UnregisterPeer
    <3>2. \A q \in Peers : Occupied(q) => connected_peers[q].handle # c
      BY <2>1, <2>3
         DEF NoDanglingEntry, TokensOrderRegistrations, EntryTokenMatches,
             UnregisterMatches
    <3>3. NoDanglingEntry'
      BY <2>1, <3>1, <3>2 DEF NoDanglingEntry, Occupied, Entry
    <3>4. TokensOrderRegistrations'
      BY <2>1, <3>1, <3>2 DEF TokensOrderRegistrations, EntryTokenMatches,
         RegistrationInOrder, TokenBelowEntry, Occupied, Entry
    <3> QED
      BY <3>3, <3>4
  <2> QED
    BY <2>2, <2>3
<1>8. CASE UNCHANGED vars
  BY <1>1, <1>8 DEF vars
<1> QED
  BY <1>2, <1>3, <1>4, <1>5, <1>6, <1>7, <1>8 DEF Next

\* The inductive invariant holds throughout.
LEMMA IInvHolds == Spec => []IInv
<1>1. Init => NoDanglingEntry /\ TokensOrderRegistrations
  BY DEF Init, NoDanglingEntry, TokensOrderRegistrations, EntryTokenMatches,
         RegistrationInOrder, Occupied
<1> QED
  BY <1>1, TypeCorrect, IInvStep, PTL DEF Spec, IInv

\* registry.rs never hands out a handle to a connection whose task has ended,
\* and never one that leads to another peer, whatever the number of peers and
\* of connections.
THEOREM HandlesAreAlive == Spec => []NoDanglingEntry
  BY IInvHolds, PTL DEF IInv

\* Within one epoch of an entry the tokens of register_peer order the
\* registrations, which is what the comparison in unregister_peer relies on.
THEOREM TokensAreOrdered == Spec => []TokensOrderRegistrations
  BY IInvHolds, PTL DEF IInv

\* While an entry stays occupied, unregister_peer removes it only for the
\* connection registered last; only an earlier removal (a new epoch, in which
\* the tokens start again at 0) lets an overwritten connection remove it.
THEOREM OverwrittenKeepsEntry == Spec => OverwrittenNeverRemoves
<1> DEFINE Keeps == \A p \in Peers, c \in Conns :
           /\ Removes(p) /\ Ends(c) /\ peer_identifier[c] = p
           /\ regEpoch[c] = epoch[p]
           => connected_peers[p].handle = c
<1>1. IInv /\ [Next]_vars => [Keeps]_vars
  <2> SUFFICES ASSUME IInv, Next, NEW p \in Peers, NEW c \in Conns,
                      Removes(p), Ends(c), peer_identifier[c] = p,
                      regEpoch[c] = epoch[p]
               PROVE  connected_peers[p].handle = c
    OBVIOUS
  <2>1. /\ task[c] = "running" /\ TokenBelowEntry(c, p)
    BY DEF Ends, IInv, TokensOrderRegistrations, RegistrationInOrder
  <2>2. PICK d \in Conns : ConnectionEnds(d)
    BY VacantIsNoEntry
       DEF Ends, IInv, TypeOK, Next, Verify, VerifyError, NewConnection,
           DropNewConnectionFuture, TransportCloses, ConnectionEnds
  <2>3. d = c
    BY <2>2 DEF ConnectionEnds, Ends, IInv, TypeOK
  <2>4. UnregisterMatches(p, registration_token[c])
    BY <2>2, <2>3 DEF ConnectionEnds, UnregisterPeer, Removes, Occupied
  <2>5. registration_token[c] = connected_peers[p].token
    BY <2>4 DEF UnregisterMatches
  <2>6. connected_peers[p].token \in Nat
    BY <2>4 DEF UnregisterMatches, Occupied, IInv, TypeOK, Entry
  <2> QED
    BY <2>1, <2>5, <2>6 DEF TokenBelowEntry
<1> QED
  BY <1>1, IInvHolds, PTL DEF Spec, OverwrittenNeverRemoves

\* What KeyHandedOverOnce needs to be inductive: a connection is picked up only
\* after its handshake, so verify stores no key for it any more.
PickedUpAfterHandshake ==
    \A c \in Conns : task[c] \in {"running", "done"} => Established(c)

\* Connection::new finds the key of every connection whose handshake succeeded
\* and leaves none behind, whatever the order of handshakes, pick-ups, drops
\* and losses.
THEOREM KeysAreHandedOver == Spec => []KeyHandedOverOnce
<1> DEFINE KInv == TypeOK /\ KeyHandedOverOnce /\ PickedUpAfterHandshake
<1> USE DEF KeyHandedOverOnce, PickedUpAfterHandshake, Established, Closed
<1>1. Init => KInv
  BY TypeCorrect DEF Init, TypeOK
<1>2. KInv /\ TypeOK' /\ [Next]_vars => KInv'
  <2> SUFFICES ASSUME KInv, TypeOK', [Next]_vars
               PROVE  KeyHandedOverOnce' /\ PickedUpAfterHandshake'
    OBVIOUS
  <2> USE PeersAssumption DEF TypeOK
  <2>1. ASSUME NEW c \in Conns, NEW p \in Peers, NEW verdict \in BOOLEAN,
               Verify(c, p, verdict)
        PROVE  KeyHandedOverOnce' /\ PickedUpAfterHandshake'
    BY <2>1 DEF Verify
  <2>2. ASSUME NEW c \in Conns, VerifyError(c)
        PROVE  KeyHandedOverOnce' /\ PickedUpAfterHandshake'
    BY <2>2 DEF VerifyError
  <2>3. ASSUME NEW c \in Conns, NewConnection(c)
        PROVE  KeyHandedOverOnce' /\ PickedUpAfterHandshake'
    <3>1. incoming_con_pub_keys[c] # NoPeer /\ task[c] = "none" /\ Established(c)
      BY <2>3 DEF NewConnection
    <3>2. /\ task' = [task EXCEPT ![c] = "running"]
          /\ incoming_con_pub_keys' = [incoming_con_pub_keys EXCEPT ![c] = NoPeer]
          /\ transport' = transport
      BY <2>3, <3>1 DEF NewConnection, TakeKey
    <3> QED
      BY <3>1, <3>2
  <2>4. ASSUME NEW c \in Conns, DropNewConnectionFuture(c)
        PROVE  KeyHandedOverOnce' /\ PickedUpAfterHandshake'
    BY <2>4 DEF DropNewConnectionFuture
  <2>5. ASSUME NEW c \in Conns, NEW how \in Closed, TransportCloses(c, how)
        PROVE  KeyHandedOverOnce' /\ PickedUpAfterHandshake'
    BY <2>5 DEF TransportCloses
  <2>6. ASSUME NEW c \in Conns, ConnectionEnds(c)
        PROVE  KeyHandedOverOnce' /\ PickedUpAfterHandshake'
    BY <2>6 DEF ConnectionEnds
  <2>7. CASE UNCHANGED vars
    BY <2>7 DEF vars
  <2> QED
    BY <2>1, <2>2, <2>3, <2>4, <2>5, <2>6, <2>7 DEF Next
<1> QED
  BY <1>1, <1>2, TypeCorrect, PTL DEF Spec

-----------------------------------------------------------------------------
(* The registry implements ConnectedPeers *)

\* Steps that change no entry, and no connection that runs or is done, are
\* invisible to those who look a peer up.
LEMMA InvisibleStep ==
    ASSUME connected_peers' = connected_peers, peer_identifier' = peer_identifier,
           \A c \in Conns : /\ task'[c] = "running" <=> task[c] = "running"
                            /\ task'[c] = "done" <=> task[c] = "done"
    PROVE  UNCHANGED Abstract!cvars
  BY DEF Abstract!cvars

\* With its tokens the registry implements the one of ConnectedPeers: a
\* connection that ends always gives up its own entry.
THEOREM RegistryImplementsConnectedPeers == Spec => ImplementsConnectedPeers
<1>1. Init => Abstract!Init
  BY DEF Init, Abstract!Init, Vacant
<1>2. IInv /\ IInv' /\ [Next]_vars => [Abstract!Next]_(Abstract!cvars)
  <2> SUFFICES ASSUME IInv, IInv', [Next]_vars
               PROVE  Abstract!Next \/ UNCHANGED Abstract!cvars
    OBVIOUS
  <2> USE PeersAssumption, ConnsAssumption, VacantIsNoEntry DEF IInv, TypeOK
  <2>1. ASSUME NEW c \in Conns, NEW p \in Peers, NEW verdict \in BOOLEAN,
               Verify(c, p, verdict)
        PROVE  UNCHANGED Abstract!cvars
    BY <2>1, InvisibleStep DEF Verify
  <2>2. ASSUME NEW c \in Conns, VerifyError(c) PROVE UNCHANGED Abstract!cvars
    BY <2>2, InvisibleStep DEF VerifyError
  <2>3. ASSUME NEW c \in Conns, NewConnection(c)
        PROVE  Abstract!Next \/ UNCHANGED Abstract!cvars
    <3>1. CASE incoming_con_pub_keys[c] = NoPeer
      BY <2>3, <3>1, InvisibleStep DEF NewConnection
    <3>2. CASE incoming_con_pub_keys[c] # NoPeer
      <4>1. PICK key \in Peers : key = incoming_con_pub_keys[c] /\ task[c] = "none"
        BY <2>3, <3>2 DEF NewConnection
      <4>2. /\ connected_peers' = [connected_peers EXCEPT
                   ![key] = [handle |-> c, token |-> TokenFor(key)]]
            /\ peer_identifier' = [peer_identifier EXCEPT ![c] = key]
            /\ task' = [task EXCEPT ![c] = "running"]
        BY <2>3, <3>2, <4>1 DEF NewConnection, RegisterPeer
      <4>3. Abstract!Register(c, key)
        BY <4>1, <4>2 DEF Abstract!Register
      <4> QED
        BY <4>3 DEF Abstract!Next
    <3> QED
      BY <3>1, <3>2
  <2>4. ASSUME NEW c \in Conns, DropNewConnectionFuture(c)
        PROVE  UNCHANGED Abstract!cvars
    BY <2>4, InvisibleStep DEF DropNewConnectionFuture
  <2>5. ASSUME NEW c \in Conns, NEW how \in Closed, TransportCloses(c, how)
        PROVE  UNCHANGED Abstract!cvars
    BY <2>5, InvisibleStep DEF TransportCloses
  <2>6. ASSUME NEW c \in Conns, ConnectionEnds(c) PROVE Abstract!Next
    <3>1. PICK p \in Peers : p = peer_identifier[c]
      BY <2>6 DEF ConnectionEnds, TokensOrderRegistrations, RegistrationInOrder
    <3>2. /\ task[c] = "running" /\ task' = [task EXCEPT ![c] = "done"]
          /\ peer_identifier' = peer_identifier
      BY <2>6 DEF ConnectionEnds
    <3> DEFINE leads == [d \in Conns |-> IF task[d] = "running"
                                         THEN peer_identifier[d] ELSE NoPeer]
               entries == [q \in Peers |-> connected_peers[q].handle]
               over == {d \in Conns : task[d] = "done"}
    <3>3. leads[c] = p /\ leads' = [leads EXCEPT ![c] = NoPeer]
      BY <3>1, <3>2
    <3>4. over' = over \cup {c}
      BY <3>2
    <3>5. CASE UnregisterMatches(p, registration_token[c])
      <4>1. connected_peers' = [connected_peers EXCEPT ![p] = Vacant]
        BY <2>6, <3>1, <3>5 DEF ConnectionEnds, UnregisterPeer
      <4>2. entries' = [entries EXCEPT ![p] = NoConn]
        BY <4>1 DEF Vacant
      <4>3. Abstract!Unregister(c, p)
        BY <3>3, <3>4, <4>2 DEF Abstract!Unregister
      <4> QED
        BY <4>3 DEF Abstract!Next
    <3>6. CASE ~UnregisterMatches(p, registration_token[c])
      <4>1. connected_peers' = connected_peers
        BY <2>6, <3>1, <3>6 DEF ConnectionEnds, UnregisterPeer
      <4>2. connected_peers[p].handle # c
        BY <3>6 DEF UnregisterMatches, TokensOrderRegistrations, EntryTokenMatches,
                    Occupied, Vacant
      <4>3. entries' = entries /\ entries[p] # c
        BY <4>1, <4>2
      <4>4. Abstract!Unregister(c, p)
        BY <3>3, <3>4, <4>3 DEF Abstract!Unregister
      <4> QED
        BY <4>4 DEF Abstract!Next
    <3> QED
      BY <3>5, <3>6
  <2>7. CASE UNCHANGED vars
    BY <2>7, InvisibleStep DEF vars
  <2> QED
    BY <2>1, <2>2, <2>3, <2>4, <2>5, <2>6, <2>7 DEF Next
<1> QED
  BY <1>1, <1>2, IInvHolds, PTL DEF Spec, ImplementsConnectedPeers, Abstract!Spec

-----------------------------------------------------------------------------
(* The identifiers of peers *)

\* What FromHashed and Deserialize accept.
Hashes == {hashed \in Seq(Byte) : Len(hashed) <= EVP_MAX_MD_SIZE}

\* The hash of an identifier is a sequence of bytes that fits into the buffer.
LEMMA DerefIsHash ==
    ASSUME NEW Der, NEW key \in PubKeyHash(Der)
    PROVE  Deref(key) \in Hashes /\ Len(Deref(key)) = key.len
<1>1. key.len \in 0..EVP_MAX_MD_SIZE /\ key.buf \in [1..EVP_MAX_MD_SIZE -> Byte]
  BY DEF PubKeyHash
<1>2. key.len \in Nat /\ key.len <= EVP_MAX_MD_SIZE
  BY <1>1 DEF EVP_MAX_MD_SIZE
<1>3. \A i \in 1..key.len : key.buf[i] \in Byte
  BY <1>1, <1>2 DEF EVP_MAX_MD_SIZE
<1>4. Deref(key) \in Seq(Byte) /\ Len(Deref(key)) = key.len
  BY <1>2, <1>3 DEF Deref
<1> QED
  BY <1>2, <1>4 DEF Hashes

\* Every way to make an identifier (pubkey.rs: from_hashed, deserialize and
\* from_public_key_der) leaves zeros behind the hash, on which Hash and Ord rely.
THEOREM BufferIsPadded ==
    ASSUME NEW Der, NEW hashed \in Hashes
    PROVE  /\ FromHashed(hashed) \in PubKeyHash(Der)
           /\ Deserialize(hashed) \in PubKeyHash(Der)
           /\ \A der \in Der, store_orig \in BOOLEAN :
                  FromPublicKeyDer(der, hashed, store_orig) \in PubKeyHash(Der)
<1>0. hashed \in Seq(Byte) /\ Len(hashed) \in Nat /\ Len(hashed) <= EVP_MAX_MD_SIZE
  BY DEF Hashes
<1>1. Len(hashed) \in 0..EVP_MAX_MD_SIZE /\ ~(Len(hashed) > EVP_MAX_MD_SIZE)
  <2> DEFINE n == Len(hashed)
  <2>1. n \in Nat /\ n <= EVP_MAX_MD_SIZE
    BY <1>0
  <2> HIDE DEF n
  <2>2. n \in 0..EVP_MAX_MD_SIZE /\ ~(n > EVP_MAX_MD_SIZE)
    BY <2>1 DEF EVP_MAX_MD_SIZE
  <2> QED
    BY <2>2 DEF n
<1>2. \A i \in 1..EVP_MAX_MD_SIZE : i <= Len(hashed) => hashed[i] \in Byte
  <2>1. \A i \in 1..Len(hashed) : hashed[i] \in Byte
    BY <1>0
  <2> QED
    BY <1>0, <2>1 DEF EVP_MAX_MD_SIZE
<1> DEFINE padded == [i \in 1..EVP_MAX_MD_SIZE |-> IF i <= Len(hashed) THEN hashed[i] ELSE 0]
<1>3. padded \in [1..EVP_MAX_MD_SIZE -> Byte]
  <2>1. 0 \in Byte
    BY DEF Byte
  <2> QED
    BY <1>2, <2>1
<1>4. \A i \in (Len(hashed) + 1)..EVP_MAX_MD_SIZE : padded[i] = 0
  <2> TAKE i \in (Len(hashed) + 1)..EVP_MAX_MD_SIZE
  <2>1. i \in 1..EVP_MAX_MD_SIZE /\ ~(i <= Len(hashed))
    BY <1>0 DEF EVP_MAX_MD_SIZE
  <2> QED
    BY <2>1
<1> HIDE DEF padded
<1>5. ASSUME NEW stored \in {<<>>} \cup {<<der>> : der \in Der}
      PROVE  [buf |-> padded, len |-> Len(hashed), pub_key |-> stored] \in PubKeyHash(Der)
  BY <1>1, <1>3, <1>4 DEF PubKeyHash
<1>6. FromHashedChecked(hashed) = [buf |-> padded, len |-> Len(hashed), pub_key |-> <<>>]
  BY DEF FromHashedChecked, padded
<1>7. FromHashed(hashed) \in PubKeyHash(Der)
  BY <1>1, <1>5, <1>6 DEF FromHashed
<1>8. Deserialize(hashed) \in PubKeyHash(Der)
  BY <1>1, <1>5 DEF Deserialize, padded
<1>9. ASSUME NEW der \in Der, NEW store_orig \in BOOLEAN
      PROVE  FromPublicKeyDer(der, hashed, store_orig) \in PubKeyHash(Der)
  <2> DEFINE stored == IF store_orig THEN <<der>> ELSE <<>>
  <2>1. FromPublicKeyDer(der, hashed, store_orig)
            = [buf |-> padded, len |-> Len(hashed), pub_key |-> stored]
    BY <1>6 DEF FromPublicKeyDer
  <2>2. stored \in {<<>>} \cup {<<d>> : d \in Der}
    OBVIOUS
  <2> QED
    BY <1>5, <2>1, <2>2
<1> QED
  BY <1>7, <1>8, <1>9

\* Eq of two identifiers is equality of the hashes they were made from
\* (pubkey.rs, PartialEq::eq): no two peers are taken for one another.
THEOREM EqIsSameHash ==
    ASSUME NEW g \in Hashes, NEW h \in Hashes
    PROVE  Eq(FromHashed(g), FromHashed(h)) <=> g = h
<1>1. ASSUME NEW f \in Hashes
      PROVE  /\ FromHashed(f).len = Len(f)
             /\ Deref(FromHashed(f)) = f
  <2>1. Len(f) \in Nat /\ Len(f) <= EVP_MAX_MD_SIZE /\ f \in Seq(Byte)
    BY DEF Hashes
  <2>2. FromHashed(f) = FromHashedChecked(f)
    BY <2>1 DEF FromHashed, EVP_MAX_MD_SIZE
  <2>3. FromHashed(f).len = Len(f)
    BY <2>2 DEF FromHashedChecked
  <2>4. \A i \in 1..Len(f) : FromHashed(f).buf[i] = f[i]
    BY <2>1, <2>2 DEF FromHashedChecked, EVP_MAX_MD_SIZE
  <2>5. Deref(FromHashed(f)) = [i \in 1..Len(f) |-> f[i]]
    BY <2>3, <2>4 DEF Deref
  <2>6. f = [i \in 1..Len(f) |-> f[i]]
    BY <2>1
  <2> QED
    BY <2>3, <2>5, <2>6
<1> QED
  BY <1>1 DEF Eq

\* Identifiers that are equal are hashed alike and compare as equal, as the maps
\* of the standard library and the LruCache require.
THEOREM EqAgreesWithHash ==
    ASSUME NEW Der, NEW a \in PubKeyHash(Der), NEW b \in PubKeyHash(Der), Eq(a, b)
    PROVE  HashInput(a) = HashInput(b) /\ Cmp(a, b) = "Equal"
<1>1. /\ a.buf \in [1..EVP_MAX_MD_SIZE -> Byte]
      /\ b.buf \in [1..EVP_MAX_MD_SIZE -> Byte]
      /\ a.len \in 0..EVP_MAX_MD_SIZE
      /\ a.len = b.len
  BY DEF PubKeyHash, Eq
<1>2. \A i \in 1..a.len : a.buf[i] = b.buf[i]
  <2> TAKE i \in 1..a.len
  <2>1. Deref(a)[i] = a.buf[i]
    BY DEF Deref
  <2>2. Deref(b)[i] = b.buf[i]
    BY <1>1 DEF Deref
  <2> QED
    BY <2>1, <2>2 DEF Eq
<1>3. \A i \in (a.len + 1)..EVP_MAX_MD_SIZE : a.buf[i] = 0 /\ b.buf[i] = 0
  BY <1>1 DEF PubKeyHash
<1>4. \A i \in 1..EVP_MAX_MD_SIZE : a.buf[i] = b.buf[i]
  <2> TAKE i \in 1..EVP_MAX_MD_SIZE
  <2>1. i \in 1..a.len \/ i \in (a.len + 1)..EVP_MAX_MD_SIZE
    BY <1>1 DEF EVP_MAX_MD_SIZE
  <2> QED
    BY <1>2, <1>3, <2>1
<1>5. a.buf = b.buf
  <2> DEFINE p == a.buf
             q == b.buf
             S == 1..EVP_MAX_MD_SIZE
  <2>1. p \in [S -> Byte] /\ q \in [S -> Byte] /\ \A i \in S : p[i] = q[i]
    BY <1>1, <1>4
  <2> HIDE DEF p, q, S
  <2>2. p = q
    BY <2>1
  <2> QED
    BY <2>2 DEF p, q
<1> QED
  BY <1>5 DEF HashInput, Cmp

\* For digests, which all have one length, Ord agrees with Eq.
THEOREM OrdAgreesOnDigests ==
    ASSUME NEW Der, NEW a \in PubKeyHash(Der), NEW b \in PubKeyHash(Der), a.len = b.len
    PROVE  Cmp(a, b) = "Equal" <=> Eq(a, b)
<1>1. Cmp(a, b) = "Equal" => a.buf = b.buf
  BY DEF Cmp
<1>2. a.buf = b.buf => Eq(a, b)
  BY DEF Eq, Deref
<1> QED
  BY <1>1, <1>2, EqAgreesWithHash

\* Without that, it does not: the lengths are not compared (pubkey.rs, Ord::cmp),
\* so a hash and the same hash with a zero behind it are one key to the LruCache
\* of the mDNS registry, and two to the maps.
THEOREM OrdIgnoresLength ==
    /\ Cmp(FromHashed(<<1>>), FromHashed(<<1, 0>>)) = "Equal"
    /\ ~Eq(FromHashed(<<1>>), FromHashed(<<1, 0>>))
<1>1. FromHashed(<<1>>) = FromHashedChecked(<<1>>)
  BY DEF FromHashed, EVP_MAX_MD_SIZE
<1>2. FromHashed(<<1, 0>>) = FromHashedChecked(<<1, 0>>)
  BY DEF FromHashed, EVP_MAX_MD_SIZE
<1>3. FromHashedChecked(<<1>>).len = 1 /\ FromHashedChecked(<<1, 0>>).len = 2
  BY DEF FromHashedChecked
<1>4. ASSUME NEW i \in 1..EVP_MAX_MD_SIZE
      PROVE  (IF i <= Len(<<1>>) THEN <<1>>[i] ELSE 0)
                 = (IF i <= Len(<<1, 0>>) THEN <<1, 0>>[i] ELSE 0)
  <2>1. CASE i = 1
    BY <2>1
  <2>2. CASE i = 2
    BY <2>2
  <2>3. CASE i > 2
    BY <2>3 DEF EVP_MAX_MD_SIZE
  <2> QED
    BY <2>1, <2>2, <2>3 DEF EVP_MAX_MD_SIZE
<1>5. FromHashedChecked(<<1>>).buf = FromHashedChecked(<<1, 0>>).buf
  BY <1>4 DEF FromHashedChecked
<1> QED
  BY <1>1, <1>2, <1>3, <1>5 DEF Cmp, Eq

\* Ord orders: it is the same from both sides and transitive.
THEOREM OrdIsConsistent ==
    ASSUME NEW Der, NEW a \in PubKeyHash(Der), NEW b \in PubKeyHash(Der),
           NEW c \in PubKeyHash(Der), Cmp(a, b) = "Less"
    PROVE  /\ Cmp(b, a) = "Greater"
           /\ Cmp(b, c) = "Less" => Cmp(a, c) = "Less"
<1>1. ASSUME NEW x \in PubKeyHash(Der), NEW i \in 1..EVP_MAX_MD_SIZE
      PROVE  x.buf[i] \in Nat
  <2>1. x.buf \in [1..EVP_MAX_MD_SIZE -> Byte]
    BY DEF PubKeyHash
  <2>2. x.buf[i] \in Byte
    BY <2>1
  <2> QED
    BY <2>2 DEF Byte
<1>2. a.buf # b.buf /\ Less(a, b)
  BY DEF Cmp
<1>3. PICK i \in 1..EVP_MAX_MD_SIZE :
          a.buf[i] < b.buf[i] /\ \A j \in 1..(i - 1) : a.buf[j] = b.buf[j]
  BY <1>2 DEF Less
<1>4. ~Less(b, a)
  <2> SUFFICES ASSUME NEW k \in 1..EVP_MAX_MD_SIZE, b.buf[k] < a.buf[k],
                      \A j \in 1..(k - 1) : b.buf[j] = a.buf[j]
               PROVE  FALSE
    BY DEF Less
  <2>1. a.buf[i] \in Nat /\ b.buf[i] \in Nat /\ a.buf[k] \in Nat /\ b.buf[k] \in Nat
    BY <1>1
  <2>2. i \in Nat /\ k \in Nat /\ i >= 1 /\ k >= 1
    BY DEF EVP_MAX_MD_SIZE
  <2>3. i < k \/ i = k \/ k < i
    BY <2>2
  <2>4. CASE i < k
    <3>1. i \in 1..(k - 1)
      BY <2>2, <2>4
    <3> QED
      BY <1>3, <2>1, <3>1
  <2>5. CASE k < i
    <3>1. k \in 1..(i - 1)
      BY <2>2, <2>5
    <3> QED
      BY <1>3, <2>1, <3>1
  <2> QED
    BY <1>3, <2>1, <2>3, <2>4, <2>5
<1>5. ASSUME Cmp(b, c) = "Less"
      PROVE  Cmp(a, c) = "Less"
  <2>1. Less(b, c)
    BY <1>5 DEF Cmp
  <2>2. PICK k \in 1..EVP_MAX_MD_SIZE :
            b.buf[k] < c.buf[k] /\ \A j \in 1..(k - 1) : b.buf[j] = c.buf[j]
    BY <2>1 DEF Less
  <2>3. i \in Nat /\ k \in Nat /\ i >= 1 /\ k >= 1
    BY DEF EVP_MAX_MD_SIZE
  <2> DEFINE m == IF i < k THEN i ELSE k
  <2>4. m \in 1..EVP_MAX_MD_SIZE /\ m \in Nat /\ m <= i /\ m <= k
    BY <2>3
  <2>5. \A j \in 1..(m - 1) : j \in 1..(i - 1) /\ j \in 1..(k - 1)
    BY <2>3, <2>4
  <2>6. \A j \in 1..(m - 1) : a.buf[j] = c.buf[j]
    BY <1>3, <2>2, <2>5
  <2>7. a.buf[m] < c.buf[m]
    <3>1. /\ a.buf[i] \in Nat /\ b.buf[i] \in Nat /\ c.buf[i] \in Nat
          /\ a.buf[k] \in Nat /\ b.buf[k] \in Nat /\ c.buf[k] \in Nat
      BY <1>1
    <3>2. CASE i < k
      <4>1. i \in 1..(k - 1) /\ m = i
        BY <2>3, <3>2
      <4> QED
        BY <1>3, <2>2, <4>1
    <3>3. CASE k < i
      <4>1. k \in 1..(i - 1) /\ m = k
        BY <2>3, <3>3
      <4> QED
        BY <1>3, <2>2, <4>1
    <3>4. CASE i = k
      <4>1. m = i /\ m = k
        BY <2>3, <3>4
      <4>2. a.buf[m] \in Nat /\ b.buf[m] \in Nat /\ c.buf[m] \in Nat
        BY <3>1, <4>1
      <4> QED
        BY <1>3, <2>2, <4>1, <4>2
    <3> QED
      BY <2>3, <3>2, <3>3, <3>4
  <2>8. Less(a, c)
    BY <2>4, <2>6, <2>7 DEF Less
  <2>9. a.buf # c.buf
    <3>1. a.buf[m] \in Nat /\ c.buf[m] \in Nat
      BY <1>1, <2>4
    <3> QED
      BY <2>7, <3>1
  <2> QED
    BY <2>8, <2>9 DEF Cmp
<1> QED
  BY <1>2, <1>4, <1>5 DEF Cmp

\* What FromHashed makes of the hash of an identifier is that identifier again,
\* without the original key.
LEMMA FromHashedDeref ==
    ASSUME NEW Der, NEW key \in PubKeyHash(Der)
    PROVE  FromHashed(Deref(key)) = [buf |-> key.buf, len |-> key.len, pub_key |-> <<>>]
<1>1. /\ key.buf \in [1..EVP_MAX_MD_SIZE -> Byte]
      /\ key.len \in 0..EVP_MAX_MD_SIZE
      /\ \A i \in (key.len + 1)..EVP_MAX_MD_SIZE : key.buf[i] = 0
  BY DEF PubKeyHash
<1>2. key.len \in Nat /\ key.len <= EVP_MAX_MD_SIZE
  BY <1>1 DEF EVP_MAX_MD_SIZE
<1>3. Len(Deref(key)) = key.len
  BY DerefIsHash
<1>4. ASSUME NEW i \in 1..EVP_MAX_MD_SIZE
      PROVE  (IF i <= key.len THEN Deref(key)[i] ELSE 0) = key.buf[i]
  <2>1. CASE i <= key.len
    <3>1. i \in 1..key.len
      BY <1>2, <2>1 DEF EVP_MAX_MD_SIZE
    <3> QED
      BY <2>1, <3>1 DEF Deref
  <2>2. CASE ~(i <= key.len)
    <3>1. i \in (key.len + 1)..EVP_MAX_MD_SIZE
      BY <1>2, <2>2 DEF EVP_MAX_MD_SIZE
    <3> QED
      BY <1>1, <2>2, <3>1
  <2> QED
    BY <2>1, <2>2
<1> DEFINE p == key.buf
           S == 1..EVP_MAX_MD_SIZE
           padded == [i \in S |-> IF i <= key.len THEN Deref(key)[i] ELSE 0]
<1>5. p \in [S -> Byte] /\ \A i \in S : padded[i] = p[i]
  BY <1>1, <1>4
<1>6. padded = [i \in S |-> padded[i]]
  OBVIOUS
<1>7. padded = p
  <2> HIDE DEF p, S, padded
  <2> QED
    BY <1>5, <1>6
<1>8. FromHashed(Deref(key)) = FromHashedChecked(Deref(key))
  BY <1>2, <1>3 DEF FromHashed, EVP_MAX_MD_SIZE
<1>9. FromHashedChecked(Deref(key)) = [buf |-> padded, len |-> key.len, pub_key |-> <<>>]
  BY <1>3 DEF FromHashedChecked
<1> QED
  BY <1>7, <1>8, <1>9 DEF p

\* An identifier that was sent in a message is Eq to the one that arrives
\* (pubkey.rs, serialize and deserialize), for hashes of any length; the
\* original key is not sent along.
THEOREM SerializedArrives ==
    ASSUME NEW Der, NEW key \in PubKeyHash(Der)
    PROVE  /\ Eq(Deserialize(Serialize(key)), key)
           /\ Deserialize(Serialize(key)).pub_key = <<>>
<1>1. Deserialize(Serialize(key)) = FromHashed(Deref(key))
  BY DEF Deserialize, Serialize, FromHashed, FromHashedChecked
<1>2. Deserialize(Serialize(key)) = [buf |-> key.buf, len |-> key.len, pub_key |-> <<>>]
  BY <1>1, FromHashedDeref
<1> QED
  BY <1>2 DEF Eq, Deref

\* Decoding takes back what encoding has done to a sequence of bytes.
LEMMA HexRoundTrip ==
    ASSUME NEW bytes \in Seq(Byte)
    PROVE  /\ HexEncode(bytes) \in Seq(0..15)
           /\ Len(HexEncode(bytes)) = 2 * Len(bytes)
           /\ IsHex(HexEncode(bytes))
           /\ HexDecode(HexEncode(bytes)) = bytes
<1> DEFINE n == Len(bytes)
           text == HexEncode(bytes)
<1>1. n \in Nat /\ \A i \in 1..n : bytes[i] \in Byte
  OBVIOUS
<1>2. ASSUME NEW b \in Byte
      PROVE  b \div 16 \in 0..15 /\ (b % 16) \in 0..15 /\ 16 * (b \div 16) + (b % 16) = b
  <2>1. b \in Nat /\ b <= 255
    BY DEF Byte
  <2>2. b \div 16 \in 0..15
    BY <2>1
  <2>3. (b % 16) \in 0..15
    BY <2>1
  <2>4. 16 * (b \div 16) + (b % 16) = b
    BY <2>1
  <2> QED
    BY <2>2, <2>3, <2>4
<1>3. ASSUME NEW i \in 1..(2 * n)
      PROVE  /\ i % 2 = 1 => (i + 1) \div 2 \in 1..n
             /\ i % 2 # 1 => i \div 2 \in 1..n
  <2> HIDE DEF n
  <2> QED
    BY <1>1
<1>4. ASSUME NEW i \in 1..(2 * n)
      PROVE  (IF i % 2 = 1 THEN bytes[(i + 1) \div 2] \div 16 ELSE bytes[i \div 2] % 16) \in 0..15
  <2>1. CASE i % 2 = 1
    <3>1. bytes[(i + 1) \div 2] \in Byte
      BY <1>1, <1>3, <2>1
    <3> QED
      BY <1>2, <2>1, <3>1
  <2>2. CASE i % 2 # 1
    <3>1. bytes[i \div 2] \in Byte
      BY <1>1, <1>3, <2>2
    <3> QED
      BY <1>2, <2>2, <3>1
  <2> QED
    BY <2>1, <2>2
<1>5. 2 * n \in Nat
  BY <1>1
<1>6. text \in [1..(2 * n) -> 0..15]
  BY <1>4 DEF HexEncode
<1>7. text \in Seq(0..15) /\ Len(text) = 2 * n
  <2> HIDE DEF text, n
  <2> QED
    BY <1>5, <1>6, SMTT(20)
<1>8. (2 * n) % 2 = 0 /\ (2 * n) \div 2 = n
  <2> HIDE DEF n
  <2> QED
    BY <1>1
<1>9. IsHex(text)
  <2>1. \A i \in 1..(2 * n) : text[i] \in 0..15
    BY <1>6
  <2> HIDE DEF text, n
  <2> QED
    BY <1>7, <1>8, <2>1 DEF IsHex
<1>10. ASSUME NEW i \in 1..n
       PROVE  16 * text[2 * i - 1] + text[2 * i] = bytes[i]
  <2>1. /\ 2 * i - 1 \in 1..(2 * n) /\ (2 * i - 1) % 2 = 1 /\ ((2 * i - 1) + 1) \div 2 = i
        /\ 2 * i \in 1..(2 * n) /\ (2 * i) % 2 # 1 /\ (2 * i) \div 2 = i
    <3> HIDE DEF n
    <3> QED
      BY <1>1
  <2>2. text[2 * i - 1] = bytes[i] \div 16
    BY <2>1 DEF HexEncode
  <2>3. text[2 * i] = bytes[i] % 16
    BY <2>1 DEF HexEncode
  <2>4. bytes[i] \in Byte
    BY <1>1
  <2>5. 16 * (bytes[i] \div 16) + (bytes[i] % 16) = bytes[i]
    BY <1>2, <2>4
  <2> QED
    BY <2>2, <2>3, <2>5
<1>11. HexDecode(text) = [i \in 1..n |-> 16 * text[2 * i - 1] + text[2 * i]]
  <2> HIDE DEF text, n
  <2> QED
    BY <1>7, <1>8 DEF HexDecode
<1>12. HexDecode(text) = [i \in 1..n |-> bytes[i]]
  BY <1>10, <1>11
<1>13. bytes = [i \in 1..n |-> bytes[i]]
  OBVIOUS
<1> QED
  BY <1>7, <1>9, <1>12, <1>13

\* The identifier that a responder announces in two labels (mdns.rs,
\* MdnsResponderContext::create) is the one that Discovery makes of them
\* (DiscoveryResult::try_from), and no label of a sha256 identifier is longer
\* than the 63 digits that a label may have.
THEOREM AnnouncedPeerIsFound ==
    ASSUME NEW Der, NEW key \in PubKeyHash(Der)
    PROVE  /\ Eq(MdnsPeer(MdnsLabels(key)), key)
           /\ key.len = 32 => Len(MdnsLabels(key)[1]) <= 63 /\ Len(MdnsLabels(key)[2]) <= 63
<1> DEFINE text == Display(key)
           n == Len(text)
           half == n \div 2
           front == [i \in 1..half |-> text[i]]
           back == [i \in 1..(n - half) |-> text[half + i]]
<1>1. Deref(key) \in Seq(Byte) /\ Len(Deref(key)) = key.len
  BY DerefIsHash DEF Hashes
<1>2. /\ text \in Seq(0..15)
      /\ n = 2 * key.len
      /\ IsHex(text)
      /\ HexDecode(text) = Deref(key)
  BY <1>1, HexRoundTrip DEF Display
<1>3. n \in Nat /\ half \in Nat /\ half <= n /\ n - half \in Nat /\ half + (n - half) = n
  <2>1. n \in Nat
    BY <1>2
  <2> HIDE DEF n
  <2> QED
    BY <2>1
<1>0. \A i \in 1..n : text[i] \in 0..15
  <2> HIDE DEF text
  <2> QED
    BY <1>2, SMTT(20)
<1>4. front \in Seq(0..15) /\ Len(front) = half
  <2>1. \A i \in 1..half : text[i] \in 0..15
    <3> HIDE DEF text, n, half
    <3> QED
      BY <1>0, <1>3
  <2> HIDE DEF half, text
  <2> QED
    BY <1>3, <2>1
<1>5. back \in Seq(0..15) /\ Len(back) = n - half
  <2>1. \A i \in 1..(n - half) : half + i \in 1..n
    <3> HIDE DEF n, half
    <3> QED
      BY <1>3
  <2>2. \A i \in 1..(n - half) : text[half + i] \in 0..15
    <3> HIDE DEF text, n, half
    <3> QED
      BY <1>0, <2>1
  <2> HIDE DEF n, half, text
  <2> QED
    BY <1>3, <2>2
<1>6. MdnsLabels(key) = <<front, back>>
  BY DEF MdnsLabels
<1>7. front \o back = text
  <2>1. ASSUME NEW i \in 1..n
        PROVE  (front \o back)[i] = text[i]
    <3>1. CASE i <= half
      <4>1. i \in 1..half
        BY <1>3, <3>1
      <4>2. front[i] = text[i]
        BY <4>1
      <4> HIDE DEF front, back, text, half
      <4> QED
        BY <1>3, <1>4, <1>5, <4>1, <4>2
    <3>2. CASE ~(i <= half)
      <4>1. i - half \in 1..(n - half) /\ half + (i - half) = i
        <5> HIDE DEF n, half
        <5> QED
          BY <1>3, <3>2
      <4>2. back[i - half] = text[half + (i - half)]
        BY <4>1
      <4> HIDE DEF front, back, text, half, n
      <4> QED
        BY <1>3, <1>4, <1>5, <3>2, <4>1, <4>2
    <3> QED
      BY <3>1, <3>2
  <2>2. front \o back \in Seq(0..15) /\ Len(front \o back) = n
    <3> HIDE DEF front, back, text, half, n
    <3> QED
      BY <1>3, <1>4, <1>5, SMTT(20)
  <2>3. text \in Seq(0..15) /\ Len(text) = n
    BY <1>2
  <2> HIDE DEF front, back, text, n
  <2> QED
    BY <2>1, <2>2, <2>3
<1>8. MdnsPeer(MdnsLabels(key)) = FromHashed(Deref(key))
  <2>1. MdnsPeer(<<front, back>>) = FromHashedHex(front \o back)
    <3> HIDE DEF front, back
    <3> QED
      BY DEF MdnsPeer
  <2> HIDE DEF front, back, text
  <2> QED
    BY <1>2, <1>6, <1>7, <2>1 DEF FromHashedHex
<1>9. Eq(MdnsPeer(MdnsLabels(key)), key)
  <2>1. MdnsPeer(MdnsLabels(key)) = [buf |-> key.buf, len |-> key.len, pub_key |-> <<>>]
    BY <1>8, FromHashedDeref
  <2> QED
    BY <2>1 DEF Eq, Deref
<1>10. ASSUME key.len = 32
       PROVE  Len(MdnsLabels(key)[1]) <= 63 /\ Len(MdnsLabels(key)[2]) <= 63
  <2>1. n = 64 /\ half = 32
    <3>1. n = 64
      BY <1>2, <1>10
    <3> QED
      BY <3>1
  <2>2. Len(MdnsLabels(key)[1]) = half /\ Len(MdnsLabels(key)[2]) = n - half
    <3> HIDE DEF front, back, n, half
    <3> QED
      BY <1>4, <1>5, <1>6
  <2> HIDE DEF n, half
  <2> QED
    BY <2>1, <2>2
<1> QED
  BY <1>9, <1>10
=============================================================================
