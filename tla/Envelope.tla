------------------------------- MODULE Envelope -------------------------------
(***************************************************************************)
(* The sealed payload (crypto.py, seal.js) and the configuration of its    *)
(* keys (config.py): what a sealer writes, what the collector opens, which *)
(* configurations start.                                                   *)
(*                                                                         *)
(* A key id stands for its key pair, and X25519, HKDF and AES-GCM are      *)
(* ideal: a ciphertext is the record of what it was made from, and         *)
(* decrypts exactly under the key, the nonce and the header it was made    *)
(* with.  A body is the event batch it holds; sizes are given per batch.   *)
(***************************************************************************)
EXTENDS Integers, Sequences

CONSTANTS
  Kids,          \* key ids: non-empty, short, of [A-Za-z0-9._-]
  Batches,       \* POST bodies of the tracker
  Size, Packed,  \* the size of a batch, and of its gzip
  MaxEnvelope,   \* encryption.max_envelope_bytes
  MaxPlaintext,  \* encryption.max_plaintext_bytes
  MaxRatio,      \* MAX_ENCRYPTED_AMPLIFICATION
  MaxKeyFile,    \* MAX_KEY_FILE_BYTES
  Materials      \* what an operator may give as a private key

\* One ephemeral key and nonce of the sealer's choice, and another value.
Fresh == "fresh"
Other == "other"
LowOrder == "low order"   \* a point that makes the shared secret zero
BadId == "bad id"         \* empty, too long or of other characters

\* EncryptionConfig.validate_amplification
LimitsLoad == MaxPlaintext <= MaxRatio * MaxEnvelope

ASSUME EnvelopeAssumption ==
  /\ BadId \notin Kids /\ Other \notin Batches
  /\ Size \in [Batches -> Nat]
  /\ Packed \in [Batches -> Nat]
  /\ MaxEnvelope \in Nat \ {0}
  /\ MaxPlaintext \in Nat \ {0}
  /\ MaxRatio \in Nat
  /\ LimitsLoad

-----------------------------------------------------------------------------
(***************************************************************************)
(* The wire format: magic, version, flags, key id and ephemeral key are    *)
(* the header; the nonce and the ciphertext follow.                        *)
(***************************************************************************)

GzipFlag == 1

Header(kid, packed) ==
  [magic |-> "EVN1", version |-> 1, flags |-> IF packed THEN GzipFlag ELSE 0,
   kid |-> kid, epk |-> Fresh]

\* HKDF over the shared secret, the ephemeral key and the recipient's key.
DeriveKey(kid, epk) == <<kid, epk>>

Seal(kid, batch, packed) ==
  LET header == Header(kid, packed) IN
  [whole |-> TRUE,
   header |-> header,
   nonce |-> Fresh,
   ct |-> [key |-> DeriveKey(kid, header.epk), nonce |-> Fresh, aad |-> header,
           body |-> batch, packed |-> packed]]

\* An envelope that was cut, or has another value in one of its parts.
Altered(wire) ==
  LET withHeader(h) == [wire EXCEPT !.header = h] IN
  {[wire EXCEPT !.whole = FALSE],
   [wire EXCEPT !.nonce = Other],
   [wire EXCEPT !.ct.body = Other],
   withHeader([wire.header EXCEPT !.magic = Other]),
   withHeader([wire.header EXCEPT !.version = 2]),
   withHeader([wire.header EXCEPT !.flags = 2]),
   withHeader([wire.header EXCEPT !.flags = GzipFlag - @]),
   withHeader([wire.header EXCEPT !.kid = BadId]),
   withHeader([wire.header EXCEPT !.epk = Other]),
   withHeader([wire.header EXCEPT !.epk = LowOrder])}
  \union {withHeader([wire.header EXCEPT !.kid = k]) : k \in Kids \ {wire.header.kid}}

\* parse_envelope
WellFormed(wire) ==
  /\ wire.whole
  /\ wire.header.magic = "EVN1"
  /\ wire.header.version = 1
  /\ wire.header.flags \in {0, GzipFlag}
  /\ wire.header.kid \in Kids

\* The AES-GCM tag: the same key, nonce and header, and no bit changed.
Authentic(wire) ==
  /\ wire.header.epk # LowOrder
  /\ wire.ct.key = DeriveKey(wire.header.kid, wire.header.epk)
  /\ wire.ct.nonce = wire.nonce
  /\ wire.ct.aad = wire.header
  /\ wire.ct.body \in Batches

\* Mutation of WithinCeiling: _decompress without its output ceiling.
WithinCeilingPacked(wire) ==
  wire.header.flags = GzipFlag \/ Size[wire.ct.body] <= MaxPlaintext

\* The ceiling on the plaintext, after a gunzip or as it was sealed.
WithinCeiling(wire) == Size[wire.ct.body] <= MaxPlaintext

\* open_envelope returns the plaintext; the reason why it does not is only
\* logged, so the order of its checks is left out.
Opens(keys, wire) ==
  /\ WellFormed(wire)
  /\ wire.header.kid \in keys
  /\ Authentic(wire)
  /\ WithinCeiling(wire)
  /\ (wire.header.flags = GzipFlag) = wire.ct.packed

-----------------------------------------------------------------------------
(***************************************************************************)
(* The keys an operator configures.  A material says how the key is given  *)
(* (in the setting, in a file, both or neither), in which form, of which   *)
(* curve, and for a file its size (-1 when it cannot be read).             *)
(***************************************************************************)

\* Exactly one of private_key and private_key_file is set.
OneSource(m) == \E s \in {"setting", "file"} : m.given = {s}

Readable(m) == m.given = {"file"} => m.size \in 0..MaxKeyFile

\* parse_private_key: a setting is text; a file may hold bytes as well.  32
\* bytes are always a key; a PEM or DER container names its curve.
Parses(m) ==
  /\ m.form \in {"pem", "hex", "base64"} \/ (m.given = {"file"} /\ m.form \in {"der", "raw"})
  /\ m.form \in {"pem", "der"} => m.curve = "X25519"

Usable(m) == OneSource(m) /\ Readable(m) /\ Parses(m)

EnabledIn(config) == {i \in DOMAIN config : config[i].enabled}

KidsOf(config) == {config[i].kid : i \in EnabledIn(config)}

\* The settings load, and Keyring.from_config builds a keyring from them.
Builds(config) ==
  /\ \A i \in DOMAIN config : OneSource(config[i].material)
  /\ EnabledIn(config) # {}
  /\ \A i \in EnabledIn(config) : Usable(config[i].material)
  /\ \A i, j \in EnabledIn(config) : config[i].kid = config[j].kid => i = j

FirstEnabled(config) ==
  CHOOSE i \in EnabledIn(config) : \A j \in EnabledIn(config) : i <= j

\* Mutation of PrimaryOf: the key added last instead of the first.
PrimaryOfLast(config) ==
  config[CHOOSE i \in EnabledIn(config) : \A j \in EnabledIn(config) : j <= i].kid

\* The key new scripts seal to: the first enabled key of the configuration.
PrimaryOf(config) == config[FirstEnabled(config)].kid
=============================================================================
