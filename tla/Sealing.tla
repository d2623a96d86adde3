------------------------------ MODULE Sealing ------------------------------
(***************************************************************************)
(* Signed and encrypted messages: Message::signed, Message::encrypted,     *)
(* SignedMessage::verify and SignedMessage::decrypt of                     *)
(* src/store/messages.rs.                                                  *)
(*                                                                         *)
(* Cryptography is symbolic.  A point of Curve25519 is a base multiplied   *)
(* by secrets, in any order; the bases are the generator and the points    *)
(* that hashing public keys gives, of which nobody knows a secret.  A      *)
(* cipher text opens under the key and the nonce that made it, and a       *)
(* signature is known by its key and by the bytes it is over.              *)
(***************************************************************************)
EXTENDS Naturals

CONSTANTS
  Keypair,    \* Ed25519 key pairs, also their public keys
  Content,    \* the contents of messages
  MaxNonce    \* bound on the messages that are encrypted

VARIABLES
  message,    \* the signed messages that were made or opened: each with the
              \* content it was made from, the key pair it was encrypted for,
              \* and whether it has been through that one's decrypt
  nonces      \* how many ephemeral secrets and nonces were drawn

vars == <<message, nonces>>

Nobody == "nobody"

\* Points and secrets.
Hashed(k) == [secret |-> "hashed", of |-> k]        \* Sha256 of a secret key
Ephemeral(i) == [secret |-> "ephemeral", of |-> i]

PublicOf(s) == [base |-> "generator", of |-> 0, times |-> {s}]
Ed25519PubToX25519(k) == [base |-> "hashed", of |-> k, times |-> {}]
DiffieHellman(s, p) == [p EXCEPT !.times = @ \cup {s}]

\* The bytes of a message field: the JSON of a Message, a cipher text or what
\* base64 makes of it.
Json(c) == [form |-> "json", content |-> c, key |-> <<>>, nonce |-> 0]
Encrypt(c, key, i) == [form |-> "cipher", content |-> c, key |-> key, nonce |-> i]
Encode(b) == [b EXCEPT !.form = "base64"]
Decode(b) == [b EXCEPT !.form = "cipher"]

\* No EncryptionInfo; nonces count from 1.
NoEncryption == [ephemeral_public |-> PublicOf(Ephemeral(0)), nonce |-> 0]
-----------------------------------------------------------------------------
Signed(c, k) ==
  [message |-> Json(c), encryption |-> NoEncryption,
   sign |-> [by |-> k, over |-> Json(c)], public_key |-> k]

\* encrypted: the signature is over the cipher text, which is then encoded.
Encrypted(c, k, to, i) ==
  LET shared == Ed25519PubToX25519(to)
      key == <<DiffieHellman(Ephemeral(i), shared), DiffieHellman(Hashed(k), shared)>>
      data == Encrypt(c, key, i)
  IN [message |-> Encode(data),
      encryption |-> [ephemeral_public |-> PublicOf(Ephemeral(i)), nonce |-> i],
      sign |-> [by |-> k, over |-> data], public_key |-> k]

IsEncrypted(m) == m.encryption # NoEncryption

\* What verify checks the signature against.
SignedBytes(m) ==
  IF IsEncrypted(m) /\ m.message.form = "base64" THEN Decode(m.message) ELSE m.message

Verify(m) == m.sign = [by |-> m.public_key, over |-> SignedBytes(m)]

Opens(data, key, i) == data.form = "cipher" /\ data.key = key /\ data.nonce = i

\* decrypt: the message as it is if it does not open.  What it tries to open
\* are the bytes of the text, and its own half of the key agreement.
Decrypt(m, k) ==
  LET key == <<DiffieHellman(Hashed(k), m.encryption.ephemeral_public),
               DiffieHellman(Hashed(k), Ed25519PubToX25519(m.public_key))>>
  IN IF IsEncrypted(m) /\ Opens(m.message, key, m.encryption.nonce)
     THEN [m EXCEPT !.message = Json(m.message.content), !.encryption = NoEncryption]
     ELSE m
-----------------------------------------------------------------------------
Init == message = {} /\ nonces = 0

Sign(k, c) ==
  /\ message' = message \cup
       {[made |-> Signed(c, k), from |-> c, for |-> Nobody, opened |-> FALSE]}
  /\ UNCHANGED nonces

Seal(k, to, c) ==
  /\ nonces < MaxNonce
  /\ nonces' = nonces + 1
  /\ message' = message \cup
       {[made |-> Encrypted(c, k, to, nonces'), from |-> c, for |-> to, opened |-> FALSE]}

\* Only what verifies is opened.
Open(m, k) ==
  /\ m \in message /\ ~m.opened /\ Verify(m.made)
  /\ message' = message \cup {[m EXCEPT !.made = Decrypt(@, k), !.opened = (k = m.for)]}
  /\ UNCHANGED nonces

Next ==
  \/ \E k \in Keypair, c \in Content : Sign(k, c)
  \/ \E k, to \in Keypair, c \in Content : Seal(k, to, c)
  \/ \E m \in message, k \in Keypair : Open(m, k)

Spec == Init /\ [][Next]_vars
-----------------------------------------------------------------------------
\* test_message_encryption (messages.rs:291-295): the key pair that a message
\* was encrypted for decrypts it to what was encrypted.
ReceiverOpens == \A m \in message : m.opened => m.made.message = Json(m.from)
=============================================================================
