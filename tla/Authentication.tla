--------------------------- MODULE Authentication ---------------------------
(***************************************************************************)
(* What the encryptors of a client and of its session make, send and check *)
(* before the first request: the hash of the authentication message, the   *)
(* signatures with the keys that verify them, the keys of the agreement    *)
(* and the form they travel in, and the access to an encryptor             *)
(* (CryptoSodium, CryptoPlPl, Utility).                                    *)
(*                                                                         *)
(* An encryptor is its side and its library.  A pair of keys is known by   *)
(* the public one.                                                         *)
(***************************************************************************)
EXTENDS Header, SequencesExt

CONSTANTS
  SignBytes,  \* crypto_sign_BYTES
  RsaBytes,   \* RSA_KEY_SIZE >> 3
  DhBytes     \* PublicKeyLength of the curve

(* The sizes of what is sent have the digits there are in a header.  The   *)
(* last one is not larger than the one before, which it is taken for.      *)
ASSUME AuthenticationAssumption ==
  /\ {SignBytes, RsaBytes, DhBytes} \subseteq Nat \ {0}
  /\ \A n \in {SignBytes + 1, RsaBytes + 2, DhBytes, 4} : n < Limit
  /\ DhBytes <= RsaBytes + 2

Before(s, n) == SubSeq(s, 1, n)
After(s, n) == SubSeq(s, n + 1, Len(s))

(* The message that is signed is the time of the build.                    *)
AuthenticationMessage(build) == Bytes("time", build, 1)
HashMessage(message) == Bytes("blake2b", message, 1)
Sha256Hash(message) == Bytes("sha256", message, 1)

(* A pair for signatures and one for the agreement, of each library.       *)
SignKey(o) == Bytes("sign key", o, 1)
RsaKey(o) == Bytes("rsa key", o, 1)
KxKey(o) == Bytes("kx key", o, 1)
DhKey(o) == Bytes("dh key", o, DhBytes)

Signature(hash, key, n) == Bytes("signature", <<hash, key>>, n)

(* Four characters for every three bytes, also for the last ones.          *)
Base64Encode(s) ==
  LET group(g) == SubSeq(s, 3 * g - 2, IF 3 * g <= Len(s) THEN 3 * g ELSE Len(s))
  IN  [k \in 1 .. 4 * ((Len(s) + 2) \div 3) |->
         <<"base64", group((k + 3) \div 4), k % 4>>]

IsBase64(s) == \A k \in DOMAIN s : s[k][1] = "base64" /\ s[k][3] = k % 4

(* Every group but the last has three bytes.                               *)
Base64Decode(s) ==
  LET group(g) == s[4 * g][2]
      groups == Len(s) \div 4
  IN  IF groups = 0 THEN <<>>
      ELSE [k \in 1 .. 3 * (groups - 1) + Len(group(groups)) |->
              group((k + 2) \div 3)[((k - 1) % 3) + 1]]

(* DEREncode of a public key, which Load takes apart.                      *)
EncodeRsaPublicKey(key) == Bytes("der", key, Len(key) + 1)
DecodeRsaPublicKey(s) == s[1][2]
IsRsaPublicKey(s) == s # <<>> /\ s[1][1] = "der" /\ s = EncodeRsaPublicKey(s[1][2])

-----------------------------------------------------------------------------
(* The client signs when its encryptors are made; the key that verifies    *)
(* goes behind the signature.                                              *)
SodiumSignatureWithKey(o, build) ==
  Signature(HashMessage(AuthenticationMessage(build)), SignKey(o), SignBytes) \o SignKey(o)
SodiumEncodedKey(o) == Base64Encode(KxKey(o))

SignMessage(o, build) ==
  Signature(Sha256Hash(AuthenticationMessage(build)), RsaKey(o), RsaBytes)
    \o EncodeRsaPublicKey(RsaKey(o))

(* The session takes them apart and verifies.                              *)
SodiumVerified(signatureWithKey, encodedKey, build) ==
  /\ IsBase64(encodedKey)
  /\ Before(signatureWithKey, SignBytes) =
       Signature(HashMessage(AuthenticationMessage(build)),
                 After(signatureWithKey, SignBytes), SignBytes)

PlPlVerified(signatureWithKey, build) ==
  /\ IsRsaPublicKey(After(signatureWithKey, RsaBytes))
  /\ Before(signatureWithKey, RsaBytes) =
       Signature(Sha256Hash(AuthenticationMessage(build)),
                 DecodeRsaPublicKey(After(signatureWithKey, RsaBytes)), RsaBytes)

(* The keys of the direction from the client to the server; Agree is the   *)
(* same for both.                                                          *)
ServerSessionKey(o, encodedPeerKey) == <<"kx", <<Base64Decode(encodedPeerKey), KxKey(o)>>>>
ClientSessionKey(o, encodedPeerKey) == <<"kx", <<KxKey(o), Base64Decode(encodedPeerKey)>>>>
AgreedValue(o, peerKey) == <<"dh", {DhKey(o), peerKey}>>

-----------------------------------------------------------------------------
(* A program notes the screen it starts on as its own, and asks for that.  *)
Screen == "screen"
Noted(program, name) == IF program = name THEN Screen ELSE ""
ServerTerminal(program) == Noted(program, "server")
ClientTerminal(program) == Noted(program, "client")
TestbinTerminal(program) == Noted(program, "testbin")

CheckAccess(program, signatureSent, verifiedSignature) ==
  IF Screen = ServerTerminal(program) THEN verifiedSignature
  ELSE IF Screen = ClientTerminal(program) THEN signatureSent
  ELSE Screen = TestbinTerminal(program)

=============================================================================
