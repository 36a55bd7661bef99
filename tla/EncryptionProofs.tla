-------------------------- MODULE EncryptionProofs --------------------------
(***************************************************************************)
(* The safety of KeyHandler and of Encryption, for any number of threads   *)
(* and of encryptors in the first and for all sizes, builds and options in *)
(* the second.                                                             *)
(*                                                                         *)
(* The mutex is what the key handler rests on: KeyInv says what an         *)
(* encryptor looks like at each line of the thread that holds its mutex,   *)
(* and that it is hidden when nobody does.  The encryption of a            *)
(* conversation implements the key handler: a step of the program is one   *)
(* of KeyHandler or leaves the key handlers alone, since no encryptor is   *)
(* agreed twice (AgreedInv).                                               *)
(*                                                                         *)
(* The handshake rests on what a reader makes of a message: the fields are *)
(* where their sizes in the header say (FieldsRead), and base64 gives back *)
(* what it was given (Base64Inverse).  HandshakeInv follows the message on *)
(* the way, the fields that were read and the secrets made of them.        *)
(*                                                                         *)
(* In the conversation there is one request under way, in one place        *)
(* (PlaceInv); Encrypts and Decrypts say which layers it has there and     *)
(* which encryptors are left.  The layer an encryptor puts on or takes off *)
(* is the right one because the copy of the key is right (KeyInv) and both *)
(* sides have the secret (HandshakeInv).                                   *)
(***************************************************************************)
EXTENDS Encryption, SequenceTheorems, TLAPS

Hidden(o) == hidden[o] /\ key[o] = obfuscator[o] /\ obfuscator[o] # {}
Recovered(o) == ~hidden[o] /\ key[o] = {} /\ obfuscator[o] = {}

(* The owner of a mutex is the thread that is between the two ends of its  *)
(* lock_guard.                                                             *)
MutexInv == \A t \in Thread, o \in Object : mutex[o] = t <=> Holds(t, o)

(* An encryptor whose mutex is free is hidden.                             *)
RestInv == \A o \in Object : agreed[o] /\ mutex[o] = Nobody => Hidden(o)

(* What a thread knows of its encryptor at each line.                      *)
LineInv ==
  \A t \in Thread :
    /\ pc[t] # "idle" => agreed[using[t]]
    /\ pc[t] = "recover" => Hidden(using[t])
    /\ pc[t] = "wipe" => key[using[t]] = {}
    /\ pc[t] \in {"copy", "hide"} => Recovered(using[t])
    /\ pc[t] = "mark" =>
         key[using[t]] = obfuscator[using[t]] /\ obfuscator[using[t]] # {}
    /\ pc[t] \in {"hide", "mark", "cipher"} => copy[t] = {}

KeyInv == KeyTypeOK /\ MutexInv /\ RestInv /\ LineInv

(* There is a block to choose, whatever the key is.                        *)
LEMMA RandomBlock ==
  ASSUME NEW o \in Object
  PROVE  Random(o) \in Obfuscator
<1>1. \E r \in Obfuscator : r \notin key[o] \/ Obfuscator \subseteq key[o]
  BY KeyAssumption
<1> QED BY <1>1 DEF Random

(* Xor with the same block twice gives the key back.                       *)
LEMMA XorFacts ==
  /\ \A a : Xor(a, a) = {}
  /\ \A a : Xor({}, a) = a
BY DEF Xor

LEMMA KeyInitial == KeyInit => KeyInv
BY KeyAssumption
   DEF KeyInit, KeyInv, KeyTypeOK, MutexInv, RestInv, LineInv, Holds, Hidden, Recovered

(* The agreement touches encryptors that no thread uses yet.               *)
LEMMA AgreeStep ==
  ASSUME KeyInv, NEW S \in SUBSET Object, \A o \in S : ~agreed[o], Agree(S)
  PROVE  KeyInv'
<1>1. \A o \in S : obfuscator'[o] = {Random(o)} /\ key'[o] = obfuscator'[o] /\ hidden'[o]
  BY XorFacts DEF Agree, KeyInv, KeyTypeOK
<1>2. \A o \in Object \ S :
        key'[o] = key[o] /\ obfuscator'[o] = obfuscator[o] /\ hidden'[o] = hidden[o]
          /\ agreed'[o] = agreed[o]
  BY DEF Agree, KeyInv, KeyTypeOK
<1>3. KeyTypeOK'
  BY RandomBlock, XorFacts DEF Agree, KeyInv, KeyTypeOK
<1>4. MutexInv'
  BY DEF Agree, KeyInv, MutexInv, Holds
<1>5. RestInv'
  BY <1>1, <1>2 DEF Agree, KeyInv, RestInv, Hidden
<1>6. \A t \in Thread : pc[t] # "idle" => using[t] \in Object \ S
  BY DEF KeyInv, LineInv, KeyTypeOK
<1>7. LineInv'
  BY <1>2, <1>6 DEF Agree, KeyInv, LineInv, Hidden, Recovered, KeyTypeOK
<1> QED BY <1>3, <1>4, <1>5, <1>7 DEF KeyInv

LEMMA BeginStep ==
  ASSUME KeyInv, NEW t \in Thread, NEW o \in Object, Begin(t, o)
  PROVE  KeyInv'
<1>1. KeyTypeOK'
  BY DEF Begin, KeyInv, KeyTypeOK
<1>2. MutexInv'
  BY DEF Begin, KeyInv, KeyTypeOK, MutexInv, Holds
<1>3. RestInv'
  BY DEF Begin, KeyInv, RestInv, Hidden
<1>4. LineInv'
  BY DEF Begin, KeyInv, KeyTypeOK, LineInv, Hidden, Recovered
<1> QED BY <1>1, <1>2, <1>3, <1>4 DEF KeyInv

(* A step inside setAESKey changes the encryptor of its thread only, and   *)
(* no other thread is inside setAESKey of it.                              *)
LEMMA SetAESKeyStep ==
  ASSUME KeyInv, NEW t \in Thread, SetAESKey(t)
  PROVE  KeyInv'
<1> DEFINE o == using[t]
<1> USE DEF KeyInv, KeyTypeOK, Goes
<1>0. o \in Object /\ agreed[o] /\ t # Nobody
  BY KeyAssumption DEF LineInv, SetAESKey, Lock, RecoverKey, Wipe, Copy, HideKey, Mark
<1>1. CASE Lock(t)
  <2>1. KeyTypeOK'
    BY <1>1 DEF Lock
  <2>2. MutexInv'
    BY <1>0, <1>1, KeyAssumption DEF Lock, Free, MutexInv, Holds
  <2>3. RestInv'
    BY <1>0, <1>1 DEF Lock, RestInv, Hidden
  <2>4. LineInv'
    BY <1>0, <1>1 DEF Lock, Free, RestInv, LineInv, Hidden, Recovered
  <2> QED BY <2>1, <2>2, <2>3, <2>4
<1>2. \A u \in Thread : pc[t] # "lock" /\ u # t => ~Holds(u, o)
  BY <1>0 DEF SetAESKey, Lock, RecoverKey, Wipe, Copy, HideKey, Mark, MutexInv, Holds
<1>3. CASE RecoverKey(t)
  <2>1. KeyTypeOK'
    BY <1>3 DEF RecoverKey, Xor
  <2>2. MutexInv'
    BY <1>3 DEF RecoverKey, MutexInv, Holds
  <2>3. mutex[o] = t /\ Hidden(o)
    BY <1>0, <1>3 DEF RecoverKey, MutexInv, Holds, LineInv
  <2>4. RestInv'
    BY <1>0, <1>3, <2>3 DEF RecoverKey, RestInv, Hidden
  <2>5. key'[o] = {}
    BY <1>0, <1>3, <2>3, XorFacts DEF RecoverKey, Hidden
  <2>6. LineInv'
    BY <1>0, <1>2, <1>3, <2>5 DEF RecoverKey, LineInv, Hidden, Recovered, Holds
  <2> QED BY <2>1, <2>2, <2>4, <2>6
<1>4. CASE Wipe(t)
  <2>1. KeyTypeOK'
    BY <1>4 DEF Wipe
  <2>2. MutexInv'
    BY <1>4 DEF Wipe, MutexInv, Holds
  <2>3. mutex[o] = t
    BY <1>0, <1>4 DEF Wipe, MutexInv, Holds
  <2>4. RestInv'
    BY <1>0, <1>4, <2>3 DEF Wipe, RestInv, Hidden
  <2>5. LineInv'
    BY <1>0, <1>2, <1>4 DEF Wipe, LineInv, Hidden, Recovered, Holds
  <2> QED BY <2>1, <2>2, <2>4, <2>5
<1>5. CASE Copy(t)
  <2>1. KeyTypeOK'
    BY <1>5 DEF Copy
  <2>2. MutexInv' /\ RestInv'
    BY <1>5 DEF Copy, MutexInv, Holds, RestInv, Hidden
  <2>3. LineInv'
    BY <1>0, <1>5 DEF Copy, LineInv, Hidden, Recovered
  <2> QED BY <2>1, <2>2, <2>3
<1>6. CASE HideKey(t)
  <2>1. Random(o) \in Obfuscator
    BY <1>0, RandomBlock
  <2>2. mutex[o] = t /\ Recovered(o) /\ copy[t] = {}
    BY <1>0, <1>6 DEF HideKey, MutexInv, Holds, LineInv
  <2>3. obfuscator'[o] = {Random(o)} /\ key'[o] = obfuscator'[o]
    BY <1>0, <1>6, <2>2, XorFacts DEF HideKey, Exposed, Recovered
  <2>4. \A p \in Object \ {o} : key'[p] = key[p] /\ obfuscator'[p] = obfuscator[p]
    BY <1>6 DEF HideKey
  <2>5. KeyTypeOK'
    <3>1. obfuscator' \in [Object -> SUBSET Obfuscator]
      BY <1>0, <1>6, <2>1 DEF HideKey
    <3>2. key' \in [Object -> SUBSET Obfuscator]
      BY <1>0, <1>6, <2>1, <2>3, <2>4 DEF HideKey
    <3> QED BY <1>6, <3>1, <3>2 DEF HideKey
  <2>6. MutexInv'
    BY <1>6 DEF HideKey, MutexInv, Holds
  <2>7. RestInv'
    BY <1>0, <1>6, <2>2, <2>4, KeyAssumption DEF HideKey, RestInv, Hidden
  <2>8. LineInv'
    BY <1>0, <1>2, <1>6, <2>2, <2>3, <2>4 DEF HideKey, LineInv, Hidden, Recovered, Holds
  <2> QED BY <2>5, <2>6, <2>7, <2>8
<1>7. CASE Mark(t)
  <2>1. KeyTypeOK'
    BY <1>7 DEF Mark, Released
  <2>2. MutexInv'
    BY <1>0, <1>2, <1>7, KeyAssumption DEF Mark, Released, MutexInv, Holds
  <2>3. RestInv'
    BY <1>0, <1>7 DEF Mark, Released, RestInv, LineInv, Hidden
  <2>4. LineInv'
    BY <1>0, <1>2, <1>7 DEF Mark, LineInv, Hidden, Recovered, Holds
  <2> QED BY <2>1, <2>2, <2>3, <2>4
<1> QED BY <1>1, <1>3, <1>4, <1>5, <1>6, <1>7 DEF SetAESKey

LEMMA CipherStep ==
  ASSUME KeyInv, NEW t \in Thread, Cipher(t)
  PROVE  KeyInv'
BY DEF Cipher, Goes, KeyInv, KeyTypeOK, MutexInv, Holds, RestInv, LineInv, Hidden, Recovered

LEMMA KeyInductive == KeyInv /\ [KeyNext]_keyVars => KeyInv'
<1> SUFFICES ASSUME KeyInv, [KeyNext]_keyVars PROVE KeyInv'
  OBVIOUS
<1>1. CASE UNCHANGED keyVars
  BY <1>1 DEF keyVars, KeyInv, KeyTypeOK, MutexInv, Holds, RestInv, LineInv, Hidden, Recovered
<1>2. ASSUME NEW S \in SUBSET Object, \A o \in S : ~agreed[o], Agree(S)
      PROVE  KeyInv'
  BY <1>2, AgreeStep
<1>3. ASSUME NEW t \in Thread, NEW o \in Object, Begin(t, o)
      PROVE  KeyInv'
  BY <1>3, BeginStep
<1>4. ASSUME NEW t \in Thread, SetAESKey(t)
      PROVE  KeyInv'
  BY <1>4, SetAESKeyStep
<1>5. ASSUME NEW t \in Thread, Cipher(t)
      PROVE  KeyInv'
  BY <1>5, CipherStep
<1> QED BY <1>1, <1>2, <1>3, <1>4, <1>5 DEF KeyNext

(* KeyInv holds in every state: the mutex of setAESKey keeps the encryptor *)
(* of a thread from all others.                                            *)
THEOREM KeyInvariant == KeySpec => []KeyInv
BY KeyInitial, KeyInductive, PTL DEF KeySpec

(* However many threads share an encryptor, every cipher of setAESKey's    *)
(* callers works with the agreed key.                                      *)
THEOREM AlwaysRightKey == KeySpec => []RightKey
<1>1. KeyInv => RightKey
  BY DEF KeyInv, LineInv, RightKey
<1> QED BY <1>1, KeyInvariant, PTL

(* The agreed key is in memory as it is only while a thread is inside      *)
(* setAESKey.                                                              *)
THEOREM AlwaysHiddenAtRest == KeySpec => []HiddenAtRest
<1>1. KeyInv => HiddenAtRest
  <2> SUFFICES ASSUME KeyInv, NEW o \in Object, agreed[o], \A t \in Thread : ~Holds(t, o)
               PROVE  key[o] # {}
    BY DEF HiddenAtRest
  <2>1. mutex[o] = Nobody
    BY DEF KeyInv, KeyTypeOK, MutexInv
  <2> QED BY <2>1 DEF KeyInv, RestInv, Hidden
<1> QED BY <1>1, KeyInvariant, PTL

-----------------------------------------------------------------------------
(* The encryption of a conversation.                                       *)

(* The encryptors a side has yet to agree.                                 *)
AgreedInv ==
  /\ agreed \in [Object -> BOOLEAN]
  /\ hs \in {"sign", "signed"} => \A o \in Object : ~agreed[o]
  /\ hs = "status" => \A o \in Objects("client") : ~agreed[o]

LEMMA ObjectsOf ==
  ASSUME NEW side \in Sides
  PROVE  Objects(side) = {<<side, "sodium">>, <<side, "plpl">>} /\ Objects(side) \subseteq Object
<1>1. Objects(side) = {<<side, "sodium">>, <<side, "plpl">>}
  BY DEF Objects, EncryptorTuple, Range
<1> QED BY <1>1, EncryptionAssumption DEF Sides

LEMMA EncryptorOf ==
  ASSUME NEW t, NEW lib
  PROVE  Encryptor(t, lib) \in Object
<1>1. Side(t) \in Sides
  BY DEF Side, Sides
<1>2. Encryptor(t, lib) \in {<<Side(t), "sodium">>, <<Side(t), "plpl">>}
  BY DEF Encryptor, EncryptorVariant, EncryptorTuple
<1> QED BY <1>1, <1>2, EncryptionAssumption DEF Sides

(* The statements of the handshake that agree keys.                        *)
LEMMA AgreeOnce ==
  ASSUME AgreedInv, ConstructSession \/ ClientKeyExchange \/ Initialize
  PROVE  KeyNext /\ AgreedInv'
<1>1. CASE ConstructSession
  <2>1. Agree(Objects("server")) /\ hs = "signed" /\ hs' = "status"
    BY <1>1 DEF ConstructSession
  <2>2. Objects("server") \subseteq Object /\ \A o \in Objects("client") : o \notin Objects("server")
    BY ObjectsOf DEF Sides
  <2>3. KeyNext
    BY <2>1, <2>2 DEF AgreedInv, KeyNext
  <2>4. AgreedInv'
    BY <2>1, <2>2, ObjectsOf DEF AgreedInv, Agree, Sides
  <2> QED BY <2>3, <2>4
<1>2. CASE ClientKeyExchange
  <2>1. Agree(Objects("client")) /\ hs = "status" /\ hs' = "run"
    BY <1>2 DEF ClientKeyExchange
  <2>2. Objects("client") \subseteq Object
    BY ObjectsOf DEF Sides
  <2>3. KeyNext
    BY <2>1, <2>2 DEF AgreedInv, KeyNext
  <2>4. AgreedInv'
    BY <2>1 DEF AgreedInv, Agree
  <2> QED BY <2>3, <2>4
<1>3. CASE Initialize
  <2>1. Agree(Object) /\ hs = "sign" /\ hs' = "run"
    BY <1>3 DEF Initialize
  <2>2. KeyNext
    BY <2>1 DEF AgreedInv, KeyNext
  <2>3. AgreedInv'
    BY <2>1 DEF AgreedInv, Agree
  <2> QED BY <2>2, <2>3
<1> QED BY <1>1, <1>2, <1>3

LEMMA HandshakeStep ==
  ASSUME AgreedInv, SendSignature \/ RefuseSession
  PROVE  UNCHANGED keyVars /\ AgreedInv'
BY DEF SendSignature, RefuseSession, AgreedInv, keyVars

(* encrypt and decrypt, once the keys are agreed.                          *)
LEMMA CryptoKeys ==
  ASSUME AgreedInv, NEW t \in Thread, Crypto(t)
  PROVE  [KeyNext]_keyVars /\ UNCHANGED <<agreed, hs>>
<1>1. CASE Enter(t)
  BY <1>1, EncryptorOf DEF Enter, Begin, KeyNext, appVars, handshake
<1>2. CASE PassPlain(t)
  BY <1>2 DEF PassPlain, keyVars, handshake
<1>3. CASE SetKey(t)
  <2>1. SetAESKey(t) /\ UNCHANGED hs
    BY <1>3 DEF SetKey, appVars, handshake
  <2>2. KeyNext
    BY <2>1 DEF KeyNext
  <2>3. UNCHANGED agreed
    BY <2>1 DEF SetAESKey, Lock, RecoverKey, Wipe, Copy, HideKey, Mark, Goes
  <2> QED BY <2>1, <2>2, <2>3
<1>4. CASE Apply(t)
  <2>1. Cipher(t) /\ UNCHANGED hs
    BY <1>4 DEF Apply, handshake
  <2>2. KeyNext
    BY <2>1 DEF KeyNext
  <2>3. UNCHANGED agreed
    BY <2>1 DEF Cipher, Goes
  <2> QED BY <2>1, <2>2, <2>3
<1> QED BY <1>1, <1>2, <1>3, <1>4 DEF Crypto

Conversing ==
  \/ BuilderCreates \/ BuilderStores
  \/ SessionReceives \/ SessionReplies \/ SessionSends
  \/ ClientSends \/ ClientReceives \/ ClientPrints

LEMMA ConversationStep ==
  ASSUME Conversing
  PROVE  UNCHANGED keyVars /\ UNCHANGED hs
BY DEF Conversing, BuilderCreates, BuilderStores, SessionReceives, SessionReplies, SessionSends,
  ClientSends, ClientReceives, ClientPrints, handshake

LEMMA EncryptionStepIsKeyStep ==
  AgreedInv /\ [EncryptionNext]_encVars => [KeyNext]_keyVars /\ AgreedInv'
<1> SUFFICES ASSUME AgreedInv, [EncryptionNext]_encVars
             PROVE  [KeyNext]_keyVars /\ AgreedInv'
  OBVIOUS
<1>1. CASE UNCHANGED encVars
  BY <1>1 DEF encVars, keyVars, appVars, handshake, AgreedInv
<1>2. ASSUME NEW t \in Thread, ThreadStep(t) PROVE [KeyNext]_keyVars /\ AgreedInv'
  <2>1. CASE Crypto(t)
    BY <2>1, CryptoKeys DEF AgreedInv
  <2>2. CASE ConstructSession \/ ClientKeyExchange \/ Initialize
    BY <2>2, AgreeOnce
  <2>3. CASE SendSignature \/ RefuseSession
    BY <2>3, HandshakeStep
  <2>4. CASE Conversing
    BY <2>4, ConversationStep DEF AgreedInv, keyVars
  <2> QED BY <1>2, <2>1, <2>2, <2>3, <2>4 DEF ThreadStep, Conversing
<1> QED BY <1>1, <1>2 DEF EncryptionNext

LEMMA EncryptionStart == EncryptionInit => KeyInit /\ AgreedInv
BY DEF EncryptionInit, KeyInit, AgreedInv, Objects, EncryptorTuple

(* Whatever the options of the two sides, the container of the encryptors  *)
(* and the order of the threads, a conversation uses the key handlers as   *)
(* KeySpec allows: none is agreed again under a thread that works with its *)
(* key.                                                                    *)
THEOREM ImplementsKeyHandler == EncryptionSpec => KeySpec
<1> QED BY EncryptionStart, EncryptionStepIsKeyStep, PTL DEF EncryptionSpec, KeySpec

(* Every layer of a request or of a reply is put on and taken off with the *)
(* key of the encryptor, while the other thread of the client uses it.     *)
THEOREM ConversationRightKey == EncryptionSpec => []RightKey
<1> QED BY ImplementsKeyHandler, AlwaysRightKey, PTL

(* The key of an encryptor that nobody is recovering is hidden, at any     *)
(* point of the conversation.                                              *)
THEOREM ConversationHiddenAtRest == EncryptionSpec => []HiddenAtRest
<1> QED BY ImplementsKeyHandler, AlwaysHiddenAtRest, PTL

-----------------------------------------------------------------------------
(* Texts that are put together and taken apart again.  The lemmas name     *)
(* every intermediate text: the provers lose their way in nested ones.     *)

(* A part of a text, from its bytes.                                       *)
LEMMA Slice ==
  ASSUME NEW S, NEW s \in Seq(S), NEW t \in Seq(S), NEW m \in Nat, m + Len(t) <= Len(s),
         \A i \in 1 .. Len(t) : s[m + i] = t[i]
  PROVE  SubSeq(s, m + 1, m + Len(t)) = t
<1>1. /\ Len(t) \in Nat /\ Len(s) \in Nat /\ m + 1 \in Int /\ m + Len(t) \in Int
      /\ \A i \in 1 .. Len(s) : s[i] \in S
  <2>1. Len(t) \in Nat /\ Len(s) \in Nat
    BY LenProperties
  <2>2. \A i \in 1 .. Len(s) : s[i] \in S
    BY ElementOfSeq
  <2> QED BY <2>1, <2>2
<1>2. \A i \in m + 1 .. m + Len(t) : s[i] \in S
  BY <1>1
<1> DEFINE n == m + Len(t)
<1>3. n \in Int /\ n - (m + 1) + 1 = Len(t) /\ (m + 1 <= n <=> Len(t) # 0)
  BY <1>1
<1>4. /\ SubSeq(s, m + 1, n) \in Seq(S)
      /\ Len(SubSeq(s, m + 1, n)) = IF m + 1 <= n THEN n - (m + 1) + 1 ELSE 0
      /\ \A i \in 1 .. n - (m + 1) + 1 : SubSeq(s, m + 1, n)[i] = s[m + 1 + i - 1]
  BY <1>1, <1>2, SubSeqProperties
<1>5. \A i \in 1 .. Len(t) : m + 1 + i - 1 = m + i
  BY <1>1
<1>6. /\ SubSeq(s, m + 1, n) \in Seq(S) /\ Len(SubSeq(s, m + 1, n)) = Len(t)
      /\ \A i \in 1 .. Len(t) : SubSeq(s, m + 1, n)[i] = t[i]
  BY <1>1, <1>3, <1>4, <1>5
<1> QED BY <1>6, SeqEqual

(* The bytes of a text that was put together.                              *)
LEMMA Joined ==
  ASSUME NEW S, NEW a \in Seq(S), NEW b \in Seq(S), NEW s, s = a \o b
  PROVE  /\ s \in Seq(S) /\ Len(s) = Len(a) + Len(b)
         /\ \A i \in 1 .. Len(a) : s[i] = a[i]
         /\ \A i \in 1 .. Len(b) : s[Len(a) + i] = b[i]
<1>1. /\ s \in Seq(S) /\ Len(s) = Len(a) + Len(b)
      /\ \A i \in 1 .. Len(a) + Len(b) : s[i] = IF i <= Len(a) THEN a[i] ELSE b[i - Len(a)]
  BY ConcatProperties
<1>2. Len(a) \in Nat /\ Len(b) \in Nat
  BY LenProperties
<1> QED BY <1>1, <1>2

(* The end of a message comes off.                                         *)
LEMMA EndOff ==
  ASSUME NEW S, NEW a \in Seq(S), NEW e \in Seq(S)
  PROVE  SubSeq(a \o e, 1, Len(a \o e) - Len(e)) = a
<1>1. PICK s : s = a \o e
  OBVIOUS
<1>2. /\ s \in Seq(S) /\ Len(s) = Len(a) + Len(e)
      /\ \A i \in 1 .. Len(a) : s[i] = a[i]
  BY <1>1, Joined
<1>3. Len(a) \in Nat /\ Len(e) \in Nat
  BY LenProperties
<1>4. 0 + Len(a) <= Len(s) /\ \A i \in 1 .. Len(a) : s[0 + i] = a[i]
  BY <1>2, <1>3
<1>5. SubSeq(s, 0 + 1, 0 + Len(a)) = a
  BY <1>2, <1>4, Slice
<1>6. Len(s) - Len(e) = 0 + Len(a)
  BY <1>2, <1>3
<1> QED BY <1>1, <1>5, <1>6

(* What follows the first m bytes.                                         *)
LEMMA Rest ==
  ASSUME NEW S, NEW s \in Seq(S), NEW m \in Nat, m <= Len(s)
  PROVE  /\ SubSeq(s, m + 1, Len(s)) \in Seq(S)
         /\ Len(SubSeq(s, m + 1, Len(s))) = Len(s) - m
         /\ \A i \in 1 .. Len(s) - m : SubSeq(s, m + 1, Len(s))[i] = s[m + i]
<1> DEFINE r == SubSeq(s, m + 1, Len(s))
<1>1. Len(s) \in Nat /\ \A i \in 1 .. Len(s) : s[i] \in S
  <2>1. Len(s) \in Nat
    BY LenProperties
  <2>2. \A i \in 1 .. Len(s) : s[i] \in S
    BY ElementOfSeq
  <2> QED BY <2>1, <2>2
<1>2. m + 1 \in Int /\ Len(s) \in Int /\ \A i \in m + 1 .. Len(s) : s[i] \in S
  BY <1>1
<1>3. /\ SubSeq(s, m + 1, Len(s)) \in Seq(S)
      /\ Len(SubSeq(s, m + 1, Len(s))) = IF m + 1 <= Len(s) THEN Len(s) - (m + 1) + 1 ELSE 0
      /\ \A i \in 1 .. Len(s) - (m + 1) + 1 : SubSeq(s, m + 1, Len(s))[i] = s[m + 1 + i - 1]
  BY <1>2, SubSeqProperties
<1>4. Len(s) - (m + 1) + 1 = Len(s) - m /\ \A i \in Int : m + 1 + i - 1 = m + i
  BY <1>1
<1>5. r \in Seq(S) /\ Len(r) = Len(s) - m
  <2>1. r \in Seq(S) /\ Len(r) = IF m + 1 <= Len(s) THEN Len(s) - m ELSE 0
    BY <1>3, <1>4
  <2>2. m + 1 <= Len(s) \/ Len(s) - m = 0
    BY <1>1
  <2> QED BY <2>1, <2>2
<1>6. \A i \in 1 .. Len(s) - m : r[i] = s[m + i]
  BY <1>1, <1>3, <1>4
<1> QED BY <1>5, <1>6

(* A header and four fields one after the other: the body is what follows  *)
(* the header, and in it the fields are at their offsets.                  *)
Chain(H, a, b, c, d) == (((H \o a) \o b) \o c) \o d
AfterHeader(H, text) == SubSeq(text, Len(H) + 1, Len(text))

InPlace(H, a, b, c, d) ==
  LET text == Chain(H, a, b, c, d)
      body == AfterHeader(H, text)
  IN
  /\ \A i \in 1 .. Len(H) : text[i] = H[i]
  /\ Len(body) = Len(a) + Len(b) + Len(c) + Len(d)
  /\ SubSeq(body, 1, Len(a)) = a
  /\ SubSeq(body, Len(a) + 1, Len(a) + Len(b)) = b
  /\ SubSeq(body, Len(a) + Len(b) + 1, Len(a) + Len(b) + Len(c)) = c
  /\ SubSeq(body, Len(a) + Len(b) + Len(c) + 1, Len(body)) = d

LEMMA FourParts ==
  ASSUME NEW S, NEW H \in Seq(S), NEW a \in Seq(S), NEW b \in Seq(S), NEW c \in Seq(S),
         NEW d \in Seq(S)
  PROVE  Chain(H, a, b, c, d) \in Seq(S) /\ InPlace(H, a, b, c, d)
<1>98. PICK text : text = (((H \o a) \o b) \o c) \o d
  OBVIOUS
<1>99. PICK body : body = SubSeq(text, Len(H) + 1, Len(text))
  OBVIOUS
<1>1. PICK s1 : s1 = H \o a
  OBVIOUS
<1>2. PICK s2 : s2 = s1 \o b
  OBVIOUS
<1>3. PICK s3 : s3 = s2 \o c
  OBVIOUS
<1>4. text = s3 \o d
  BY <1>1, <1>2, <1>3, <1>98
<1>5. /\ s1 \in Seq(S) /\ Len(s1) = Len(H) + Len(a)
      /\ \A i \in 1 .. Len(H) : s1[i] = H[i]
      /\ \A i \in 1 .. Len(a) : s1[Len(H) + i] = a[i]
  BY <1>1, Joined
<1>6. /\ s2 \in Seq(S) /\ Len(s2) = Len(s1) + Len(b)
      /\ \A i \in 1 .. Len(s1) : s2[i] = s1[i]
      /\ \A i \in 1 .. Len(b) : s2[Len(s1) + i] = b[i]
  <2>1. s1 \in Seq(S)
    BY <1>5
  <2> QED BY <1>2, <2>1, Joined
<1>7. /\ s3 \in Seq(S) /\ Len(s3) = Len(s2) + Len(c)
      /\ \A i \in 1 .. Len(s2) : s3[i] = s2[i]
      /\ \A i \in 1 .. Len(c) : s3[Len(s2) + i] = c[i]
  <2>1. s2 \in Seq(S)
    BY <1>6
  <2> QED BY <1>3, <2>1, Joined
<1>8. /\ text \in Seq(S) /\ Len(text) = Len(s3) + Len(d)
      /\ \A i \in 1 .. Len(s3) : text[i] = s3[i]
      /\ \A i \in 1 .. Len(d) : text[Len(s3) + i] = d[i]
  <2>1. s3 \in Seq(S)
    BY <1>7
  <2> QED BY <1>4, <2>1, Joined
<1>9. /\ Len(H) \in Nat /\ Len(a) \in Nat /\ Len(b) \in Nat /\ Len(c) \in Nat /\ Len(d) \in Nat
  BY LenProperties
<1> DEFINE h == Len(H)
           na == Len(a)
           nb == Len(b)
           nc == Len(c)
           nd == Len(d)
<1>10. /\ Len(s1) = h + na /\ Len(s2) = h + na + nb /\ Len(s3) = h + na + nb + nc
       /\ Len(text) = h + na + nb + nc + nd
  BY <1>5, <1>6, <1>7, <1>8
<1>11. \A i \in 1 .. h : text[i] = H[i]
  BY <1>5, <1>6, <1>7, <1>8, <1>9, <1>10
<1>12. \A i \in 1 .. na : text[h + i] = a[i]
  <2>1. \A i \in 1 .. na : h + i \in 1 .. Len(s1) /\ h + i \in 1 .. Len(s2) /\ h + i \in 1 .. Len(s3)
    BY <1>9, <1>10
  <2> QED BY <1>5, <1>6, <1>7, <1>8, <2>1
<1>13. \A i \in 1 .. nb : text[h + (na + i)] = b[i]
  <2>1. \A i \in 1 .. nb :
          /\ h + (na + i) = Len(s1) + i
          /\ h + (na + i) \in 1 .. Len(s2) /\ h + (na + i) \in 1 .. Len(s3)
    BY <1>9, <1>10
  <2> QED BY <1>6, <1>7, <1>8, <2>1
<1>14. \A i \in 1 .. nc : text[h + (na + nb + i)] = c[i]
  <2>1. \A i \in 1 .. nc :
          /\ h + (na + nb + i) = Len(s2) + i
          /\ h + (na + nb + i) \in 1 .. Len(s3)
    BY <1>9, <1>10
  <2> QED BY <1>7, <1>8, <2>1
<1>15. \A i \in 1 .. nd : text[h + (na + nb + nc + i)] = d[i]
  <2>1. \A i \in 1 .. nd : h + (na + nb + nc + i) = Len(s3) + i
    BY <1>9, <1>10
  <2> QED BY <1>8, <2>1
<1>16. /\ body \in Seq(S) /\ Len(body) = na + nb + nc + nd
       /\ \A i \in 1 .. Len(body) : body[i] = text[h + i]
  <2>1. text \in Seq(S) /\ Len(H) \in Nat /\ Len(H) <= Len(text)
    BY <1>8, <1>9, <1>10
  <2>2. /\ body \in Seq(S)
        /\ Len(body) = Len(text) - Len(H)
        /\ \A i \in 1 .. Len(body) : body[i] = text[Len(H) + i]
    <3> HIDE DEF h, na, nb, nc, nd
    <3>1. PICK n \in Nat : n = Len(H)
      BY <2>1
    <3>2. text \in Seq(S) /\ n <= Len(text)
      BY <2>1, <3>1
    <3>3. /\ SubSeq(text, n + 1, Len(text)) \in Seq(S)
          /\ Len(SubSeq(text, n + 1, Len(text))) = Len(text) - n
          /\ \A i \in 1 .. Len(text) - n : SubSeq(text, n + 1, Len(text))[i] = text[n + i]
      BY <3>2, Rest
    <3> QED BY <1>99, <3>1, <3>3
  <2>3. Len(body) = na + nb + nc + nd
    BY <1>9, <1>10, <2>2
  <2> QED BY <2>2, <2>3
<1>17. \A i \in 1 .. na : body[0 + i] = a[i]
  <2>1. \A i \in 1 .. na : 0 + i \in 1 .. Len(body) /\ 0 + i = i
    BY <1>9, <1>16
  <2> QED BY <1>12, <1>16, <2>1
<1>18. \A i \in 1 .. nb : body[na + i] = b[i]
  <2>1. \A i \in 1 .. nb : na + i \in 1 .. Len(body)
    BY <1>9, <1>16
  <2> QED BY <1>13, <1>16, <2>1
<1>19. \A i \in 1 .. nc : body[na + nb + i] = c[i]
  <2>1. \A i \in 1 .. nc : na + nb + i \in 1 .. Len(body)
    BY <1>9, <1>16
  <2> QED BY <1>14, <1>16, <2>1
<1>20. \A i \in 1 .. nd : body[na + nb + nc + i] = d[i]
  <2>1. \A i \in 1 .. nd : na + nb + nc + i \in 1 .. Len(body)
    BY <1>9, <1>16
  <2> QED BY <1>15, <1>16, <2>1
<1>21. SubSeq(body, 0 + 1, 0 + na) = a /\ 0 + 1 = 1 /\ 0 + na = na
  <2>1. 0 + Len(a) <= Len(body)
    BY <1>9, <1>16
  <2> QED BY <1>9, <1>16, <1>17, <2>1, Slice
<1>22. SubSeq(body, na + 1, na + nb) = b
  <2>1. na \in Nat /\ na + Len(b) <= Len(body)
    BY <1>9, <1>16
  <2> QED BY <1>16, <1>18, <2>1, Slice
<1>23. SubSeq(body, na + nb + 1, na + nb + nc) = c
  <2>1. na + nb \in Nat /\ (na + nb) + Len(c) <= Len(body)
    BY <1>9, <1>16
  <2> QED BY <1>16, <1>19, <2>1, Slice
<1>24. SubSeq(body, na + nb + nc + 1, Len(body)) = d
  <2>1. na + nb + nc \in Nat /\ (na + nb + nc) + Len(d) <= Len(body)
    BY <1>9, <1>16
  <2> QED BY <1>16, <1>20, <2>1, Slice
<1>25. text = Chain(H, a, b, c, d) /\ body = AfterHeader(H, text)
  BY <1>98, <1>99 DEF Chain, AfterHeader
<1> QED BY <1>8, <1>11, <1>16, <1>21, <1>22, <1>23, <1>24, <1>25 DEF InPlace

IsSeq(s) == \E S : s \in Seq(S)

(* Sequences of whatever elements have a set of elements in common.        *)
LEMMA Together ==
  ASSUME NEW a, NEW b, NEW c, NEW d, NEW e, NEW f,
         IsSeq(a), IsSeq(b), IsSeq(c), IsSeq(d), IsSeq(e), IsSeq(f)
  PROVE  \E S : /\ a \in Seq(S) /\ b \in Seq(S) /\ c \in Seq(S)
                /\ d \in Seq(S) /\ e \in Seq(S) /\ f \in Seq(S)
<1>1. PICK A : a \in Seq(A)
  BY DEF IsSeq
<1>2. PICK B : b \in Seq(B)
  BY DEF IsSeq
<1>3. PICK C : c \in Seq(C)
  BY DEF IsSeq
<1>4. PICK D : d \in Seq(D)
  BY DEF IsSeq
<1>5. PICK E : e \in Seq(E)
  BY DEF IsSeq
<1>6. PICK F : f \in Seq(F)
  BY DEF IsSeq
<1> DEFINE S == A \union B \union C \union D \union E \union F
<1>7. A \subseteq S /\ B \subseteq S /\ C \subseteq S /\ D \subseteq S /\ E \subseteq S /\ F \subseteq S
  OBVIOUS
<1> HIDE DEF S
<1>8. a \in Seq(S) /\ b \in Seq(S) /\ c \in Seq(S)
  BY <1>1, <1>2, <1>3, <1>7, SeqMonotonic
<1>9. d \in Seq(S) /\ e \in Seq(S) /\ f \in Seq(S)
  BY <1>4, <1>5, <1>6, <1>7, SeqMonotonic
<1> QED BY <1>8, <1>9

LEMMA EndIsSeq == IsSeq(EndOfMessage)
BY HeaderAssumption DEF IsSeq

LEMMA HeaderIsSeq ==
  ASSUME NEW h
  PROVE  IsSeq(Serialize(h))
<1>1. Serialize(h) \in
        Seq({Underlying(HeaderTypes, h.type), ToChars(h.size1), ToChars(h.size2),
             Underlying(Compressors, h.compressor), Underlying(DiagnosticsKinds, h.diagnostics),
             Underlying(Statuses, h.status), ToChars(h.size3), ToChars(h.size4)})
  BY DEF Serialize
<1> QED BY <1>1 DEF IsSeq

(* The sizes are read from a text that begins with the header.             *)
LEMMA HeaderRead ==
  ASSUME NEW h, NEW s, \A i \in 1 .. Len(Serialize(h)) : s[i] = Serialize(h)[i],
         h.size1 < Limit, h.size2 < Limit, h.size3 < Limit
  PROVE  /\ Len(Serialize(h)) = HeaderSize
         /\ Sizes(Deserialize(s)) = <<h.size1, h.size2, h.size3, h.size3>>
         /\ Offsets(Deserialize(s)) = <<0, h.size1, h.size1 + h.size2, h.size1 + h.size2 + h.size3>>
<1> DEFINE H == Serialize(h)
           d == Deserialize(s)
<1>1. H = <<Underlying(HeaderTypes, h.type), h.size1, h.size2,
            Underlying(Compressors, h.compressor), Underlying(DiagnosticsKinds, h.diagnostics),
            Underlying(Statuses, h.status), h.size3, ToChars(h.size4)>>
  BY DEF Serialize, ToChars
<1>2. Len(H) = 8 /\ H[2] = h.size1 /\ H[3] = h.size2 /\ H[7] = h.size3
  BY <1>1
<1>3. \A i \in 1 .. Len(H) : s[i] = H[i]
  OBVIOUS
<1> HIDE DEF H
<1>4. s[2] = h.size1 /\ s[3] = h.size2 /\ s[7] = h.size3
  BY <1>2, <1>3
<1>5. d.size1 = h.size1 /\ d.size2 = h.size2 /\ d.size3 = h.size3 /\ d.size4 = h.size3
  BY <1>4 DEF Deserialize
<1> HIDE DEF d
<1>6. /\ Sizes(d) = <<h.size1, h.size2, h.size3, h.size3>>
      /\ Offsets(d) = <<0, h.size1, h.size1 + h.size2, h.size1 + h.size2 + h.size3>>
  BY <1>5 DEF Sizes, Offsets
<1> QED BY <1>2, <1>6 DEF H, d, HeaderSize

(* What FieldOf takes, from the numbers of the header and the body.        *)
SizesAre(s, n1, n2, n3) ==
  /\ Sizes(Deserialize(s)) = <<n1, n2, n3, n3>>
  /\ Offsets(Deserialize(s)) = <<0, n1, n1 + n2, n1 + n2 + n3>>

TakenFrom(s, b, n1, n2, n3) ==
  /\ FieldOf(s, 1) = SubSeq(b, 1, n1)
  /\ FieldOf(s, 2) = SubSeq(b, n1 + 1, n1 + n2)
  /\ FieldOf(s, 3) = SubSeq(b, n1 + n2 + 1, n1 + n2 + n3)
  /\ FieldOf(s, 4) = SubSeq(b, n1 + n2 + n3 + 1, Len(b))

LEMMA FieldsAt ==
  ASSUME NEW s, NEW n1 \in Nat, NEW n2 \in Nat, NEW n3 \in Nat, NEW n4 \in Nat,
         n4 <= n3, SizesAre(s, n1, n2, n3), Len(Body(s)) = n1 + n2 + n3 + n4
  PROVE  TakenFrom(s, Body(s), n1, n2, n3)
<1>0. PICK b : b = Body(s)
  OBVIOUS
<1> DEFINE from(i) == Offsets(Deserialize(s))[i]
           end(i) == from(i) + Sizes(Deserialize(s))[i]
<1>1. ASSUME NEW i
      PROVE FieldOf(s, i) = SubSeq(b, from(i) + 1, IF end(i) <= Len(b) THEN end(i) ELSE Len(b))
  BY <1>0 DEF FieldOf, FirstByte
<1>2. /\ from(1) = 0 /\ end(1) = n1
      /\ from(2) = n1 /\ end(2) = n1 + n2
      /\ from(3) = n1 + n2 /\ end(3) = n1 + n2 + n3
      /\ from(4) = n1 + n2 + n3 /\ end(4) = n1 + n2 + n3 + n3
  BY DEF SizesAre
<1> HIDE DEF from, end
<1>3. /\ end(1) <= Len(b) /\ end(2) <= Len(b) /\ end(3) <= Len(b)
      /\ from(1) + 1 = 1
  BY <1>0, <1>2
<1>4. end(4) <= Len(b) => end(4) = Len(b)
  BY <1>0, <1>2
<1> QED BY <1>0, <1>1, <1>2, <1>3, <1>4 DEF TakenFrom

(* processMessage finds the fields of a message where sendMessage put      *)
(* them; the fourth is taken whole if it is not longer than the third.     *)
LEMMA FieldsRead ==
  ASSUME NEW h, NEW p1, NEW p2, NEW p3, NEW p4,
         IsSeq(p1), IsSeq(p2), IsSeq(p3), IsSeq(p4),
         h.size1 = Len(p1), h.size2 = Len(p2), h.size3 = Len(p3),
         h.size1 < Limit, h.size2 < Limit, h.size3 < Limit, Len(p4) <= Len(p3)
  PROVE  LET s == WithoutEnd(Message(h, p1, p2, p3, p4)) IN
         /\ Sizes(Deserialize(s)) = <<Len(p1), Len(p2), Len(p3), Len(p3)>>
       /\ FieldOf(s, 1) = p1 /\ FieldOf(s, 2) = p2 /\ FieldOf(s, 3) = p3 /\ FieldOf(s, 4) = p4
<1> DEFINE H == Serialize(h)
           M == Message(h, p1, p2, p3, p4)
           X == WithoutEnd(M)
<1>1. IsSeq(H) /\ IsSeq(EndOfMessage)
  BY HeaderIsSeq, EndIsSeq
<1>2. PICK S : /\ H \in Seq(S) /\ p1 \in Seq(S) /\ p2 \in Seq(S) /\ p3 \in Seq(S)
               /\ p4 \in Seq(S) /\ EndOfMessage \in Seq(S)
  <2> HIDE DEF H
  <2> QED BY <1>1, Together
<1>3. PICK text : text = Chain(H, p1, p2, p3, p4)
  OBVIOUS
<1>4. M = text \o EndOfMessage
  BY <1>3 DEF Message, Chain
<1> HIDE DEF H, M
<1>5. PICK body : body = AfterHeader(H, text)
  OBVIOUS
<1>6. /\ text \in Seq(S)
      /\ \A i \in 1 .. Len(H) : text[i] = H[i]
      /\ Len(body) = Len(p1) + Len(p2) + Len(p3) + Len(p4)
      /\ SubSeq(body, 1, Len(p1)) = p1
      /\ SubSeq(body, Len(p1) + 1, Len(p1) + Len(p2)) = p2
      /\ SubSeq(body, Len(p1) + Len(p2) + 1, Len(p1) + Len(p2) + Len(p3)) = p3
      /\ SubSeq(body, Len(p1) + Len(p2) + Len(p3) + 1, Len(body)) = p4
  <2>1. text \in Seq(S) /\ InPlace(H, p1, p2, p3, p4)
    BY <1>2, <1>3, FourParts
  <2> QED BY <1>3, <1>5, <2>1 DEF InPlace
<1>7. X = text
  BY <1>2, <1>4, <1>6, EndOff DEF WithoutEnd
<1>8. /\ Len(H) = HeaderSize
      /\ Sizes(Deserialize(text)) = <<Len(p1), Len(p2), Len(p3), Len(p3)>>
      /\ Offsets(Deserialize(text)) =
           <<0, Len(p1), Len(p1) + Len(p2), Len(p1) + Len(p2) + Len(p3)>>
  BY <1>6, HeaderRead DEF H
<1>9. Body(text) = body
  BY <1>5, <1>8 DEF Body, AfterHeader
<1>10. Len(p1) \in Nat /\ Len(p2) \in Nat /\ Len(p3) \in Nat /\ Len(p4) \in Nat
  BY <1>2, LenProperties
<1>11. TakenFrom(text, body, Len(p1), Len(p2), Len(p3))
  <2>1. SizesAre(text, Len(p1), Len(p2), Len(p3))
    BY <1>8 DEF SizesAre
  <2>2. Len(Body(text)) = Len(p1) + Len(p2) + Len(p3) + Len(p4)
    BY <1>6, <1>9
  <2> QED BY <1>9, <1>10, <2>1, <2>2, FieldsAt
<1> QED BY <1>6, <1>7, <1>8, <1>11 DEF M, TakenFrom

LEMMA BytesAre ==
  ASSUME NEW kind, NEW of, NEW n \in Nat
  PROVE  IsSeq(Bytes(kind, of, n)) /\ Len(Bytes(kind, of, n)) = n
<1> DEFINE S == {<<kind, of, k>> : k \in 1 .. n}
           s == Bytes(kind, of, n)
<1>1. s \in [1 .. n -> S]
  BY DEF Bytes
<1> HIDE DEF s, S
<1>2. s \in Seq(S) /\ Len(s) = n
  BY <1>1
<1> QED BY <1>2 DEF s, IsSeq

LEMMA JoinAre ==
  ASSUME NEW a, NEW b, IsSeq(a), IsSeq(b)
  PROVE  IsSeq(a \o b) /\ Len(a \o b) = Len(a) + Len(b)
<1>1. PICK S : a \in Seq(S) /\ b \in Seq(S)
  BY Together
<1> QED BY <1>1, ConcatProperties DEF IsSeq

(* The numbers of groups and of places in them.                            *)
LEMMA Groups ==
  /\ \A n \in Nat \ {0} :
       LET g == (n + 2) \div 3 IN
       g \in Nat \ {0} /\ 3 * (g - 1) < n /\ n <= 3 * g /\ (4 * g) \div 4 = g
  /\ \A g \in Nat \ {0} : (4 * g + 3) \div 4 = g
  /\ \A k \in Nat \ {0} :
       LET g == (k + 2) \div 3 IN
       g \in Nat \ {0} /\ k = 3 * (g - 1) + ((k - 1) % 3) + 1 /\ (k - 1) % 3 \in 0 .. 2
  /\ \A n, k \in Nat \ {0} : k <= n => (k + 2) \div 3 <= (n + 2) \div 3
  OBVIOUS

(* What is encoded is decoded: the last group is as long as what is left.  *)
LEMMA Base64Inverse ==
  ASSUME NEW S, NEW s \in Seq(S), s # <<>>
  PROVE  /\ Base64Decode(Base64Encode(s)) = s
         /\ IsSeq(Base64Encode(s))
         /\ Len(Base64Encode(s)) = 4 * ((Len(s) + 2) \div 3)
<1> DEFINE n == Len(s)
           G == (n + 2) \div 3
           e == Base64Encode(s)
           to(g) == IF 3 * g <= n THEN 3 * g ELSE n
           group(g) == SubSeq(s, 3 * g - 2, to(g))
<1>1. n \in Nat \ {0}
  BY EmptySeq
<1> HIDE DEF n
<1>2. G \in Nat \ {0} /\ 3 * (G - 1) < n /\ n <= 3 * G /\ (4 * G) \div 4 = G
  BY <1>1, Groups
<1>3. e = [k \in 1 .. 4 * G |-> <<"base64", group((k + 3) \div 4), k % 4>>]
  BY DEF Base64Encode, n
<1> HIDE DEF G, e, to, group
<1>4. Len(e) = 4 * G /\ IsSeq(e)
  <2>1. e \in [1 .. 4 * G -> {e[k] : k \in 1 .. 4 * G}]
    BY <1>3
  <2>2. 4 * G \in Nat
    BY <1>2
  <2>3. e \in Seq({e[k] : k \in 1 .. 4 * G}) /\ Len(e) = 4 * G
    BY <2>1, <2>2
  <2> QED BY <2>3 DEF IsSeq
<1>5. \A g \in 1 .. G : e[4 * g][2] = group(g)
  <2> SUFFICES ASSUME NEW g \in 1 .. G
               PROVE  e[4 * g][2] = group(g)
    OBVIOUS
  <2>1. 4 * g \in 1 .. 4 * G /\ g \in Nat \ {0}
    BY <1>2
  <2>2. (4 * g + 3) \div 4 = g
    BY <2>1, Groups
  <2> QED BY <1>3, <2>1, <2>2
<1>6. \A g \in 1 .. G : /\ Len(group(g)) = to(g) - 3 * (g - 1)
                        /\ \A i \in 1 .. to(g) - 3 * (g - 1) : group(g)[i] = s[3 * (g - 1) + i]
  <2> SUFFICES ASSUME NEW g \in 1 .. G
               PROVE  /\ Len(group(g)) = to(g) - 3 * (g - 1)
                      /\ \A i \in 1 .. to(g) - 3 * (g - 1) : group(g)[i] = s[3 * (g - 1) + i]
    OBVIOUS
  <2>1. g \in Nat \ {0} /\ 3 * (g - 1) < n
    <3>1. n \in Nat /\ G \in Nat /\ 3 * (G - 1) < n
      BY <1>1, <1>2
    <3>2. g \in Nat \ {0} /\ g <= G
      BY <3>1
    <3> QED BY <3>1, <3>2
  <2>2. PICK m \in Int : m = 3 * g - 2
    BY <2>1
  <2>3. PICK z \in Int : z = to(g)
    BY <1>1, <2>1 DEF to
  <2>4. m >= 1 /\ m <= z /\ z <= n /\ m = 3 * (g - 1) + 1
    BY <1>1, <2>1, <2>2, <2>3 DEF to
  <2>5. \A i \in m .. z : s[i] \in S
    <3>1. \A i \in 1 .. n : s[i] \in S
      BY ElementOfSeq DEF n
    <3> QED BY <1>1, <2>4, <3>1
  <2>6. /\ Len(SubSeq(s, m, z)) = IF m <= z THEN z - m + 1 ELSE 0
        /\ \A i \in 1 .. z - m + 1 : SubSeq(s, m, z)[i] = s[m + i - 1]
    BY <2>5, SubSeqProperties
  <2>7. group(g) = SubSeq(s, m, z)
    BY <2>2, <2>3 DEF group
  <2>8. z - m + 1 = to(g) - 3 * (g - 1) /\ \A i \in Int : m + i - 1 = 3 * (g - 1) + i
    BY <2>1, <2>3, <2>4
  <2>9. Len(group(g)) = to(g) - 3 * (g - 1)
    BY <2>4, <2>6, <2>7, <2>8
  <2> QED BY <2>6, <2>7, <2>8, <2>9
<1>7. 3 * (G - 1) + Len(group(G)) = n
  <2>1. Len(group(G)) = n - 3 * (G - 1)
    <3>1. to(G) = n
      BY <1>1, <1>2 DEF to
    <3>2. G \in 1 .. G
      BY <1>2
    <3> QED BY <1>6, <3>1, <3>2
  <2> QED BY <1>1, <1>2, <2>1
<1>8. \A k \in 1 .. n : group((k + 2) \div 3)[((k - 1) % 3) + 1] = s[k]
  <2> SUFFICES ASSUME NEW k \in 1 .. n
               PROVE  group((k + 2) \div 3)[((k - 1) % 3) + 1] = s[k]
    OBVIOUS
  <2> DEFINE g == (k + 2) \div 3
             i == ((k - 1) % 3) + 1
  <2>1. k \in Nat \ {0}
    BY <1>1
  <2>2. /\ g \in Nat \ {0} /\ k = 3 * (g - 1) + ((k - 1) % 3) + 1 /\ (k - 1) % 3 \in 0 .. 2
        /\ g <= G
    BY <1>1, <2>1, Groups DEF G
  <2>3. i \in Int /\ 1 <= i /\ i <= 3 /\ k = 3 * (g - 1) + i
    BY <2>2
  <2> HIDE DEF g, i
  <2>4. g \in 1 .. G /\ i \in 1 .. to(g) - 3 * (g - 1)
    BY <1>1, <1>2, <2>2, <2>3 DEF to
  <2>5. group(g)[i] = s[k]
    BY <1>6, <2>3, <2>4
  <2> QED BY <2>5 DEF g, i
<1>9. Base64Decode(e) = [k \in 1 .. n |-> group((k + 2) \div 3)[((k - 1) % 3) + 1]]
  <2>1. Len(e) \div 4 = G /\ G # 0
    BY <1>2, <1>4
  <2>2. e[4 * G][2] = group(G)
    BY <1>2, <1>5
  <2>3. \A k \in 1 .. n : e[4 * ((k + 2) \div 3)][2] = group((k + 2) \div 3)
    <3> SUFFICES ASSUME NEW k \in 1 .. n
                 PROVE  e[4 * ((k + 2) \div 3)][2] = group((k + 2) \div 3)
      OBVIOUS
    <3>1. (k + 2) \div 3 \in Nat \ {0} /\ (k + 2) \div 3 <= G
      BY <1>1, Groups DEF G
    <3>2. (k + 2) \div 3 \in 1 .. G
      BY <1>2, <3>1
    <3> QED BY <1>5, <3>2
  <2>4. Base64Decode(e) =
          [k \in 1 .. 3 * (G - 1) + Len(e[4 * G][2]) |->
             e[4 * ((k + 2) \div 3)][2][((k - 1) % 3) + 1]]
    BY <2>1 DEF Base64Decode
  <2> QED BY <1>7, <2>2, <2>3, <2>4
<1>10. Base64Decode(e) = [k \in 1 .. n |-> s[k]]
  BY <1>8, <1>9
<1>11. s = [k \in 1 .. n |-> s[k]]
  BY LenProperties DEF n
<1> QED BY <1>4, <1>10, <1>11 DEF e, G, n

-----------------------------------------------------------------------------
(* The handshake.                                                          *)

AuthenticationSent ==
  Message(Authenticate(Len(Offer[1]), Len(Offer[2]), Len(Offer[3]), Len(Offer[4])),
          Offer[1], Offer[2], Offer[3], Offer[4])
StatusSent ==
  Message(Handshake(Len(Answer[1]), Len(Answer[2]), "NONE", Len(Answer[3])),
          Answer[1], Answer[2], Answer[3], <<>>)

(* A field that is read has some bytes, and its size is in the header.     *)
IsField(p, n) == IsSeq(p) /\ Len(p) = n /\ n \in Nat \ {0} /\ n < Limit

LEMMA EncodedKey ==
  ASSUME NEW o
  PROVE  /\ Base64Decode(SodiumEncodedKey(o)) = KxKey(o)
         /\ IsField(SodiumEncodedKey(o), 4)
<1>1. IsSeq(KxKey(o)) /\ Len(KxKey(o)) = 1
  BY BytesAre DEF KxKey
<1> DEFINE k == KxKey(o)
<1> HIDE DEF k
<1>2. PICK S : k \in Seq(S)
  BY <1>1 DEF k, IsSeq
<1>3. Len(k) = 1 /\ k # <<>>
  BY <1>1 DEF k
<1>4. /\ Base64Decode(Base64Encode(k)) = k
      /\ IsSeq(Base64Encode(k))
      /\ Len(Base64Encode(k)) = 4 * ((Len(k) + 2) \div 3)
  BY <1>2, <1>3, Base64Inverse
<1>5. 4 * ((Len(k) + 2) \div 3) = 4
  BY <1>3
<1>6. 4 < Limit
  BY AuthenticationAssumption
<1> QED BY <1>4, <1>5, <1>6 DEF k, SodiumEncodedKey, IsField

LEMMA OfferFields ==
  /\ IsField(Offer[1], SignBytes + 1) /\ IsField(Offer[2], 4)
  /\ IsField(Offer[3], RsaBytes + 2) /\ IsField(Offer[4], DhBytes)
<1>0. SignBytes \in Nat \ {0} /\ RsaBytes \in Nat \ {0} /\ DhBytes \in Nat \ {0}
  BY AuthenticationAssumption
<1>1. IsField(Offer[1], SignBytes + 1)
  <2> DEFINE o == <<"client", "sodium">>
             s == Signature(HashMessage(AuthenticationMessage(build["client"])), SignKey(o), SignBytes)
             k == SignKey(o)
  <2>1. Offer[1] = s \o k
    BY DEF Offer, SodiumSignatureWithKey
  <2>2. IsSeq(s) /\ Len(s) = SignBytes
    BY <1>0, BytesAre DEF Signature
  <2>3. IsSeq(k) /\ Len(k) = 1
    BY BytesAre DEF SignKey
  <2> HIDE DEF s, k
  <2>4. IsSeq(s \o k) /\ Len(s \o k) = SignBytes + 1
    BY <2>2, <2>3, JoinAre
  <2>5. SignBytes + 1 < Limit
    BY AuthenticationAssumption
  <2> QED BY <1>0, <2>1, <2>4, <2>5 DEF IsField
<1>2. IsField(Offer[2], 4)
  BY EncodedKey DEF Offer
<1>3. IsField(Offer[3], RsaBytes + 2)
  <2> DEFINE o == <<"client", "plpl">>
             s == Signature(Sha256Hash(AuthenticationMessage(build["client"])), RsaKey(o), RsaBytes)
             k == EncodeRsaPublicKey(RsaKey(o))
  <2>1. Offer[3] = s \o k
    BY DEF Offer, SignMessage
  <2>2. IsSeq(s) /\ Len(s) = RsaBytes
    BY <1>0, BytesAre DEF Signature
  <2>3. IsSeq(k) /\ Len(k) = 2
    <3>1. Len(RsaKey(o)) = 1
      BY BytesAre DEF RsaKey
    <3>2. k = Bytes("der", RsaKey(o), 2)
      BY <3>1 DEF EncodeRsaPublicKey
    <3> QED BY <3>2, BytesAre
  <2> HIDE DEF s, k
  <2>4. IsSeq(s \o k) /\ Len(s \o k) = RsaBytes + 2
    BY <2>2, <2>3, JoinAre
  <2>5. RsaBytes + 2 < Limit
    BY AuthenticationAssumption
  <2> QED BY <1>0, <2>1, <2>4, <2>5 DEF IsField
<1>4. IsField(Offer[4], DhBytes)
  <2>1. IsSeq(DhKey(<<"client", "plpl">>)) /\ Len(DhKey(<<"client", "plpl">>)) = DhBytes
    BY <1>0, BytesAre DEF DhKey
  <2>2. DhBytes < Limit
    BY AuthenticationAssumption
  <2> QED BY <1>0, <2>1, <2>2 DEF IsField, Offer
<1> QED BY <1>1, <1>2, <1>3, <1>4

LEMMA AnswerFields ==
  IsField(Answer[1], 1) /\ IsField(Answer[2], 4) /\ IsField(Answer[3], DhBytes)
<1>0. DhBytes \in Nat \ {0} /\ DhBytes < Limit /\ 1 < Limit
  <2>1. DhBytes \in Nat \ {0} /\ DhBytes < Limit /\ 4 < Limit
    BY AuthenticationAssumption
  <2>2. Limit \in Int
    BY HeaderAssumption DEF Limit
  <2> QED BY <2>1, <2>2
<1>1. IsField(Answer[1], 1)
  <2>1. IsSeq(Bytes("id", 0, 1)) /\ Len(Bytes("id", 0, 1)) = 1
    BY BytesAre
  <2> QED BY <1>0, <2>1 DEF IsField, Answer
<1>2. IsField(Answer[2], 4)
  BY EncodedKey DEF Answer
<1>3. IsField(Answer[3], DhBytes)
  <2>1. IsSeq(DhKey(<<"server", "plpl">>)) /\ Len(DhKey(<<"server", "plpl">>)) = DhBytes
    BY <1>0, BytesAre DEF DhKey
  <2> QED BY <1>0, <2>1 DEF IsField, Answer
<1> QED BY <1>1, <1>2, <1>3

(* The session reads what the client sent, also the last field, whose      *)
(* size it takes from the one before.                                      *)
LEMMA OfferRead == Fields(WithoutEnd(AuthenticationSent), Empty(4)) = Offer
<1> DEFINE X == WithoutEnd(AuthenticationSent)
<1>1. PICK p1, p2, p3, p4 : p1 = Offer[1] /\ p2 = Offer[2] /\ p3 = Offer[3] /\ p4 = Offer[4]
  OBVIOUS
<1>2. Offer = <<p1, p2, p3, p4>>
  BY <1>1 DEF Offer
<1>3. /\ IsField(p1, SignBytes + 1) /\ IsField(p2, 4)
      /\ IsField(p3, RsaBytes + 2) /\ IsField(p4, DhBytes)
  BY <1>1, OfferFields
<1>4. PICK h : h = Authenticate(Len(p1), Len(p2), Len(p3), Len(p4))
  OBVIOUS
<1>5. X = WithoutEnd(Message(h, p1, p2, p3, p4))
  BY <1>1, <1>4 DEF AuthenticationSent
<1>6. h.size1 = Len(p1) /\ h.size2 = Len(p2) /\ h.size3 = Len(p3)
  BY <1>4 DEF Authenticate
<1>7. /\ Sizes(Deserialize(X)) = <<Len(p1), Len(p2), Len(p3), Len(p3)>>
      /\ FieldOf(X, 1) = p1 /\ FieldOf(X, 2) = p2 /\ FieldOf(X, 3) = p3 /\ FieldOf(X, 4) = p4
  <2>1. /\ IsSeq(p1) /\ IsSeq(p2) /\ IsSeq(p3) /\ IsSeq(p4)
        /\ h.size1 < Limit /\ h.size2 < Limit /\ h.size3 < Limit
        /\ Len(p4) <= Len(p3)
    BY <1>3, <1>6, AuthenticationAssumption DEF IsField
  <2> QED BY <1>5, <1>6, <2>1, FieldsRead
<1>8. Len(p1) > 0 /\ Len(p2) > 0 /\ Len(p3) > 0
  BY <1>3 DEF IsField
<1> HIDE DEF X
<1>9. Fields(X, Empty(4)) = [i \in 1 .. 4 |-> <<p1, p2, p3, p4>>[i]]
  <2>1. DOMAIN Empty(4) = 1 .. 4
    BY DEF Empty
  <2>2. \A i \in 1 .. 4 : Sizes(Deserialize(X))[i] > 0 /\ FieldOf(X, i) = <<p1, p2, p3, p4>>[i]
    <3>1. \A i \in 1 .. 4 : i = 1 \/ i = 2 \/ i = 3 \/ i = 4
      OBVIOUS
    <3> QED BY <1>7, <1>8, <3>1
  <2> QED BY <2>1, <2>2 DEF Fields
<1> QED BY <1>2, <1>9 DEF X

(* The client reads what the session sent.                                 *)
LEMMA AnswerRead == Fields(WithoutEnd(StatusSent), Empty(3)) = Answer
<1> DEFINE X == WithoutEnd(StatusSent)
<1>1. PICK p1, p2, p3 : p1 = Answer[1] /\ p2 = Answer[2] /\ p3 = Answer[3]
  OBVIOUS
<1>2. Answer = <<p1, p2, p3>>
  BY <1>1 DEF Answer
<1>3. IsField(p1, 1) /\ IsField(p2, 4) /\ IsField(p3, DhBytes)
  BY <1>1, AnswerFields
<1>4. PICK h : h = Handshake(Len(p1), Len(p2), "NONE", Len(p3))
  OBVIOUS
<1>5. X = WithoutEnd(Message(h, p1, p2, p3, <<>>))
  BY <1>1, <1>4 DEF StatusSent
<1>6. h.size1 = Len(p1) /\ h.size2 = Len(p2) /\ h.size3 = Len(p3)
  BY <1>4 DEF Handshake
<1>7. /\ Sizes(Deserialize(X)) = <<Len(p1), Len(p2), Len(p3), Len(p3)>>
      /\ FieldOf(X, 1) = p1 /\ FieldOf(X, 2) = p2 /\ FieldOf(X, 3) = p3
  <2>1. /\ IsSeq(p1) /\ IsSeq(p2) /\ IsSeq(p3) /\ IsSeq(<<>>)
        /\ h.size1 < Limit /\ h.size2 < Limit /\ h.size3 < Limit
        /\ Len(<<>>) <= Len(p3)
    BY <1>3, <1>6 DEF IsField, IsSeq
  <2> QED BY <1>5, <1>6, <2>1, FieldsRead
<1>8. Len(p1) > 0 /\ Len(p2) > 0 /\ Len(p3) > 0
  BY <1>3 DEF IsField
<1> HIDE DEF X
<1>9. Fields(X, Empty(3)) = [i \in 1 .. 3 |-> <<p1, p2, p3>>[i]]
  <2>1. DOMAIN Empty(3) = 1 .. 3
    BY DEF Empty
  <2>2. \A i \in 1 .. 3 : Sizes(Deserialize(X))[i] > 0 /\ FieldOf(X, i) = <<p1, p2, p3>>[i]
    <3>1. \A i \in 1 .. 3 : i = 1 \/ i = 2 \/ i = 3
      OBVIOUS
    <3> QED BY <1>7, <1>8, <3>1
  <2> QED BY <2>1, <2>2 DEF Fields
<1> QED BY <1>2, <1>9 DEF X

(* Options that were read and agree; a side that encrypts has somebody who *)
(* does.                                                                   *)
SettingsInv ==
  /\ DOMAIN build = Sides /\ DOMAIN opt = Sides
  /\ hs # "ended" =>
       /\ opt["client"].matching = opt["server"].matching
       /\ \A s \in Sides :
            /\ opt[s].compressor \in Names(Compressors)
            /\ opt[s].doEncrypt => EncryptOrder(s) # <<>>

(* What is on the way, what has been read, and the secrets made of it.     *)
HandshakeInv ==
  /\ hs \in {"sign", "signed", "status", "run", "refused", "ended"}
  /\ DOMAIN read = Sides
  /\ hs = "signed" => wire = AuthenticationSent
  /\ hs = "status" => wire = StatusSent
  /\ hs \in {"status", "run", "refused"} => read["server"] = Offer
  /\ hs = "run" => read["client"] = Answer
  /\ hs \in {"status", "run"} =>
       \A lib \in Lib : secret[<<"server", lib>>] = CommonSecret(lib)
  /\ hs = "run" =>
       \A lib \in Lib : secret[<<"client", lib>>] = CommonSecret(lib)

(* A program that could not read its options does not get to the           *)
(* handshake.                                                              *)
LEMMA SettingsInitial == EncryptionInit => SettingsInv
<1> SUFFICES ASSUME EncryptionInit PROVE SettingsInv
  OBVIOUS
<1>1. PICK c \in Configurations :
        /\ Sound(c) /\ build = c.build
        /\ opt = [client |-> ClientOptions(c.client), server |-> ServerOptions(c.server)]
  BY DEF EncryptionInit
<1>2. DOMAIN build = Sides
  BY <1>1, EncryptionAssumption
<1>3. DOMAIN opt = Sides /\ opt["client"] = ClientOptions(c.client)
        /\ opt["server"] = ServerOptions(c.server)
  BY <1>1 DEF Sides
<1>4. ASSUME hs # "ended"
      PROVE  ServerRuns(ServerOptions(c.server)) /\ ClientRuns(ClientOptions(c.client))
  BY <1>3, <1>4 DEF EncryptionInit
<1>5. ASSUME hs # "ended"
      PROVE  ~IsNull(c.server) /\ ~IsNull(c.client)
  <2>1. ~ServerRuns(ServerDefaults)
    BY DEF ServerRuns, ServerDefaults, Zero, POLICYENUM
  <2>2. ~ClientRuns(ClientDefaults)
    BY DEF ClientRuns, ClientDefaults, MatchingDefaults, Zero, CLIENT_TYPE
  <2> QED BY <1>4, <1>5, <2>1, <2>2 DEF ServerOptions, ClientOptions
<1>6. ASSUME hs # "ended"
      PROVE  /\ opt["client"].matching = opt["server"].matching
             /\ \A s \in Sides :
                  /\ opt[s].compressor \in Names(Compressors)
                  /\ opt[s].doEncrypt => EncryptOrder(s) # <<>>
  <2>1. /\ opt["client"].matching = Matching(c.client)
        /\ opt["server"].matching = Matching(c.server)
        /\ opt["client"].compressor = TranslateCompressorString(c.client.json.Compression)
        /\ opt["server"].compressor = TranslateCompressorString(c.server.json.Compression)
    BY <1>3, <1>5, <1>6 DEF ClientOptions, ServerOptions
  <2> DEFINE common == Matching(c.client)
  <2>2. /\ common = Matching(c.server)
        /\ \/ common.doubleEncryption
           \/ common.singleEncryptor \in {"CRYPTOSODIUM", "CRYPTOPP"}
           \/ ~opt["client"].doEncrypt /\ ~opt["server"].doEncrypt
    BY <1>1, <1>3, <1>5, <1>6 DEF Sound
  <2>3. \A x : TranslateCompressorString(x) \in Names(Compressors)
    <3>1. {"NONE", "LZ4", "SNAPPY", "ZSTD"} \subseteq Names(Compressors)
      <4>1. \A n \in {"NONE", "LZ4", "SNAPPY", "ZSTD"} : \E k \in 1 .. 4 : Compressors[k] = n
        BY DEF Compressors
      <4>2. DOMAIN Compressors = 1 .. 4
        BY DEF Compressors
      <4> QED BY <4>1, <4>2 DEF Names
    <3> QED BY <3>1 DEF TranslateCompressorString, Known
  <2> HIDE DEF common
  <2>4. \A s \in Sides : opt[s].matching = common
    BY <2>1, <2>2 DEF Sides, common
  <2>5. ASSUME NEW s \in Sides, opt[s].doEncrypt
        PROVE  EncryptOrder(s) # <<>>
    <3>1. common.doubleEncryption \/ common.singleEncryptor \in {"CRYPTOSODIUM", "CRYPTOPP"}
      BY <2>2, <2>5 DEF Sides
    <3> QED BY <2>4, <3>1 DEF EncryptOrder, Single
  <2>6. \A s \in Sides : opt[s].compressor \in Names(Compressors)
    BY <2>1, <2>3 DEF Sides
  <2> QED BY <2>1, <2>2, <2>5, <2>6 DEF common
<1> QED BY <1>2, <1>3, <1>6 DEF SettingsInv

LEMMA HandshakeInitial == EncryptionInit => HandshakeInv
BY DEF EncryptionInit, HandshakeInv, Sides

(* The secrets the two sides get of what they have read.                   *)
LEMMA ServerSecrets ==
  /\ ServerSessionKey(<<"server", "sodium">>, Offer[2]) = CommonSecret("sodium")
  /\ AgreedValue(<<"server", "plpl">>, Before(Offer[4], DhBytes)) = CommonSecret("plpl")
<1>1. ServerSessionKey(<<"server", "sodium">>, Offer[2]) = CommonSecret("sodium")
  BY EncodedKey DEF ServerSessionKey, Offer, CommonSecret
<1>2. Before(DhKey(<<"client", "plpl">>), DhBytes) = DhKey(<<"client", "plpl">>)
  <2>1. PICK k : k = DhKey(<<"client", "plpl">>)
    OBVIOUS
  <2>2. DhBytes \in Nat /\ IsSeq(k) /\ Len(k) = DhBytes
    BY <2>1, AuthenticationAssumption, BytesAre DEF DhKey
  <2>3. PICK S : k \in Seq(S)
    BY <2>2 DEF IsSeq
  <2>4. k \o <<>> = k /\ Len(k) - Len(<<>>) = DhBytes
    BY <2>2, <2>3
  <2>5. SubSeq(k \o <<>>, 1, Len(k \o <<>>) - Len(<<>>)) = k
    BY <2>3, EndOff
  <2> QED BY <2>1, <2>4, <2>5 DEF Before
<1>3. AgreedValue(<<"server", "plpl">>, DhKey(<<"client", "plpl">>)) = CommonSecret("plpl")
  BY DEF AgreedValue, CommonSecret
<1>4. Offer[4] = DhKey(<<"client", "plpl">>)
  BY DEF Offer
<1> QED BY <1>1, <1>2, <1>3, <1>4

LEMMA ClientSecrets ==
  /\ ClientSessionKey(<<"client", "sodium">>, Answer[2]) = CommonSecret("sodium")
  /\ AgreedValue(<<"client", "plpl">>, Answer[3]) = CommonSecret("plpl")
<1>1. ClientSessionKey(<<"client", "sodium">>, Answer[2]) = CommonSecret("sodium")
  BY EncodedKey DEF ClientSessionKey, Answer, CommonSecret
<1>2. AgreedValue(<<"client", "plpl">>, Answer[3]) = CommonSecret("plpl")
  BY DEF AgreedValue, Answer, CommonSecret
<1> QED BY <1>1, <1>2

LEMMA ObjectsAre == \A s \in Sides, lib \in Lib : <<s, lib>> \in Object
BY EncryptionAssumption DEF Sides, Lib

LEMMA SecretsAre ==
  ASSUME NEW side \in Sides, NEW a, NEW b
  PROVE  /\ \A lib \in Lib : Secrets(side, a, b)[<<side, lib>>] = IF lib = "sodium" THEN a ELSE b
         /\ \A other \in Sides \ {side}, lib \in Lib :
              Secrets(side, a, b)[<<other, lib>>] = secret[<<other, lib>>]
BY ObjectsAre DEF Secrets, Lib

LEMMA SendSignatureStep ==
  ASSUME HandshakeInv, SendSignature
  PROVE  HandshakeInv'
BY DEF SendSignature, HandshakeInv, AuthenticationSent, Offer, settings

LEMMA ServerReads ==
  ASSUME HandshakeInv, ConstructSession \/ RefuseSession
  PROVE  read' = [read EXCEPT !["server"] = Offer] /\ UNCHANGED Offer /\ read'["server"] = Offer
<1>1. hs = "signed" /\ UNCHANGED build
      /\ read' = [read EXCEPT !["server"] = Fields(WithoutEnd(wire), Empty(4))]
  BY DEF ConstructSession, RefuseSession, settings
<1>2. Fields(WithoutEnd(wire), Empty(4)) = Offer
  BY <1>1, OfferRead DEF HandshakeInv
<1>3. UNCHANGED Offer
  BY <1>1 DEF Offer
<1> QED BY <1>1, <1>2, <1>3 DEF HandshakeInv, Sides

LEMMA ConstructSessionStep ==
  ASSUME HandshakeInv, ConstructSession
  PROVE  HandshakeInv'
<1>1. read' = [read EXCEPT !["server"] = Offer] /\ Offer' = Offer /\ read'["server"] = Offer
  BY ServerReads
<1>2. \A lib \in Lib : secret'[<<"server", lib>>] = CommonSecret(lib)
  <2>1. secret' = Secrets("server", ServerSessionKey(<<"server", "sodium">>, Offer[2]),
                          AgreedValue(<<"server", "plpl">>, Before(Offer[4], DhBytes)))
    BY <1>1 DEF ConstructSession
  <2>2. secret' = Secrets("server", CommonSecret("sodium"), CommonSecret("plpl"))
    BY <2>1, ServerSecrets
  <2> QED BY <2>2, SecretsAre DEF Sides, Lib
<1>3. wire' = StatusSent /\ StatusSent' = StatusSent /\ hs' = "status"
  BY DEF ConstructSession, StatusSent, Answer
<1>4. DOMAIN read' = Sides
  BY <1>1 DEF HandshakeInv
<1>5. CommonSecret("sodium")' = CommonSecret("sodium") /\ CommonSecret("plpl")' = CommonSecret("plpl")
  BY DEF CommonSecret
<1> QED BY <1>1, <1>2, <1>3, <1>4, <1>5 DEF HandshakeInv, Lib

LEMMA RefuseSessionStep ==
  ASSUME HandshakeInv, RefuseSession
  PROVE  HandshakeInv'
<1>1. read' = [read EXCEPT !["server"] = Offer] /\ Offer' = Offer /\ read'["server"] = Offer
  BY ServerReads
<1>2. hs' = "refused"
  BY DEF RefuseSession
<1> QED BY <1>1, <1>2 DEF HandshakeInv

LEMMA ClientKeyExchangeStep ==
  ASSUME HandshakeInv, ClientKeyExchange
  PROVE  HandshakeInv'
<1>1. read' = [read EXCEPT !["client"] = Answer] /\ read'["client"] = Answer
  <2>1. Fields(WithoutEnd(wire), Empty(3)) = Answer
    BY AnswerRead DEF HandshakeInv, ClientKeyExchange
  <2> QED BY <2>1 DEF ClientKeyExchange, HandshakeInv, Sides
<1>2. secret' = Secrets("client", CommonSecret("sodium"), CommonSecret("plpl"))
  <2>1. secret' = Secrets("client", ClientSessionKey(<<"client", "sodium">>, Answer[2]),
                          AgreedValue(<<"client", "plpl">>, Answer[3]))
    BY <1>1 DEF ClientKeyExchange
  <2> QED BY <2>1, ClientSecrets
<1>3. \A lib \in Lib : /\ secret'[<<"client", lib>>] = CommonSecret(lib)
                       /\ secret'[<<"server", lib>>] = secret[<<"server", lib>>]
  BY <1>2, SecretsAre DEF Sides, Lib
<1>4. hs = "status" /\ hs' = "run" /\ Offer' = Offer /\ Answer' = Answer
  BY DEF ClientKeyExchange, settings, Offer, Answer
<1>5. read'["server"] = Offer /\ DOMAIN read' = Sides
  BY <1>1, <1>4 DEF HandshakeInv
<1> QED BY <1>1, <1>3, <1>4, <1>5 DEF HandshakeInv

LEMMA InitializeStep ==
  ASSUME HandshakeInv, Initialize
  PROVE  HandshakeInv'
<1>1. /\ hs' = "run" /\ Offer' = Offer /\ Answer' = Answer
      /\ read' = [s \in Sides |-> IF s = "server" THEN Offer ELSE Answer]
  BY DEF Initialize, settings, Offer, Answer
<1>2. DOMAIN read' = Sides /\ read'["server"] = Offer /\ read'["client"] = Answer
  BY <1>1 DEF Sides
<1>3. \A s \in Sides, lib \in Lib : secret'[<<s, lib>>] = CommonSecret(lib)
  <2> SUFFICES ASSUME NEW s \in Sides, NEW lib \in Lib
               PROVE  secret'[<<s, lib>>] = CommonSecret(lib)
    OBVIOUS
  <2> DEFINE o == <<s, lib>>
             p == <<IF s = "client" THEN "server" ELSE "client", lib>>
  <2>1. o \in Object /\ Peer(o) = p
    BY ObjectsAre DEF Peer
  <2>2. secret'[o] = IF lib = "plpl" THEN AgreedValue(o, DhKey(p))
                     ELSE IF s = "server" THEN ServerSessionKey(o, SodiumEncodedKey(p))
                     ELSE ClientSessionKey(o, SodiumEncodedKey(p))
    BY <2>1 DEF Initialize
  <2>3. CASE lib = "plpl"
    <3>1. {DhKey(o), DhKey(p)} = {DhKey(<<"client", lib>>), DhKey(<<"server", lib>>)}
      BY DEF Sides
    <3>2. secret'[o] = <<"dh", {DhKey(o), DhKey(p)}>>
      BY <2>2, <2>3 DEF AgreedValue
    <3> QED BY <2>3, <3>1, <3>2 DEF CommonSecret
  <2>4. CASE lib = "sodium" /\ s = "server"
    BY <2>2, <2>4, EncodedKey DEF ServerSessionKey, CommonSecret
  <2>5. CASE lib = "sodium" /\ s = "client"
    BY <2>2, <2>5, EncodedKey DEF ClientSessionKey, CommonSecret
  <2> QED BY <2>3, <2>4, <2>5 DEF Lib, Sides
<1> QED BY <1>1, <1>2, <1>3 DEF HandshakeInv, Sides

(* Once it is over, nothing of the handshake changes.                      *)
LEMMA HandshakeKept ==
  ASSUME HandshakeInv, UNCHANGED <<settings, handshake>>
  PROVE  HandshakeInv'
BY DEF HandshakeInv, settings, handshake, AuthenticationSent, StatusSent, Offer, Answer, CommonSecret

LEMMA AfterHandshake ==
  ASSUME (\E t \in Thread : Crypto(t)) \/ Conversing
  PROVE  UNCHANGED <<settings, handshake>>
<1>1. ASSUME NEW t \in Thread, Crypto(t)
      PROVE  UNCHANGED <<settings, handshake>>
  BY <1>1 DEF Crypto, Enter, PassPlain, SetKey, Apply, appVars
<1>2. ASSUME Conversing PROVE UNCHANGED <<settings, handshake>>
  BY <1>2 DEF Conversing, BuilderCreates, BuilderStores, SessionReceives, SessionReplies,
    SessionSends, ClientSends, ClientReceives, ClientPrints
<1> QED BY <1>1, <1>2

LEMMA HandshakeInductive ==
  SettingsInv /\ HandshakeInv /\ [EncryptionNext]_encVars => SettingsInv' /\ HandshakeInv'
<1> SUFFICES ASSUME SettingsInv, HandshakeInv, [EncryptionNext]_encVars
             PROVE  SettingsInv' /\ HandshakeInv'
  OBVIOUS
<1>1. CASE UNCHANGED encVars
  <2>1. UNCHANGED <<settings, handshake>>
    BY <1>1 DEF encVars, appVars
  <2> QED BY <2>1, HandshakeKept DEF SettingsInv, settings, handshake, EncryptOrder, Single
<1>2. ASSUME NEW t \in Thread, ThreadStep(t) PROVE SettingsInv' /\ HandshakeInv'
  <2>1. CASE Crypto(t) \/ Conversing
    <3>1. UNCHANGED <<settings, handshake>>
      BY <2>1, AfterHandshake
    <3> QED BY <3>1, HandshakeKept DEF SettingsInv, settings, handshake, EncryptOrder, Single
  <2>2. CASE SendSignature \/ ConstructSession \/ RefuseSession \/ ClientKeyExchange \/ Initialize
    <3>1. UNCHANGED <<build, opt>> /\ hs # "ended"
      BY <2>2 DEF SendSignature, ConstructSession, RefuseSession, ClientKeyExchange, Initialize,
        settings
    <3>2. SettingsInv'
      BY <3>1 DEF SettingsInv, EncryptOrder, Single
    <3>3. HandshakeInv'
      BY <2>2, SendSignatureStep, ConstructSessionStep, RefuseSessionStep,
        ClientKeyExchangeStep, InitializeStep
    <3> QED BY <3>2, <3>3
  <2> QED BY <1>2, <2>1, <2>2 DEF ThreadStep, Conversing
<1> QED BY <1>1, <1>2 DEF EncryptionNext

(* processMessage of either side finds the fields the other has sent, and  *)
(* the two sides have the same secret for each library, whatever they are  *)
(* made of: the codes of the header, the offsets of the fields, the last   *)
(* field with the size of the one before and base64 are right for all      *)
(* sizes.                                                                  *)
THEOREM HandshakeIntactAlways == EncryptionSpec => []HandshakeIntact
<1>1. EncryptionInit => SettingsInv /\ HandshakeInv
  BY SettingsInitial, HandshakeInitial
<1>2. HandshakeInv => HandshakeIntact
  BY DEF HandshakeInv, HandshakeIntact
<1> QED BY <1>1, <1>2, HandshakeInductive, PTL DEF EncryptionSpec

-----------------------------------------------------------------------------
(* Requests and replies.                                                   *)

(* What an encryptor puts on a text in a conversation, and the text of     *)
(* request n, or of its reply, with the layers of some encryptors.         *)
Layer(lib) == <<lib, {}, CommonSecret(lib)>>
Sent(order, compressor, n) ==
  [data |-> Compress(compressor, Request(n)), header |-> compressor,
   layers |-> [i \in 1 .. Len(order) |-> Layer(order[i])]]

(* On the way to it: the encryptors passed made the layers, and the others *)
(* are left.                                                               *)
Encrypts(w, order, compressor, n) ==
  LET m == w.msg IN
  /\ m \in TextSet /\ w.libs \in Seq(Lib)
  /\ m.data = Compress(compressor, Request(n))
  /\ m.header = IF order # <<>> /\ m.layers = <<>> THEN None ELSE compressor
  /\ Len(m.layers) + Len(w.libs) = Len(order)
  /\ \A i \in 1 .. Len(m.layers) : m.layers[i] = Layer(order[i])
  /\ \A i \in 1 .. Len(w.libs) : w.libs[i] = order[Len(m.layers) + i]

(* On the way back: the encryptors left are those of the layers, from the  *)
(* last one.                                                               *)
Decrypts(w, compressor, n) ==
  LET m == w.msg IN
  /\ m \in TextSet /\ w.libs \in Seq(Lib)
  /\ m.data = Compress(compressor, Request(n)) /\ m.header = compressor
  /\ m.layers # <<>> =>
       /\ Len(w.libs) = Len(m.layers)
       /\ \A i \in 1 .. Len(w.libs) : m.layers[Len(m.layers) + 1 - i] = Layer(w.libs[i])

Layers == Lib \X (SUBSET Obfuscator) \X {CommonSecret(lib) : lib \in Lib}

LEMMA LayerIs == \A lib \in Lib : Layer(lib) \in Layers
BY DEF Layer, Layers

LEMMA RequestIs ==
  ASSUME NEW n \in Nat
  PROVE  IsSeq(Request(n)) /\ Len(Request(n)) = n
BY BytesAre DEF Request

(* Every compressor gives back what it was given.                          *)
LEMMA LZ4Inverse ==
  ASSUME NEW d, IsSeq(d)
  PROVE  UncompressLZ4(CompressLZ4(d)) = d
<1> DEFINE b == Block("LZ4", d)
           m == NumberInBuffer(Len(d))
<1>1. b[1] = <<"LZ4", d, 1>> /\ IsSeq(b) /\ Len(b) = 1
  <2>1. b = [k \in 1 .. 1 |-> <<"LZ4", d, k>>]
    BY DEF Block, Bytes
  <2>2. IsSeq(b) /\ Len(b) = 1
    BY BytesAre DEF Block
  <2> QED BY <2>1, <2>2
<1>2. IsSeq(m) /\ Len(m) = ConvBufferSize /\ m[1][1] = "digits" /\ m[1][2] = Len(d)
  <2> DEFINE x == Bytes("digits", Len(d), 1)
             z == Bytes("zero", 0, ConvBufferSize - 1)
  <2>1. ConvBufferSize \in Nat \ {0}
    BY CompressionAssumption
  <2>2. IsSeq(x) /\ Len(x) = 1 /\ x[1] = <<"digits", Len(d), 1>>
    <3>1. x = [k \in 1 .. 1 |-> <<"digits", Len(d), k>>]
      BY DEF Bytes
    <3>2. IsSeq(x) /\ Len(x) = 1
      BY BytesAre
    <3> QED BY <3>1, <3>2
  <2>3. IsSeq(z) /\ Len(z) = ConvBufferSize - 1
    BY <2>1, BytesAre
  <2>4. m = x \o z
    BY DEF NumberInBuffer
  <2> HIDE DEF x, z, m
  <2>5. PICK S : x \in Seq(S) /\ z \in Seq(S)
    BY <2>2, <2>3, Together
  <2>6. /\ m \in Seq(S) /\ Len(m) = Len(x) + Len(z)
        /\ \A i \in 1 .. Len(x) : m[i] = x[i]
    BY <2>4, <2>5, Joined
  <2> QED BY <2>1, <2>2, <2>3, <2>6 DEF IsSeq
<1>3. b[1][1] = "LZ4" /\ b[1][2] = d
  BY <1>1
<1> HIDE DEF b, m
<1>4. PICK S : b \in Seq(S) /\ m \in Seq(S)
  BY <1>1, <1>2, Together
<1>5. PICK s : s = b \o m
  OBVIOUS
<1>6. /\ s \in Seq(S) /\ Len(s) = Len(b) + Len(m)
      /\ \A i \in 1 .. Len(m) : s[Len(b) + i] = m[i]
  BY <1>4, <1>5, Joined
<1>7. SubSeq(s, 1, Len(s) - Len(m)) = b
  BY <1>4, <1>5, EndOff
<1>8. Len(s) = 1 + ConvBufferSize /\ ConvBufferSize \in Nat \ {0}
  BY <1>1, <1>2, <1>6, CompressionAssumption
<1>9. SubSeq(s, 1 + 1, 1 + Len(m)) = m
  <2>1. 1 + Len(m) <= Len(s) /\ \A i \in 1 .. Len(m) : s[1 + i] = m[i]
    BY <1>1, <1>2, <1>6, <1>8
  <2> QED BY <1>4, <1>6, <2>1, Slice
<1>10. UncompressLZ4(s) =
         IF IsNumber(m) /\ IsBlock("LZ4", b) /\ Len(Content(b)) <= FromChars(m)
         THEN Content(b) ELSE Nothing
  <2>1. /\ Len(s) - ConvBufferSize = 1 /\ Len(s) - Len(m) = 1
        /\ 1 + Len(m) = Len(s)
    BY <1>2, <1>8
  <2>2. SubSeq(s, 1, 1) = b /\ SubSeq(s, 1 + 1, Len(s)) = m
    BY <1>7, <1>9, <2>1
  <2> QED BY <2>1, <2>2 DEF UncompressLZ4
<1>11. IsNumber(m) /\ IsBlock("LZ4", b) /\ Content(b) = d /\ FromChars(m) = Len(d)
  <2>1. m # <<>>
    BY <1>2, <1>8
  <2> QED BY <1>1, <1>2, <1>3, <2>1 DEF IsNumber, IsBlock, Content, FromChars
<1>12. Len(d) <= Len(d)
  BY LenProperties DEF IsSeq
<1>13. s = CompressLZ4(d)
  BY <1>5 DEF CompressLZ4, b, m
<1> QED BY <1>10, <1>11, <1>12, <1>13

LEMMA UncompressInverse ==
  ASSUME NEW compressor, NEW d, IsSeq(d)
  PROVE  Uncompress(compressor, Compress(compressor, d)) = d
<1>1. ASSUME NEW lib PROVE IsBlock(lib, Block(lib, d)) /\ Content(Block(lib, d)) = d
  <2>1. Block(lib, d) = [k \in 1 .. 1 |-> <<lib, d, k>>]
    BY DEF Block, Bytes
  <2>2. Len(Block(lib, d)) = 1
    BY BytesAre DEF Block
  <2> QED BY <2>1, <2>2 DEF IsBlock, Content
<1>2. CASE compressor = "LZ4"
  BY <1>2, LZ4Inverse DEF Compress, Uncompress
<1>3. CASE compressor = "SNAPPY"
  BY <1>1, <1>3 DEF Compress, Uncompress, CompressSnappy, UncompressSnappy
<1>4. CASE compressor = "ZSTD"
  BY <1>1, <1>4 DEF Compress, Uncompress, CompressZSTD, UncompressZSTD
<1>5. CASE compressor \notin {"LZ4", "SNAPPY", "ZSTD"}
  BY <1>5 DEF Compress, Uncompress
<1> QED BY <1>2, <1>3, <1>4, <1>5

LEMMA TextFields ==
  ASSUME NEW m \in TextSet
  PROVE  /\ m.header \in Names(Compressors) \union {None} /\ m.layers \in Seq(Layers)
         /\ m = [data |-> m.data, header |-> m.header, layers |-> m.layers]
         /\ \A h \in Names(Compressors) \union {None}, l \in Seq(Layers) :
              [data |-> m.data, header |-> h, layers |-> l] \in TextSet
BY DEF TextSet, Layers

LEMMA NewText ==
  ASSUME NEW c \in Names(Compressors), NEW n \in 1 .. MaxMessages,
         NEW h \in Names(Compressors) \union {None}, NEW l \in Seq(Layers)
  PROVE  [data |-> Compress(c, Request(n)), header |-> h, layers |-> l] \in TextSet
<1>1. Request(n) \in Contents
  BY DEF Contents
<1>2. Compress(c, Request(n)) \in {Compress(x, d) : x \in Names(Compressors), d \in Contents}
  BY <1>1
<1> QED BY <1>2 DEF TextSet, Layers

LEMMA EncryptStarts ==
  ASSUME NEW order \in Seq(Lib), NEW c \in Names(Compressors), NEW n \in 1 .. MaxMessages,
         NEW w, w.libs = order,
         w.msg = [data |-> Compress(c, Request(n)),
                  header |-> IF order # <<>> THEN None ELSE c, layers |-> <<>>]
  PROVE  Encrypts(w, order, c, n)
<1> DEFINE m == w.msg
<1>1. m.data = Compress(c, Request(n)) /\ m.layers = <<>>
        /\ m.header = IF order # <<>> THEN None ELSE c
  OBVIOUS
<1>2. m \in TextSet
  <2>1. PICK h : h = IF order # <<>> THEN None ELSE c
    OBVIOUS
  <2>2. h \in Names(Compressors) \union {None} /\ <<>> \in Seq(Layers)
    BY <2>1
  <2>3. m = [data |-> Compress(c, Request(n)), header |-> h, layers |-> <<>>]
    BY <2>1
  <2> HIDE DEF m
  <2> QED BY <2>2, <2>3, NewText
<1> HIDE DEF m
<1>3. Len(m.layers) = 0 /\ Len(w.libs) = Len(order) /\ Len(order) \in Nat
  BY <1>1, LenProperties
<1>4. \A i \in 1 .. Len(w.libs) : w.libs[i] = order[Len(m.layers) + i]
  BY <1>3
<1> QED BY <1>1, <1>2, <1>3, <1>4 DEF Encrypts, m

(* An encryptor puts its layer on.                                         *)
LEMMA EncryptGoesOn ==
  ASSUME NEW order \in Seq(Lib), NEW c \in Names(Compressors), NEW n, NEW w, NEW x,
         Encrypts(w, order, c, n), w.libs # <<>>,
         x.libs = Tail(w.libs),
         x.msg = [data |-> w.msg.data, header |-> IF w.msg.header = None THEN c ELSE w.msg.header,
                  layers |-> Append(w.msg.layers, Layer(Head(w.libs)))]
  PROVE  Encrypts(x, order, c, n)
<1> DEFINE m == w.msg
           l == m.layers
           lib == Head(w.libs)
           k == x.msg.layers
<1>1. /\ m \in TextSet /\ w.libs \in Seq(Lib)
      /\ m.data = Compress(c, Request(n))
      /\ m.header = IF order # <<>> /\ l = <<>> THEN None ELSE c
      /\ Len(l) + Len(w.libs) = Len(order)
      /\ \A i \in 1 .. Len(l) : l[i] = Layer(order[i])
      /\ \A i \in 1 .. Len(w.libs) : w.libs[i] = order[Len(l) + i]
  BY DEF Encrypts
<1>2. l \in Seq(Layers) /\ m.header \in Names(Compressors) \union {None}
  BY <1>1, TextFields
<1>3. lib \in Lib /\ lib = w.libs[1] /\ Len(w.libs) \in Nat \ {0}
      /\ Tail(w.libs) \in Seq(Lib) /\ Len(Tail(w.libs)) = Len(w.libs) - 1
      /\ \A i \in 1 .. Len(w.libs) - 1 : Tail(w.libs)[i] = w.libs[i + 1]
  BY <1>1, HeadTailProperties, EmptySeq
<1>4. Layer(lib) \in Layers
  BY <1>3, LayerIs
<1>5. /\ x.msg.data = m.data /\ x.msg.header = c /\ k = Append(l, Layer(lib))
  <2>1. None \notin Names(Compressors)
    BY EncryptionAssumption
  <2> QED BY <1>1, <2>1
<1>6. /\ k \in Seq(Layers) /\ k # <<>> /\ Len(k) = Len(l) + 1
      /\ \A i \in 1 .. Len(l) : k[i] = l[i]
      /\ k[Len(l) + 1] = Layer(lib)
  <2> HIDE DEF l, lib, k
  <2> QED BY <1>2, <1>4, <1>5, AppendProperties
<1>7. x.msg \in TextSet
  <2>1. x.msg = [data |-> m.data, header |-> c, layers |-> k]
    BY <1>1, <1>5
  <2> HIDE DEF m, l, lib, k
  <2>2. [data |-> m.data, header |-> c, layers |-> k] \in TextSet
    BY <1>1, <1>6, TextFields
  <2> QED BY <2>1, <2>2
<1> HIDE DEF m, l, lib, k
<1>8. Len(l) \in Nat
  BY <1>2, LenProperties
<1>9. Layer(lib) = Layer(order[Len(l) + 1])
  BY <1>1, <1>3
<1>10. \A i \in 1 .. Len(k) : k[i] = Layer(order[i])
  <2>1. \A i \in 1 .. Len(k) : i \in 1 .. Len(l) \/ i = Len(l) + 1
    BY <1>6, <1>8
  <2> QED BY <1>1, <1>6, <1>9, <2>1
<1>11. \A i \in 1 .. Len(x.libs) : x.libs[i] = order[Len(k) + i]
  <2>1. \A i \in 1 .. Len(x.libs) :
          i + 1 \in 1 .. Len(w.libs) /\ Len(l) + (i + 1) = Len(k) + i /\ i \in 1 .. Len(w.libs) - 1
    BY <1>3, <1>6, <1>8
  <2> QED BY <1>1, <1>3, <2>1
<1>12. Len(k) + Len(x.libs) = Len(order)
  <2>1. Len(x.libs) = Len(w.libs) - 1 /\ Len(k) = Len(l) + 1 /\ Len(w.libs) \in Nat
    BY <1>3, <1>6
  <2>2. Len(l) + Len(w.libs) = Len(order)
    BY <1>1
  <2>3. \A p, q \in Nat : (p + 1) + (q - 1) = p + q
    OBVIOUS
  <2>4. (Len(l) + 1) + (Len(w.libs) - 1) = Len(l) + Len(w.libs)
    BY <1>8, <2>1, <2>3
  <2> QED BY <2>1, <2>2, <2>4
<1>13. x.msg.data = Compress(c, Request(n)) /\ x.msg.header = c
  BY <1>1, <1>5
<1>14. x.libs \in Seq(Lib) /\ x.msg.layers = k
  BY <1>3 DEF k
<1> QED BY <1>6, <1>7, <1>10, <1>11, <1>12, <1>13, <1>14 DEF Encrypts

(* When the last one has, the text is the one to send.                     *)
LEMMA EncryptEnds ==
  ASSUME NEW order \in Seq(Lib), NEW c, NEW n, NEW w,
         Encrypts(w, order, c, n), w.libs = <<>>
  PROVE  w.msg = Sent(order, c, n)
<1> DEFINE m == w.msg
           l == m.layers
<1>1. /\ m \in TextSet
      /\ m.data = Compress(c, Request(n))
      /\ m.header = IF order # <<>> /\ l = <<>> THEN None ELSE c
      /\ Len(l) + Len(w.libs) = Len(order)
      /\ \A i \in 1 .. Len(l) : l[i] = Layer(order[i])
  BY DEF Encrypts
<1>2. l \in Seq(Layers) /\ m = [data |-> m.data, header |-> m.header, layers |-> l]
  BY <1>1, TextFields
<1> HIDE DEF m, l
<1>3. Len(l) = Len(order)
  BY <1>1, <1>2, LenProperties
<1>4. l = [i \in 1 .. Len(order) |-> Layer(order[i])]
  <2>1. l = [i \in 1 .. Len(l) |-> l[i]]
    BY <1>2, LenProperties
  <2> QED BY <1>1, <1>3, <2>1
<1>5. m.header = c
  <2>1. order # <<>> => l # <<>>
    BY <1>2, <1>3, EmptySeq
  <2> QED BY <1>1, <2>1
<1> QED BY <1>1, <1>2, <1>4, <1>5 DEF m, Sent

LEMMA SentIsText ==
  ASSUME NEW order \in Seq(Lib), NEW c \in Names(Compressors), NEW n \in 1 .. MaxMessages
  PROVE  Sent(order, c, n) \in TextSet
<1> DEFINE l == [i \in 1 .. Len(order) |-> Layer(order[i])]
<1>1. Len(order) \in Nat /\ \A i \in 1 .. Len(order) : Layer(order[i]) \in Layers
  BY LayerIs, LenProperties, ElementOfSeq
<1>2. l \in Seq(Layers)
  BY <1>1
<1> HIDE DEF l
<1>3. [data |-> Compress(c, Request(n)), header |-> c, layers |-> l] \in TextSet
  BY <1>2, NewText
<1> QED BY <1>3 DEF Sent, l

(* The other side begins with the last layer, if there is one: its order   *)
(* is the reverse.                                                         *)
LEMMA DecryptStarts ==
  ASSUME NEW order \in Seq(Lib), NEW back \in Seq(Lib),
         NEW c \in Names(Compressors), NEW n \in 1 .. MaxMessages,
         NEW w, w.msg = Sent(order, c, n), w.libs = back,
         order # <<>> =>
           /\ Len(back) = Len(order)
           /\ \A i \in 1 .. Len(back) : order[Len(order) + 1 - i] = back[i]
  PROVE  Decrypts(w, c, n)
<1> DEFINE m == w.msg
           l == m.layers
<1>1. /\ m.data = Compress(c, Request(n)) /\ m.header = c
      /\ l = [i \in 1 .. Len(order) |-> Layer(order[i])]
  BY DEF Sent
<1>2. m \in TextSet
  BY SentIsText
<1> HIDE DEF m, l
<1>3. Len(order) \in Nat /\ Len(l) = Len(order) /\ (l # <<>> => order # <<>>)
  <2>1. Len(order) \in Nat
    BY LenProperties
  <2>2. Len(l) = Len(order)
    BY <1>1, <2>1
  <2>3. l \in Seq(Layers)
    BY <1>2, TextFields DEF l
  <2> QED BY <2>1, <2>2, <2>3, EmptySeq
<1>4. ASSUME l # <<>>, NEW i \in 1 .. Len(back)
      PROVE  l[Len(l) + 1 - i] = Layer(back[i])
  <2>1. Len(back) = Len(order) /\ order[Len(order) + 1 - i] = back[i]
    BY <1>3, <1>4
  <2>2. Len(order) + 1 - i \in 1 .. Len(order)
    BY <1>3, <2>1
  <2> QED BY <1>1, <1>3, <2>1, <2>2
<1>5. l # <<>> => Len(back) = Len(l)
  BY <1>3
<1> QED BY <1>1, <1>2, <1>4, <1>5 DEF Decrypts, m, l

(* A layer comes off.                                                      *)
LEMMA DecryptGoesOn ==
  ASSUME NEW c, NEW n, NEW w, NEW x,
         Decrypts(w, c, n), w.libs # <<>>, w.msg.layers # <<>>,
         x.libs = Tail(w.libs), x.msg = Opened(w.msg, Layer(Head(w.libs)))
  PROVE  Decrypts(x, c, n)
<1> DEFINE m == w.msg
           l == m.layers
           lib == Head(w.libs)
           k == Front(l)
<1>1. /\ m \in TextSet /\ w.libs \in Seq(Lib)
      /\ m.data = Compress(c, Request(n)) /\ m.header = c
      /\ Len(w.libs) = Len(l)
      /\ \A i \in 1 .. Len(w.libs) : l[Len(l) + 1 - i] = Layer(w.libs[i])
  BY DEF Decrypts
<1>2. l \in Seq(Layers) /\ m = [data |-> m.data, header |-> m.header, layers |-> l]
  BY <1>1, TextFields
<1>3. lib = w.libs[1] /\ Len(w.libs) \in Nat \ {0}
      /\ Tail(w.libs) \in Seq(Lib) /\ Len(Tail(w.libs)) = Len(w.libs) - 1
      /\ \A i \in 1 .. Len(w.libs) - 1 : Tail(w.libs)[i] = w.libs[i + 1]
  BY <1>1, HeadTailProperties, EmptySeq
<1> HIDE DEF m, l, lib, k
<1>4. Last(l) = Layer(lib)
  <2>1. l[Len(l) + 1 - 1] = Layer(w.libs[1])
    BY <1>1, <1>3
  <2>2. Len(l) + 1 - 1 = Len(l)
    BY <1>1, <1>3
  <2> QED BY <1>3, <2>1, <2>2 DEF Last
<1>5. x.msg = [m EXCEPT !.layers = k]
  BY <1>4 DEF Opened, m, l, lib, k
<1>6. x.msg = [data |-> m.data, header |-> m.header, layers |-> k]
  BY <1>2, <1>5
<1>7. /\ k \in Seq(Layers) /\ Len(k) = Len(l) - 1
      /\ \A i \in 1 .. Len(l) - 1 : k[i] = l[i]
  <2>1. Len(l) - 1 \in Int /\ \A i \in 1 .. Len(l) - 1 : l[i] \in Layers
    BY <1>1, <1>2, <1>3, ElementOfSeq
  <2>2. /\ SubSeq(l, 1, Len(l) - 1) \in Seq(Layers)
        /\ Len(SubSeq(l, 1, Len(l) - 1)) =
             IF 1 <= Len(l) - 1 THEN (Len(l) - 1) - 1 + 1 ELSE 0
        /\ \A i \in 1 .. (Len(l) - 1) - 1 + 1 : SubSeq(l, 1, Len(l) - 1)[i] = l[1 + i - 1]
    BY <2>1, SubSeqProperties
  <2>3. k = SubSeq(l, 1, Len(l) - 1)
    BY DEF k, Front
  <2>4. Len(l) \in Nat \ {0}
    BY <1>1, <1>3
  <2>5. /\ k \in Seq(Layers) /\ Len(k) = IF 1 <= Len(l) - 1 THEN (Len(l) - 1) - 1 + 1 ELSE 0
        /\ \A i \in 1 .. (Len(l) - 1) - 1 + 1 : k[i] = l[1 + i - 1]
    BY <2>2, <2>3
  <2>6. PICK p : p = Len(l) - 1
    OBVIOUS
  <2>7. p \in Nat /\ (1 <= p \/ p = 0) /\ p - 1 + 1 = p
    BY <2>4, <2>6
  <2>8. /\ Len(k) = IF 1 <= p THEN p - 1 + 1 ELSE 0
        /\ \A i \in 1 .. p - 1 + 1 : k[i] = l[1 + i - 1]
    BY <2>5, <2>6
  <2>9. Len(k) = p
    BY <2>7, <2>8
  <2>10. \A i \in 1 .. p : k[i] = l[i]
    <3>1. \A i \in 1 .. p : 1 + i - 1 = i
      BY <2>7
    <3> QED BY <2>7, <2>8, <3>1
  <2> QED BY <2>5, <2>6, <2>9, <2>10
<1>8. x.msg \in TextSet
  <2>1. m.header \in Names(Compressors) \union {None}
    BY <1>1, TextFields
  <2> QED BY <1>1, <1>6, <1>7, <2>1, TextFields
<1>9. Len(x.libs) = Len(k)
  BY <1>1, <1>3, <1>7
<1>10. \A i \in 1 .. Len(x.libs) : k[Len(k) + 1 - i] = Layer(x.libs[i])
  <2> SUFFICES ASSUME NEW i \in 1 .. Len(x.libs)
               PROVE  k[Len(k) + 1 - i] = Layer(x.libs[i])
    OBVIOUS
  <2>1. /\ i \in 1 .. Len(w.libs) - 1 /\ i + 1 \in 1 .. Len(w.libs)
        /\ Len(l) + 1 - (i + 1) = Len(k) + 1 - i
        /\ Len(k) + 1 - i \in 1 .. Len(l) - 1
    BY <1>1, <1>3, <1>7, <1>9
  <2>2. x.libs[i] = w.libs[i + 1]
    BY <1>3, <2>1
  <2>3. l[Len(l) + 1 - (i + 1)] = Layer(w.libs[i + 1])
    BY <1>1, <2>1
  <2> QED BY <1>7, <2>1, <2>2, <2>3
<1>11. x.msg.data = Compress(c, Request(n)) /\ x.msg.header = c /\ x.msg.layers = k
  BY <1>1, <1>6
<1>12. x.libs \in Seq(Lib)
  BY <1>3
<1> QED BY <1>8, <1>9, <1>10, <1>11, <1>12 DEF Decrypts

(* An encryptor leaves a text alone that has no layers.                    *)
LEMMA DecryptPasses ==
  ASSUME NEW c, NEW n, NEW w, NEW x,
         Decrypts(w, c, n), w.libs # <<>>, w.msg.layers = <<>>,
         x.libs = Tail(w.libs), x.msg = w.msg
  PROVE  Decrypts(x, c, n)
<1>1. w.libs \in Seq(Lib)
  BY DEF Decrypts
<1>2. Tail(w.libs) \in Seq(Lib)
  BY <1>1, HeadTailProperties
<1> QED BY <1>2 DEF Decrypts

(* No layer is left when no encryptor is, and the text can be read.        *)
LEMMA DecryptEnds ==
  ASSUME NEW c \in Names(Compressors), NEW n \in Nat, NEW w, Decrypts(w, c, n), w.libs = <<>>
  PROVE  Unpacked(w.msg) = Plain(Request(n))
<1>1. /\ w.msg \in TextSet /\ w.msg.data = Compress(c, Request(n)) /\ w.msg.header = c
      /\ w.msg.layers # <<>> => Len(w.libs) = Len(w.msg.layers)
  BY DEF Decrypts
<1>2. w.msg.layers = <<>>
  <2>1. w.msg.layers \in Seq(Layers)
    BY <1>1, TextFields
  <2> QED BY <1>1, <2>1, EmptySeq
<1>3. c # None
  BY EncryptionAssumption
<1>4. Uncompress(c, Compress(c, Request(n))) = Request(n)
  BY RequestIs, UncompressInverse
<1> QED BY <1>1, <1>2, <1>3, <1>4 DEF Unpacked

(* The encryptors a side puts on what it sends.                            *)
Order(s) == IF opt[s].doEncrypt THEN EncryptOrder(s) ELSE <<>>

(* A thread inside an encryptor is in the first one left.                  *)
UsingInv ==
  \A t \in Thread :
    /\ work[t].task \in {"none", "receive"} => work[t].libs = <<>>
    /\ pc[t] # "idle" =>
         /\ work[t].libs # <<>> /\ using[t] = <<Side(t), Head(work[t].libs)>>
         /\ work[t].task = "decrypt" => work[t].msg.layers # <<>>

(* The requests the builder has stored, and the client has sent.           *)
Stored == IF work["builder"].task = "encrypt" THEN built - 1 ELSE built
SentOff == IF ready = None THEN Stored ELSE Stored - 1

(* The client has one request under way, and it is in one place.           *)
PlaceInv ==
  /\ SentOff = IF work["main"].task = "none" THEN done ELSE done + 1
  /\ work["main"].task # "receive" => work["session"].task = "none"
  /\ work["main"].task # "receive" \/ work["session"].task # "none" =>
       toServer = None /\ toClient = None
  /\ toServer = None \/ toClient = None
  /\ hs # "run" =>
       /\ \A t \in Thread : work[t].task = "none"
       /\ built = 0 /\ ready = None

Job == [task : {"none", "encrypt", "decrypt", "receive"},
        msg : TextSet \union {None}, libs : Seq(Lib)]

TrafficTypes ==
  /\ work \in [Thread -> Job]
  /\ work["builder"].task \in {"none", "encrypt"}
  /\ work["session"].task \in {"none", "encrypt", "decrypt"}
  /\ work["main"].task \in {"none", "receive", "decrypt"}
  /\ built \in 0 .. MaxMessages /\ done \in Nat

(* And in each place it is the text it should be.                          *)
TextInv ==
  /\ work["builder"].task = "encrypt" =>
       Encrypts(work["builder"], Order("client"), opt["client"].compressor, built)
  /\ ready # None => ready = Sent(Order("client"), opt["client"].compressor, Stored)
  /\ toServer # None => toServer = Sent(Order("client"), opt["client"].compressor, done + 1)
  /\ work["session"].task = "decrypt" =>
       Decrypts(work["session"], opt["client"].compressor, done + 1)
  /\ work["session"].task = "encrypt" =>
       Encrypts(work["session"], Order("server"), opt["server"].compressor, done + 1)
  /\ toClient # None => toClient = Sent(Order("server"), opt["server"].compressor, done + 1)
  /\ work["main"].task = "decrypt" =>
       Decrypts(work["main"], opt["server"].compressor, done + 1)

TrafficInv == TrafficTypes /\ UsingInv /\ PlaceInv /\ TextInv

LEMMA ThreadsAre ==
  /\ Thread = {"builder", "main", "session"}
  /\ Side("builder") = "client" /\ Side("main") = "client" /\ Side("session") = "server"
BY EncryptionAssumption DEF Side

(* What the options have to do with it.                                    *)
LEMMA OrdersAre ==
  ASSUME SettingsInv, hs # "ended", NEW s \in Sides
  PROVE  /\ Order(s) \in Seq(Lib) /\ DecryptOrder(s) \in Seq(Lib)
         /\ opt[s].compressor \in Names(Compressors)
         /\ opt[s].doEncrypt => Order(s) # <<>>
<1>1. EncryptOrder(s) \in Seq(Lib) /\ DecryptOrder(s) \in Seq(Lib)
  <2>1. "sodium" \in Lib /\ "plpl" \in Lib
    BY DEF Lib
  <2>2. /\ <<>> \in Seq(Lib) /\ <<"sodium">> \in Seq(Lib) /\ <<"plpl">> \in Seq(Lib)
        /\ <<"sodium", "plpl">> \in Seq(Lib) /\ <<"plpl", "sodium">> \in Seq(Lib)
    BY <2>1
  <2>3. Single(s) \in Seq(Lib)
    BY <2>2 DEF Single
  <2>4. EncryptOrder(s) \in {<<"sodium", "plpl">>, Single(s)}
    BY DEF EncryptOrder
  <2>5. DecryptOrder(s) \in {<<"plpl", "sodium">>, Single(s)}
    BY DEF DecryptOrder
  <2> QED BY <2>2, <2>3, <2>4, <2>5
<1> QED BY <1>1 DEF SettingsInv, Order

LEMMA OrdersFit ==
  ASSUME SettingsInv, hs # "ended", NEW s \in Sides, NEW r \in Sides, Order(s) # <<>>
  PROVE  LET order == Order(s)
             back == DecryptOrder(r)
         IN
         /\ Len(back) = Len(order)
         /\ \A i \in 1 .. Len(back) : order[Len(order) + 1 - i] = back[i]
<1>1. opt[s].matching = opt[r].matching
  BY DEF SettingsInv, Sides
<1>2. Order(s) = EncryptOrder(s)
  BY DEF Order
<1>3. CASE opt[s].matching.doubleEncryption
  <2>1. Order(s) = <<"sodium", "plpl">> /\ DecryptOrder(r) = <<"plpl", "sodium">>
    BY <1>1, <1>2, <1>3 DEF EncryptOrder, DecryptOrder
  <2> QED BY <2>1
<1>4. CASE ~opt[s].matching.doubleEncryption
  <2>1. Order(s) = Single(s) /\ DecryptOrder(r) = Single(s)
    BY <1>1, <1>2, <1>4 DEF EncryptOrder, DecryptOrder, Single
  <2>2. Single(s) = <<"sodium">> \/ Single(s) = <<"plpl">>
    BY <2>1 DEF Single
  <2>3. PICK x : Single(s) = <<x>>
    BY <2>2
  <2> QED BY <2>1, <2>3
<1> QED BY <1>3, <1>4

LEMMA EncryptingIs ==
  ASSUME SettingsInv, hs # "ended", NEW s \in Sides, NEW n \in 1 .. MaxMessages
  PROVE  LET w == Encrypting(s, Request(n)) IN
         /\ w \in Job /\ w.task = "encrypt"
         /\ Encrypts(w, Order(s), opt[s].compressor, n)
<1> DEFINE w == Encrypting(s, Request(n))
           c == opt[s].compressor
<1>1. Order(s) \in Seq(Lib) /\ c \in Names(Compressors) /\ (opt[s].doEncrypt => Order(s) # <<>>)
  BY OrdersAre
<1>2. w.libs = Order(s) /\ w.task = "encrypt"
        /\ w.msg = [data |-> Compress(c, Request(n)),
                    header |-> IF Order(s) # <<>> THEN None ELSE c, layers |-> <<>>]
        /\ w = [task |-> w.task, msg |-> w.msg, libs |-> w.libs]
  <2>1. CASE opt[s].doEncrypt
    <3>1. w = [task |-> "encrypt", msg |-> Plain(Compress(c, Request(n))), libs |-> EncryptOrder(s)]
      BY <2>1 DEF Encrypting
    <3>2. Order(s) = EncryptOrder(s) /\ Order(s) # <<>>
      BY <1>1, <2>1 DEF Order
    <3> QED BY <3>1, <3>2 DEF Plain
  <2>2. CASE ~opt[s].doEncrypt
    <3>1. w = [task |-> "encrypt",
               msg |-> [Plain(Compress(c, Request(n))) EXCEPT !.header = c], libs |-> <<>>]
      BY <2>2 DEF Encrypting
    <3>2. Order(s) = <<>>
      BY <2>2 DEF Order
    <3>3. [Plain(Compress(c, Request(n))) EXCEPT !.header = c] =
            [data |-> Compress(c, Request(n)), header |-> c, layers |-> <<>>]
      BY DEF Plain
    <3> QED BY <3>1, <3>2, <3>3
  <2> QED BY <2>1, <2>2
<1> HIDE DEF w, c
<1>3. Encrypts(w, Order(s), c, n)
  BY <1>1, <1>2, EncryptStarts
<1>4. w.msg \in TextSet /\ w.libs \in Seq(Lib)
  BY <1>3 DEF Encrypts
<1>5. w \in Job
  BY <1>2, <1>4 DEF Job
<1> QED BY <1>2, <1>3, <1>5 DEF w, c

LEMMA DecryptingIs ==
  ASSUME SettingsInv, hs # "ended", NEW s \in Sides, NEW r \in Sides, NEW n \in 1 .. MaxMessages,
         NEW m, m = Sent(Order(s), opt[s].compressor, n)
  PROVE  LET w == Decrypting(r, m) IN
         /\ w \in Job /\ w.task = "decrypt"
         /\ Decrypts(w, opt[s].compressor, n)
<1> DEFINE w == Decrypting(r, m)
           c == opt[s].compressor
           order == Order(s)
           back == DecryptOrder(r)
<1>1. order \in Seq(Lib) /\ back \in Seq(Lib) /\ c \in Names(Compressors)
  BY OrdersAre
<1>2. w = [task |-> "decrypt", msg |-> m, libs |-> back]
  BY DEF Decrypting
<1>3. order # <<>> =>
        /\ Len(back) = Len(order)
        /\ \A i \in 1 .. Len(back) : order[Len(order) + 1 - i] = back[i]
  BY OrdersFit
<1> HIDE DEF w, c, order, back
<1>4. w.msg = Sent(order, c, n) /\ w.libs = back /\ w.task = "decrypt"
  BY <1>2 DEF order, c
<1>5. Decrypts(w, c, n)
  BY <1>1, <1>3, <1>4, DecryptStarts
<1>6. w.msg \in TextSet /\ w.libs \in Seq(Lib)
  BY <1>5 DEF Decrypts
<1>7. w \in Job
  BY <1>2, <1>4, <1>6 DEF Job
<1> QED BY <1>4, <1>5, <1>7 DEF w, c

LEMMA TrafficInitial == EncryptionInit => TrafficInv
<1> SUFFICES ASSUME EncryptionInit PROVE TrafficInv
  OBVIOUS
<1>1. /\ work = [t \in Thread |-> Idle] /\ built = 0 /\ done = 0
      /\ ready = None /\ toServer = None /\ toClient = None
      /\ pc = [t \in Thread |-> "idle"]
  BY DEF EncryptionInit, KeyInit
<1>2. Idle \in Job /\ Idle.task = "none" /\ Idle.libs = <<>>
  BY DEF Idle, Job
<1>3. MaxMessages \in Nat
  BY EncryptionAssumption
<1>4. \A t \in Thread : work[t].task = "none" /\ work[t].libs = <<>> /\ pc[t] = "idle"
  BY <1>1, <1>2
<1>5. TrafficTypes
  BY <1>1, <1>2, <1>3, <1>4, ThreadsAre DEF TrafficTypes
<1>6. UsingInv
  BY <1>4 DEF UsingInv
<1>7. PlaceInv
  BY <1>1, <1>4, ThreadsAre DEF PlaceInv, SentOff, Stored
<1>8. TextInv
  BY <1>1, <1>4, ThreadsAre DEF TextInv
<1> QED BY <1>5, <1>6, <1>7, <1>8 DEF TrafficInv

(* Before the conversation there is nothing to encrypt.                    *)
LEMMA TrafficHandshakeStep ==
  ASSUME TrafficInv,
         SendSignature \/ ConstructSession \/ RefuseSession \/ ClientKeyExchange \/ Initialize
  PROVE  TrafficInv'
<1>1. hs # "run" /\ UNCHANGED traffic /\ UNCHANGED <<pc, using>>
  BY DEF SendSignature, ConstructSession, RefuseSession, ClientKeyExchange, Initialize, Agree, keyVars
<1>2. UNCHANGED <<work, built, ready, toServer, toClient, done>>
  BY <1>1 DEF traffic
<1>3. \A t \in Thread : work[t].task = "none"
  BY <1>1 DEF TrafficInv, PlaceInv
<1>4. built = 0 /\ ready = None /\ toServer = None /\ toClient = None
  BY <1>1, <1>3, ThreadsAre DEF TrafficInv, PlaceInv
<1>5. TrafficTypes'
  BY <1>2 DEF TrafficInv, TrafficTypes
<1>6. UsingInv'
  BY <1>1, <1>2 DEF TrafficInv, UsingInv
<1>7. PlaceInv'
  BY <1>2, <1>3, <1>4 DEF TrafficInv, PlaceInv, SentOff, Stored
<1>8. TextInv'
  BY <1>2, <1>3, <1>4, ThreadsAre DEF TextInv
<1> QED BY <1>5, <1>6, <1>7, <1>8 DEF TrafficInv

(* Only what the threads do in the encryptors changes.                     *)
LEMMA TrafficKept ==
  ASSUME TrafficInv, UNCHANGED <<opt, hs, work, built, ready, toServer, toClient, done>>, UsingInv'
  PROVE  TrafficInv'
<1>1. TrafficTypes'
  BY DEF TrafficInv, TrafficTypes
<1>2. PlaceInv'
  BY DEF TrafficInv, PlaceInv, SentOff, Stored
<1>3. \A s \in Sides : UNCHANGED Order(s)
  BY DEF Order, EncryptOrder, Single
<1>4. TextInv'
  BY <1>3 DEF TrafficInv, TextInv, Stored, Sides
<1> QED BY <1>1, <1>2, <1>4 DEF TrafficInv

LEMMA EnterStep ==
  ASSUME KeyTypeOK, TrafficInv, NEW t \in Thread, Enter(t)
  PROVE  TrafficInv'
<1>1. /\ UNCHANGED <<opt, hs, work, built, ready, toServer, toClient, done>>
      /\ work[t].libs # <<>>
      /\ work[t].task = "encrypt" \/ work[t].msg.layers # <<>>
      /\ using' = [using EXCEPT ![t] = Encryptor(t, Head(work[t].libs))]
      /\ pc' = [pc EXCEPT ![t] = "lock"]
  BY DEF Enter, Begin, IsEncrypted, appVars, settings, handshake, traffic
<1>2. Encryptor(t, Head(work[t].libs)) = <<Side(t), Head(work[t].libs)>>
  <2>1. work[t].libs \in Seq(Lib)
    BY DEF TrafficInv, TrafficTypes, Job
  <2>2. Head(work[t].libs) \in Lib
    BY <1>1, <2>1, HeadTailProperties
  <2> QED BY <2>2 DEF Encryptor, EncryptorVariant, EncryptorTuple, Lib
<1>3. UsingInv'
  BY <1>1, <1>2 DEF TrafficInv, UsingInv, KeyTypeOK
<1> QED BY <1>1, <1>3, TrafficKept

LEMMA SetKeyStep ==
  ASSUME KeyTypeOK, TrafficInv, NEW t \in Thread, SetKey(t)
  PROVE  TrafficInv'
<1>1. /\ UNCHANGED <<opt, hs, work, built, ready, toServer, toClient, done>>
      /\ UNCHANGED using /\ pc[t] # "idle" /\ \E l : pc' = [pc EXCEPT ![t] = l]
  BY DEF SetKey, SetAESKey, Lock, RecoverKey, Wipe, Copy, HideKey, Mark, Goes, appVars, settings,
    handshake, traffic
<1>2. UsingInv'
  BY <1>1 DEF TrafficInv, UsingInv, KeyTypeOK
<1> QED BY <1>1, <1>2, TrafficKept

(* A thread with encryptors left has a text on its way.                    *)
LEMMA OnItsWay ==
  ASSUME TrafficInv, NEW t \in Thread, work[t].libs # <<>>
  PROVE  /\ hs = "run" /\ work[t].task \in {"encrypt", "decrypt"}
         /\ work[t].task = "encrypt" =>
              \E n : Encrypts(work[t], Order(Side(t)), opt[Side(t)].compressor, n)
         /\ work[t].task = "decrypt" => \E c, n : Decrypts(work[t], c, n)
<1>1. work[t].task \in {"encrypt", "decrypt"}
  <2>1. work[t].task \notin {"none", "receive"}
    BY DEF TrafficInv, UsingInv
  <2>2. work[t].task \in {"none", "encrypt", "decrypt", "receive"}
    BY DEF TrafficInv, TrafficTypes, Job
  <2> QED BY <2>1, <2>2
<1>2. hs = "run"
  BY <1>1 DEF TrafficInv, PlaceInv
<1>3. work[t].task = "encrypt" =>
        \E n : Encrypts(work[t], Order(Side(t)), opt[Side(t)].compressor, n)
  BY ThreadsAre DEF TrafficInv, TrafficTypes, TextInv
<1>4. work[t].task = "decrypt" => \E c, n : Decrypts(work[t], c, n)
  BY ThreadsAre DEF TrafficInv, TrafficTypes, TextInv
<1> QED BY <1>1, <1>2, <1>3, <1>4

(* A thread gets on with its text.                                         *)
Advances(t) ==
  /\ UNCHANGED <<opt, hs, built, ready, toServer, toClient, done>>
  /\ work' \in [Thread -> Job]
  /\ \A u \in Thread \ {t} : UNCHANGED work[u]
  /\ UNCHANGED work[t].task
  /\ \A order, c, n :
       work[t].task = "encrypt" /\ order = Order(Side(t)) /\ c = opt[Side(t)].compressor =>
         (Encrypts(work[t], order, c, n) => Encrypts(work'[t], order, c, n))
  /\ \A c, n :
       work[t].task = "decrypt" => (Decrypts(work[t], c, n) => Decrypts(work'[t], c, n))

LEMMA AdvancesStep ==
  ASSUME TrafficInv, NEW t \in Thread, Advances(t), UsingInv'
  PROVE  TrafficInv'
<1>1. \A u \in Thread : work'[u].task = work[u].task
  BY DEF Advances
<1>2. TrafficTypes'
  BY <1>1, ThreadsAre DEF TrafficInv, TrafficTypes, Advances
<1>3. PlaceInv'
  BY <1>1, ThreadsAre DEF TrafficInv, PlaceInv, SentOff, Stored, Advances
<1>4. Order("client")' = Order("client") /\ Order("server")' = Order("server")
  BY DEF Order, EncryptOrder, Single, Advances
<1>5. TextInv'
  <2>1. work["builder"].task = "encrypt" =>
          Encrypts(work'["builder"], Order("client"), opt["client"].compressor, built)
    BY ThreadsAre DEF TrafficInv, TextInv, Advances
  <2>2. work["session"].task = "encrypt" =>
          Encrypts(work'["session"], Order("server"), opt["server"].compressor, done + 1)
    BY ThreadsAre DEF TrafficInv, TextInv, Advances
  <2>3. work["session"].task = "decrypt" =>
          Decrypts(work'["session"], opt["client"].compressor, done + 1)
    BY ThreadsAre DEF TrafficInv, TextInv, Advances
  <2>4. work["main"].task = "decrypt" =>
          Decrypts(work'["main"], opt["server"].compressor, done + 1)
    BY ThreadsAre DEF TrafficInv, TextInv, Advances
  <2>5. UNCHANGED <<opt, built, ready, toServer, toClient, done>> /\ UNCHANGED Stored
    BY <1>1, ThreadsAre DEF Stored, Advances
  <2> QED BY <1>1, <1>4, <2>1, <2>2, <2>3, <2>4, <2>5, ThreadsAre DEF TrafficInv, TextInv
<1> QED BY <1>2, <1>3, <1>5 DEF TrafficInv

LEMMA PassPlainStep ==
  ASSUME KeyTypeOK, TrafficInv, NEW t \in Thread, PassPlain(t)
  PROVE  TrafficInv'
<1> DEFINE w == work[t]
           x == work'[t]
<1>1. /\ w.task = "decrypt" /\ w.libs # <<>> /\ w.msg.layers = <<>>
      /\ UNCHANGED <<opt, hs, built, ready, toServer, toClient, done>>
      /\ UNCHANGED <<pc, using>>
      /\ work' = [work EXCEPT ![t] = [w EXCEPT !.libs = Tail(@)]]
  BY DEF PassPlain, IsEncrypted, keyVars, settings, handshake
<1>2. w \in Job /\ work \in [Thread -> Job]
  BY DEF TrafficInv, TrafficTypes
<1>3. x = [w EXCEPT !.libs = Tail(@)] /\ \A u \in Thread \ {t} : work'[u] = work[u]
  BY <1>1, <1>2
<1> HIDE DEF w, x
<1>4. x.libs = Tail(w.libs) /\ x.msg = w.msg /\ x.task = w.task
  BY <1>2, <1>3 DEF Job
<1>5. x \in Job /\ work' \in [Thread -> Job]
  <2>1. w.libs \in Seq(Lib)
    BY <1>2 DEF Job
  <2>2. Tail(w.libs) \in Seq(Lib)
    BY <1>1, <2>1, HeadTailProperties
  <2>3. x \in Job
    BY <1>2, <1>3, <2>2 DEF Job
  <2> QED BY <1>1, <1>2, <1>3, <2>3
<1>6. \A c, n : Decrypts(w, c, n) => Decrypts(x, c, n)
  BY <1>1, <1>4, DecryptPasses
<1>7. Advances(t)
  BY <1>1, <1>3, <1>4, <1>5, <1>6 DEF Advances, w, x
<1>8. pc[t] = "idle"
  BY <1>1 DEF TrafficInv, UsingInv, w
<1>9. UsingInv'
  <2> SUFFICES ASSUME NEW u \in Thread
               PROVE  /\ work'[u].task \in {"none", "receive"} => work'[u].libs = <<>>
                      /\ pc'[u] # "idle" =>
                           /\ work'[u].libs # <<>>
                           /\ using'[u] = <<Side(u), Head(work'[u].libs)>>
                           /\ work'[u].task = "decrypt" => work'[u].msg.layers # <<>>
    BY DEF UsingInv
  <2>1. CASE u = t
    BY <1>1, <1>4, <1>8, <2>1 DEF x, w
  <2>2. CASE u # t
    BY <1>1, <1>3, <2>2 DEF TrafficInv, UsingInv
  <2> QED BY <2>1, <2>2
<1> QED BY <1>7, <1>9, AdvancesStep

(* The layer is of the agreed key, which the thread has a copy of, and of  *)
(* the secret both sides have.                                             *)
LEMMA LayerOf ==
  ASSUME KeyInv, HandshakeInv, TrafficInv, NEW t \in Thread, pc[t] = "cipher"
  PROVE  /\ work[t].libs # <<>> /\ Head(work[t].libs) \in Lib
         /\ <<Head(work[t].libs), copy[t], secret[using[t]]>> = Layer(Head(work[t].libs))
<1>1. work[t].libs # <<>> /\ using[t] = <<Side(t), Head(work[t].libs)>>
  BY DEF TrafficInv, UsingInv
<1>2. Head(work[t].libs) \in Lib
  <2>1. work[t].libs \in Seq(Lib)
    BY DEF TrafficInv, TrafficTypes, Job
  <2> QED BY <1>1, <2>1, HeadTailProperties
<1>3. hs = "run"
  BY <1>1, OnItsWay
<1>4. secret[using[t]] = CommonSecret(Head(work[t].libs))
  <2>1. Side(t) = "client" \/ Side(t) = "server"
    BY DEF Side
  <2> QED BY <1>1, <1>2, <1>3, <2>1 DEF HandshakeInv
<1>5. copy[t] = {}
  BY DEF KeyInv, LineInv
<1> QED BY <1>1, <1>2, <1>4, <1>5 DEF Layer

LEMMA ApplyStep ==
  ASSUME KeyInv, SettingsInv, HandshakeInv, TrafficInv, NEW t \in Thread, Apply(t)
  PROVE  TrafficInv'
<1> DEFINE w == work[t]
           x == work'[t]
           lib == Head(w.libs)
           after == IF w.task = "encrypt" THEN Sealed(w.msg, Side(t), Layer(lib))
                                          ELSE Opened(w.msg, Layer(lib))
<1>1. /\ pc[t] = "cipher" /\ pc' = [pc EXCEPT ![t] = "idle"] /\ UNCHANGED using
      /\ UNCHANGED <<opt, hs, built, ready, toServer, toClient, done>>
  BY DEF Apply, Cipher, Goes, settings, handshake
<1>2. work' = [work EXCEPT ![t] = [w EXCEPT !.libs = Tail(@), !.msg = after]]
  <2>1. <<lib, copy[t], secret[using[t]]>> = Layer(lib)
    BY <1>1, LayerOf
  <2> QED BY <2>1 DEF Apply
<1>3. w \in Job /\ work \in [Thread -> Job]
  BY DEF TrafficInv, TrafficTypes
<1>4. x = [w EXCEPT !.libs = Tail(@), !.msg = after]
        /\ \A u \in Thread \ {t} : work'[u] = work[u]
  BY <1>2, <1>3
<1>5. w.libs # <<>> /\ (w.task = "decrypt" => w.msg.layers # <<>>)
  BY <1>1 DEF TrafficInv, UsingInv
<1>6. /\ hs = "run" /\ w.task \in {"encrypt", "decrypt"}
      /\ w.task = "encrypt" =>
           \E n : Encrypts(w, Order(Side(t)), opt[Side(t)].compressor, n)
      /\ w.task = "decrypt" => \E c, n : Decrypts(w, c, n)
  BY <1>5, OnItsWay
<1>7. Order(Side(t)) \in Seq(Lib) /\ opt[Side(t)].compressor \in Names(Compressors)
  <2>1. Side(t) \in Sides
    BY DEF Side, Sides
  <2> QED BY <1>6, <2>1, OrdersAre
<1> HIDE DEF w, x, after
<1>8. x.libs = Tail(w.libs) /\ x.msg = after /\ x.task = w.task
        /\ x = [task |-> w.task, msg |-> after, libs |-> Tail(w.libs)]
  BY <1>3, <1>4 DEF Job
<1>9. ASSUME NEW n, w.task = "encrypt", Encrypts(w, Order(Side(t)), opt[Side(t)].compressor, n)
      PROVE  Encrypts(x, Order(Side(t)), opt[Side(t)].compressor, n)
  <2>1. w.msg \in TextSet
    BY <1>9 DEF Encrypts
  <2>2. after = [w.msg EXCEPT !.header = IF @ = None THEN opt[Side(t)].compressor ELSE @,
                              !.layers = Append(@, Layer(lib))]
    BY <1>9 DEF after, Sealed
  <2>3. w.msg = [data |-> w.msg.data, header |-> w.msg.header, layers |-> w.msg.layers]
    BY <2>1, TextFields
  <2>4. after = [data |-> w.msg.data,
                 header |-> IF w.msg.header = None THEN opt[Side(t)].compressor ELSE w.msg.header,
                 layers |-> Append(w.msg.layers, Layer(lib))]
    BY <2>2, <2>3
  <2> QED BY <1>5, <1>7, <1>8, <1>9, <2>4, EncryptGoesOn
<1>10. ASSUME NEW c, NEW n, w.task = "decrypt", Decrypts(w, c, n)
       PROVE  Decrypts(x, c, n)
  <2>1. after = Opened(w.msg, Layer(lib))
    BY <1>10 DEF after
  <2> QED BY <1>5, <1>8, <1>10, <2>1, DecryptGoesOn
<1>11. x \in Job
  <2>1. x.msg \in TextSet /\ x.libs \in Seq(Lib)
    BY <1>6, <1>9, <1>10 DEF Encrypts, Decrypts
  <2> QED BY <1>6, <1>8, <2>1 DEF Job
<1>12. work' \in [Thread -> Job]
  <2>1. work' = [work EXCEPT ![t] = x]
    BY <1>2, <1>4 DEF w
  <2> QED BY <1>3, <1>11, <2>1
<1>13. Advances(t)
  BY <1>1, <1>4, <1>8, <1>9, <1>10, <1>12 DEF Advances, w, x
<1>14. UsingInv'
  <2> SUFFICES ASSUME NEW u \in Thread
               PROVE  /\ work'[u].task \in {"none", "receive"} => work'[u].libs = <<>>
                      /\ pc'[u] # "idle" =>
                           /\ work'[u].libs # <<>>
                           /\ using'[u] = <<Side(u), Head(work'[u].libs)>>
                           /\ work'[u].task = "decrypt" => work'[u].msg.layers # <<>>
    BY DEF UsingInv
  <2>1. CASE u = t
    <3>1. pc'[u] = "idle"
      BY <1>1, <2>1 DEF KeyInv, KeyTypeOK
    <3>2. work'[u].task \in {"encrypt", "decrypt"}
      BY <1>6, <1>8, <2>1 DEF x
    <3> QED BY <3>1, <3>2
  <2>2. CASE u # t
    <3>1. work'[u] = work[u] /\ pc'[u] = pc[u] /\ using'[u] = using[u]
      BY <1>1, <1>4, <2>2 DEF KeyInv, KeyTypeOK
    <3> QED BY <3>1 DEF TrafficInv, UsingInv
  <2> QED BY <2>1, <2>2
<1> QED BY <1>13, <1>14, AdvancesStep

(* What the request under way is the number of.                            *)
LEMMA UnderWay ==
  ASSUME TrafficInv
  PROVE  /\ done \in Nat /\ built \in Nat /\ built <= MaxMessages /\ MaxMessages \in Nat
         /\ Stored \in Int /\ Stored <= built /\ SentOff \in Int /\ SentOff <= Stored
         /\ Stored = (IF work["builder"].task = "encrypt" THEN built - 1 ELSE built)
         /\ SentOff = (IF ready = None THEN Stored ELSE Stored - 1)
         /\ SentOff = IF work["main"].task = "none" THEN done ELSE done + 1
         /\ work["main"].task # "none" => done + 1 \in 1 .. MaxMessages
         /\ work["builder"].task = "encrypt" => built \in 1 .. MaxMessages
<1>1. /\ done \in Nat /\ built \in Nat /\ built <= MaxMessages /\ MaxMessages \in Nat
  BY EncryptionAssumption DEF TrafficInv, TrafficTypes
<1>2. Stored \in Int /\ Stored <= built /\ (work["builder"].task = "encrypt" => Stored = built - 1)
  BY <1>1 DEF Stored
<1>3. SentOff \in Int /\ SentOff <= Stored
  BY <1>2 DEF SentOff
<1>4. SentOff = IF work["main"].task = "none" THEN done ELSE done + 1
  BY DEF TrafficInv, PlaceInv
<1>5. work["main"].task # "none" => done + 1 \in 1 .. MaxMessages
  BY <1>1, <1>2, <1>3, <1>4
<1>6. work["builder"].task = "encrypt" => built \in 1 .. MaxMessages
  BY <1>1, <1>2, <1>3, <1>4
<1> QED BY <1>1, <1>2, <1>3, <1>4, <1>5, <1>6 DEF Stored, SentOff

(* A thread that is in no encryptor goes over to something else.           *)
GoesOver(t, w) ==
  /\ work' = [work EXCEPT ![t] = w]
  /\ UNCHANGED <<pc, using, opt, hs>>
  /\ work[t].libs = <<>>
  /\ w \in Job /\ (w.task \in {"none", "receive"} => w.libs = <<>>)

LEMMA GoesOverStep ==
  ASSUME TrafficInv, NEW t \in Thread, NEW w, GoesOver(t, w)
  PROVE  /\ UsingInv' /\ work' \in [Thread -> Job]
         /\ work'[t] = w /\ \A u \in Thread \ {t} : work'[u] = work[u]
         /\ \A s \in Sides : Order(s)' = Order(s)
<1>1. work \in [Thread -> Job]
  BY DEF TrafficInv, TrafficTypes
<1>2. work' \in [Thread -> Job] /\ work'[t] = w /\ \A u \in Thread \ {t} : work'[u] = work[u]
  BY <1>1 DEF GoesOver
<1>3. pc[t] = "idle"
  BY DEF GoesOver, TrafficInv, UsingInv
<1>4. UsingInv'
  <2> SUFFICES ASSUME NEW u \in Thread
               PROVE  /\ work'[u].task \in {"none", "receive"} => work'[u].libs = <<>>
                      /\ pc'[u] # "idle" =>
                           /\ work'[u].libs # <<>>
                           /\ using'[u] = <<Side(u), Head(work'[u].libs)>>
                           /\ work'[u].task = "decrypt" => work'[u].msg.layers # <<>>
    BY DEF UsingInv
  <2>1. pc' = pc /\ using' = using
    BY DEF GoesOver
  <2>2. CASE u = t
    BY <1>2, <1>3, <2>1, <2>2 DEF GoesOver
  <2>3. CASE u # t
    BY <1>2, <2>1, <2>3 DEF TrafficInv, UsingInv
  <2> QED BY <2>2, <2>3
<1>5. \A s \in Sides : Order(s)' = Order(s)
  BY DEF GoesOver, Order, EncryptOrder, Single
<1> QED BY <1>2, <1>4, <1>5

LEMMA IdleIs == Idle \in Job /\ Idle.task = "none" /\ Idle.libs = <<>>
BY DEF Idle, Job

LEMMA BuilderCreatesStep ==
  ASSUME SettingsInv, TrafficInv, BuilderCreates
  PROVE  TrafficInv'
<1> DEFINE w == Encrypting("client", Request(built + 1))
<1>1. /\ hs = "run" /\ work["builder"].task = "none" /\ built < MaxMessages
      /\ work' = [work EXCEPT !["builder"] = w]
      /\ built' = built + 1
      /\ UNCHANGED <<pc, using, opt, hs, ready, toServer, toClient, done>>
  BY DEF BuilderCreates, HasLines, keyVars, settings, handshake
<1>2. built + 1 \in 1 .. MaxMessages
  BY <1>1, UnderWay
<1>3. w \in Job /\ w.task = "encrypt"
        /\ Encrypts(w, Order("client"), opt["client"].compressor, built + 1)
  BY <1>1, <1>2, EncryptingIs DEF Sides
<1> HIDE DEF w
<1>4. GoesOver("builder", w)
  BY <1>1, <1>3, ThreadsAre DEF GoesOver, TrafficInv, UsingInv
<1>5. /\ UsingInv' /\ work' \in [Thread -> Job]
      /\ work'["builder"] = w /\ work'["main"] = work["main"] /\ work'["session"] = work["session"]
      /\ Order("client")' = Order("client") /\ Order("server")' = Order("server")
  BY <1>4, GoesOverStep, ThreadsAre DEF Sides
<1>6. Stored' = Stored
  BY <1>1, <1>3, <1>5, UnderWay DEF Stored
<1>7. TrafficTypes'
  BY <1>1, <1>2, <1>3, <1>5, UnderWay DEF TrafficInv, TrafficTypes
<1>8. PlaceInv'
  BY <1>1, <1>5, <1>6 DEF TrafficInv, PlaceInv, SentOff
<1>9. TextInv'
  BY <1>1, <1>3, <1>5, <1>6 DEF TrafficInv, TextInv
<1> QED BY <1>5, <1>7, <1>8, <1>9 DEF TrafficInv

LEMMA BuilderStoresStep ==
  ASSUME SettingsInv, TrafficInv, BuilderStores
  PROVE  TrafficInv'
<1> DEFINE c == opt["client"].compressor
           order == Order("client")
           m == work["builder"].msg
<1>1. /\ work["builder"].task = "encrypt" /\ work["builder"].libs = <<>>
      /\ ready = None /\ ready' = m
      /\ work' = [work EXCEPT !["builder"] = Idle]
      /\ UNCHANGED <<pc, using, opt, hs, built, toServer, toClient, done>>
  BY DEF BuilderStores, Finished, keyVars, settings, handshake
<1>2. hs = "run"
  BY <1>1, ThreadsAre DEF TrafficInv, PlaceInv
<1>3. GoesOver("builder", Idle)
  BY <1>1, IdleIs DEF GoesOver
<1>4. /\ UsingInv' /\ work' \in [Thread -> Job]
      /\ work'["builder"] = Idle /\ work'["main"] = work["main"]
      /\ work'["session"] = work["session"]
      /\ Order("client")' = Order("client") /\ Order("server")' = Order("server")
  BY <1>3, GoesOverStep, ThreadsAre DEF Sides
<1>5. m = Sent(order, c, built) /\ m # None
  <2>1. order \in Seq(Lib) /\ c \in Names(Compressors)
    BY <1>2, OrdersAre DEF Sides
  <2>2. built \in 1 .. MaxMessages
    BY <1>1, UnderWay
  <2>3. Encrypts(work["builder"], order, c, built)
    BY <1>1 DEF TrafficInv, TextInv
  <2> HIDE DEF order, c
  <2>4. m = Sent(order, c, built)
    BY <1>1, <2>1, <2>3, EncryptEnds
  <2>5. m \in TextSet
    BY <2>1, <2>2, <2>4, SentIsText
  <2> QED BY <2>4, <2>5, EncryptionAssumption
<1> HIDE DEF m
<1>6. Stored' = built /\ SentOff' = SentOff
  BY <1>1, <1>4, <1>5, IdleIs, UnderWay DEF Stored, SentOff
<1>7. TrafficTypes'
  BY <1>1, <1>4, IdleIs DEF TrafficInv, TrafficTypes
<1>8. PlaceInv'
  BY <1>1, <1>2, <1>4, <1>6 DEF TrafficInv, PlaceInv
<1>9. TextInv'
  BY <1>1, <1>4, <1>5, <1>6, IdleIs DEF TrafficInv, TextInv
<1> QED BY <1>4, <1>7, <1>8, <1>9 DEF TrafficInv

LEMMA SessionReceivesStep ==
  ASSUME SettingsInv, TrafficInv, SessionReceives
  PROVE  TrafficInv'
<1> DEFINE w == Decrypting("server", toServer)
<1>1. /\ toServer # None /\ work["session"].task = "none"
      /\ work' = [work EXCEPT !["session"] = w]
      /\ toServer' = None
      /\ UNCHANGED <<pc, using, opt, hs, built, ready, toClient, done>>
  BY DEF SessionReceives, keyVars, settings, handshake
<1>2. work["main"].task = "receive" /\ toClient = None
  BY <1>1 DEF TrafficInv, PlaceInv
<1>3. hs = "run" /\ done + 1 \in 1 .. MaxMessages
  BY <1>2, UnderWay, ThreadsAre DEF TrafficInv, PlaceInv
<1>4. w \in Job /\ w.task = "decrypt" /\ Decrypts(w, opt["client"].compressor, done + 1)
  <2>1. toServer = Sent(Order("client"), opt["client"].compressor, done + 1)
    BY <1>1 DEF TrafficInv, TextInv
  <2> QED BY <1>3, <2>1, DecryptingIs DEF Sides
<1> HIDE DEF w
<1>5. GoesOver("session", w)
  BY <1>1, <1>4, ThreadsAre DEF GoesOver, TrafficInv, UsingInv
<1>6. /\ UsingInv' /\ work' \in [Thread -> Job]
      /\ work'["session"] = w /\ work'["main"] = work["main"] /\ work'["builder"] = work["builder"]
      /\ Order("client")' = Order("client") /\ Order("server")' = Order("server")
  BY <1>5, GoesOverStep, ThreadsAre DEF Sides
<1>7. TrafficTypes'
  BY <1>1, <1>4, <1>6 DEF TrafficInv, TrafficTypes
<1>8. PlaceInv'
  BY <1>1, <1>2, <1>3, <1>6 DEF TrafficInv, PlaceInv, SentOff, Stored
<1>9. TextInv'
  BY <1>1, <1>4, <1>6 DEF TrafficInv, TextInv, Stored
<1> QED BY <1>6, <1>7, <1>8, <1>9 DEF TrafficInv

LEMMA SessionRepliesStep ==
  ASSUME SettingsInv, TrafficInv, SessionReplies
  PROVE  TrafficInv'
<1> DEFINE w == Encrypting("server", Request(done + 1))
<1>1. /\ work["session"].task = "decrypt" /\ work["session"].libs = <<>>
      /\ work' = [work EXCEPT !["session"] =
                    Encrypting("server", Unpacked(work["session"].msg).data)]
      /\ UNCHANGED <<pc, using, opt, hs, built, ready, toServer, toClient, done>>
  BY DEF SessionReplies, Finished, keyVars, settings, handshake
<1>2. work["main"].task = "receive" /\ toServer = None /\ toClient = None /\ hs = "run"
  BY <1>1, ThreadsAre DEF TrafficInv, PlaceInv
<1>3. done + 1 \in 1 .. MaxMessages
  BY <1>2, UnderWay
<1>4. Unpacked(work["session"].msg).data = Request(done + 1)
  <2>1. opt["client"].compressor \in Names(Compressors)
    BY <1>2, OrdersAre DEF Sides
  <2>2. Decrypts(work["session"], opt["client"].compressor, done + 1)
    BY <1>1 DEF TrafficInv, TextInv
  <2>3. done + 1 \in Nat
    BY <1>3
  <2>4. Unpacked(work["session"].msg) = Plain(Request(done + 1))
    BY <1>1, <2>1, <2>2, <2>3, DecryptEnds
  <2> QED BY <2>4 DEF Plain
<1>5. work' = [work EXCEPT !["session"] = w]
  BY <1>1, <1>4
<1>6. w \in Job /\ w.task = "encrypt"
        /\ Encrypts(w, Order("server"), opt["server"].compressor, done + 1)
  BY <1>2, <1>3, EncryptingIs DEF Sides
<1> HIDE DEF w
<1>7. GoesOver("session", w)
  BY <1>1, <1>5, <1>6 DEF GoesOver
<1>8. /\ UsingInv' /\ work' \in [Thread -> Job]
      /\ work'["session"] = w /\ work'["main"] = work["main"] /\ work'["builder"] = work["builder"]
      /\ Order("client")' = Order("client") /\ Order("server")' = Order("server")
  BY <1>7, GoesOverStep, ThreadsAre DEF Sides
<1>9. TrafficTypes'
  BY <1>1, <1>6, <1>8 DEF TrafficInv, TrafficTypes
<1>10. PlaceInv'
  BY <1>1, <1>2, <1>8 DEF TrafficInv, PlaceInv, SentOff, Stored
<1>11. TextInv'
  BY <1>1, <1>2, <1>6, <1>8 DEF TrafficInv, TextInv, Stored
<1> QED BY <1>8, <1>9, <1>10, <1>11 DEF TrafficInv

LEMMA SessionSendsStep ==
  ASSUME SettingsInv, TrafficInv, SessionSends
  PROVE  TrafficInv'
<1> DEFINE c == opt["server"].compressor
           order == Order("server")
           m == work["session"].msg
<1>1. /\ work["session"].task = "encrypt" /\ work["session"].libs = <<>>
      /\ toClient' = m
      /\ work' = [work EXCEPT !["session"] = Idle]
      /\ UNCHANGED <<pc, using, opt, hs, built, ready, toServer, done>>
  BY DEF SessionSends, Finished, keyVars, settings, handshake
<1>2. work["main"].task = "receive" /\ toServer = None /\ hs = "run"
  BY <1>1, ThreadsAre DEF TrafficInv, PlaceInv
<1>3. GoesOver("session", Idle)
  BY <1>1, IdleIs DEF GoesOver
<1>4. /\ UsingInv' /\ work' \in [Thread -> Job]
      /\ work'["session"] = Idle /\ work'["main"] = work["main"]
      /\ work'["builder"] = work["builder"]
      /\ Order("client")' = Order("client") /\ Order("server")' = Order("server")
  BY <1>3, GoesOverStep, ThreadsAre DEF Sides
<1>5. m = Sent(order, c, done + 1)
  <2>1. order \in Seq(Lib)
    BY <1>2, OrdersAre DEF Sides
  <2>2. Encrypts(work["session"], order, c, done + 1)
    BY <1>1 DEF TrafficInv, TextInv
  <2> HIDE DEF order, c
  <2> QED BY <1>1, <2>1, <2>2, EncryptEnds
<1> HIDE DEF m
<1>6. TrafficTypes'
  BY <1>1, <1>4, IdleIs DEF TrafficInv, TrafficTypes
<1>7. PlaceInv'
  BY <1>1, <1>2, <1>4, IdleIs DEF TrafficInv, PlaceInv, SentOff, Stored
<1>8. TextInv'
  BY <1>1, <1>4, <1>5, IdleIs DEF TrafficInv, TextInv, Stored
<1> QED BY <1>4, <1>6, <1>7, <1>8 DEF TrafficInv

LEMMA ClientSendsStep ==
  ASSUME TrafficInv, ClientSends
  PROVE  TrafficInv'
<1> DEFINE w == [work["main"] EXCEPT !.task = "receive"]
<1>1. /\ work["main"].task = "none" /\ ready # None
      /\ toServer' = ready /\ ready' = None
      /\ work' = [work EXCEPT !["main"] = w]
      /\ UNCHANGED <<pc, using, opt, hs, built, toClient, done>>
  BY DEF ClientSends, keyVars, settings, handshake
<1>2. work["session"].task = "none" /\ toServer = None /\ toClient = None /\ hs = "run"
  BY <1>1 DEF TrafficInv, PlaceInv
<1>3. work["main"] \in Job /\ work["main"].libs = <<>>
  BY <1>1, ThreadsAre DEF TrafficInv, TrafficTypes, UsingInv
<1>4. w \in Job /\ w.task = "receive" /\ w.libs = <<>>
  BY <1>3 DEF Job
<1> HIDE DEF w
<1>5. GoesOver("main", w)
  BY <1>1, <1>3, <1>4 DEF GoesOver
<1>6. /\ UsingInv' /\ work' \in [Thread -> Job]
      /\ work'["main"] = w /\ work'["session"] = work["session"]
      /\ work'["builder"] = work["builder"]
      /\ Order("client")' = Order("client") /\ Order("server")' = Order("server")
  BY <1>5, GoesOverStep, ThreadsAre DEF Sides
<1>7. Stored = done + 1 /\ Stored' = Stored /\ SentOff' = Stored
  BY <1>1, <1>6, UnderWay DEF Stored, SentOff
<1>8. TrafficTypes'
  BY <1>1, <1>4, <1>6 DEF TrafficInv, TrafficTypes
<1>9. PlaceInv'
  BY <1>1, <1>2, <1>4, <1>6, <1>7 DEF TrafficInv, PlaceInv
<1>10. TextInv'
  BY <1>1, <1>2, <1>4, <1>6, <1>7 DEF TrafficInv, TextInv
<1> QED BY <1>6, <1>8, <1>9, <1>10 DEF TrafficInv

LEMMA ClientReceivesStep ==
  ASSUME SettingsInv, TrafficInv, ClientReceives
  PROVE  TrafficInv'
<1> DEFINE w == Decrypting("client", toClient)
<1>1. /\ work["main"].task = "receive" /\ toClient # None
      /\ work' = [work EXCEPT !["main"] = w]
      /\ toClient' = None
      /\ UNCHANGED <<pc, using, opt, hs, built, ready, toServer, done>>
  BY DEF ClientReceives, keyVars, settings, handshake
<1>2. work["session"].task = "none" /\ toServer = None
  BY <1>1 DEF TrafficInv, PlaceInv
<1>3. hs = "run" /\ done + 1 \in 1 .. MaxMessages
  BY <1>1, UnderWay, ThreadsAre DEF TrafficInv, PlaceInv
<1>4. w \in Job /\ w.task = "decrypt" /\ Decrypts(w, opt["server"].compressor, done + 1)
  <2>1. toClient = Sent(Order("server"), opt["server"].compressor, done + 1)
    BY <1>1 DEF TrafficInv, TextInv
  <2> QED BY <1>3, <2>1, DecryptingIs DEF Sides
<1> HIDE DEF w
<1>5. GoesOver("main", w)
  BY <1>1, <1>4, ThreadsAre DEF GoesOver, TrafficInv, UsingInv
<1>6. /\ UsingInv' /\ work' \in [Thread -> Job]
      /\ work'["main"] = w /\ work'["session"] = work["session"]
      /\ work'["builder"] = work["builder"]
      /\ Order("client")' = Order("client") /\ Order("server")' = Order("server")
  BY <1>5, GoesOverStep, ThreadsAre DEF Sides
<1>7. TrafficTypes'
  BY <1>1, <1>4, <1>6 DEF TrafficInv, TrafficTypes
<1>8. PlaceInv'
  BY <1>1, <1>2, <1>3, <1>4, <1>6 DEF TrafficInv, PlaceInv, SentOff, Stored
<1>9. TextInv'
  BY <1>1, <1>4, <1>6 DEF TrafficInv, TextInv, Stored
<1> QED BY <1>6, <1>7, <1>8, <1>9 DEF TrafficInv

LEMMA ClientPrintsStep ==
  ASSUME TrafficInv, ClientPrints
  PROVE  TrafficInv'
<1>1. /\ work["main"].task = "decrypt" /\ work["main"].libs = <<>>
      /\ done' = done + 1
      /\ work' = [work EXCEPT !["main"] = Idle]
      /\ UNCHANGED <<pc, using, opt, hs, built, ready, toServer, toClient>>
  BY DEF ClientPrints, Finished, keyVars, settings, handshake
<1>2. work["session"].task = "none" /\ toServer = None /\ toClient = None /\ hs = "run"
  BY <1>1, ThreadsAre DEF TrafficInv, PlaceInv
<1>3. GoesOver("main", Idle)
  BY <1>1, IdleIs DEF GoesOver
<1>4. /\ UsingInv' /\ work' \in [Thread -> Job]
      /\ work'["main"] = Idle /\ work'["session"] = work["session"]
      /\ work'["builder"] = work["builder"]
      /\ Order("client")' = Order("client") /\ Order("server")' = Order("server")
  BY <1>3, GoesOverStep, ThreadsAre DEF Sides
<1>5. TrafficTypes'
  BY <1>1, <1>4, IdleIs DEF TrafficInv, TrafficTypes
<1>6. PlaceInv'
  BY <1>1, <1>2, <1>4, IdleIs DEF TrafficInv, PlaceInv, SentOff, Stored
<1>7. TextInv'
  BY <1>1, <1>2, <1>4, IdleIs DEF TrafficInv, TextInv, Stored
<1> QED BY <1>4, <1>5, <1>6, <1>7 DEF TrafficInv

LEMMA TrafficInductive ==
  KeyInv /\ SettingsInv /\ HandshakeInv /\ TrafficInv /\ [EncryptionNext]_encVars => TrafficInv'
<1> SUFFICES ASSUME KeyInv, SettingsInv, HandshakeInv, TrafficInv, [EncryptionNext]_encVars
             PROVE  TrafficInv'
  OBVIOUS
<1>1. KeyTypeOK
  BY DEF KeyInv
<1>2. CASE UNCHANGED encVars
  <2>1. /\ UNCHANGED <<opt, hs, work, built, ready, toServer, toClient, done>>
        /\ UNCHANGED <<pc, using>>
    BY <1>2 DEF encVars, keyVars, appVars, settings, handshake, traffic
  <2>2. UsingInv'
    BY <2>1 DEF TrafficInv, UsingInv
  <2> QED BY <2>1, <2>2, TrafficKept
<1>3. ASSUME NEW t \in Thread, ThreadStep(t) PROVE TrafficInv'
  <2>1. CASE Crypto(t)
    BY <1>1, <2>1, EnterStep, PassPlainStep, SetKeyStep, ApplyStep DEF Crypto
  <2>2. CASE SendSignature \/ ConstructSession \/ RefuseSession \/ ClientKeyExchange \/ Initialize
    BY <2>2, TrafficHandshakeStep
  <2>3. CASE BuilderCreates \/ BuilderStores \/ SessionReceives \/ SessionReplies
    BY <2>3, BuilderCreatesStep, BuilderStoresStep, SessionReceivesStep, SessionRepliesStep
  <2>4. CASE SessionSends \/ ClientSends \/ ClientReceives \/ ClientPrints
    BY <2>4, SessionSendsStep, ClientSendsStep, ClientReceivesStep, ClientPrintsStep
  <2> QED BY <1>3, <2>1, <2>2, <2>3, <2>4 DEF ThreadStep
<1> QED BY <1>2, <1>3 DEF EncryptionNext

(* Who has shown a signature or verified one is granted access.            *)
AccessInv == access \in [Object -> BOOLEAN]

LEMMA AccessInductive ==
  /\ EncryptionInit => AccessInv
  /\ AccessInv /\ [EncryptionNext]_encVars => AccessInv'
<1>1. EncryptionInit => AccessInv
  BY DEF EncryptionInit, AccessInv
<1>2. AccessInv /\ [EncryptionNext]_encVars => AccessInv'
  <2> SUFFICES ASSUME AccessInv, [EncryptionNext]_encVars PROVE AccessInv'
    OBVIOUS
  <2>1. CASE UNCHANGED encVars
    BY <2>1 DEF AccessInv, encVars, appVars, handshake
  <2>2. ASSUME NEW t \in Thread, ThreadStep(t) PROVE AccessInv'
    <3>1. CASE Crypto(t) \/ Conversing
      BY <3>1, AfterHandshake DEF AccessInv, handshake
    <3>2. CASE RefuseSession \/ ClientKeyExchange
      BY <3>2 DEF RefuseSession, ClientKeyExchange, AccessInv
    <3>3. CASE SendSignature \/ ConstructSession \/ Initialize
      BY <3>3 DEF SendSignature, ConstructSession, Initialize, InitializeTuple, InitializeVariants,
        MarkSignatureSent, Granted, AccessInv
    <3> QED BY <2>2, <3>1, <3>2, <3>3 DEF ThreadStep, Conversing
  <2> QED BY <2>1, <2>2 DEF EncryptionNext
<1> QED BY <1>1, <1>2

(* There is one text on its way for every request, in one place, with the  *)
(* layers of the encryptors it has passed.                                 *)
THEOREM EncryptionInvariant ==
  EncryptionSpec => [](KeyInv /\ SettingsInv /\ HandshakeInv /\ AccessInv /\ TrafficInv)
<1>1. EncryptionSpec => []KeyInv
  BY ImplementsKeyHandler, KeyInvariant, PTL
<1>2. EncryptionSpec => [](SettingsInv /\ HandshakeInv)
  BY SettingsInitial, HandshakeInitial, HandshakeInductive, PTL DEF EncryptionSpec
<1>3. EncryptionSpec => []AccessInv
  BY AccessInductive, PTL DEF EncryptionSpec
<1> QED BY <1>1, <1>2, <1>3, TrafficInitial, TrafficInductive, PTL DEF EncryptionSpec

LEMMA TextsOnTheWay ==
  ASSUME SettingsInv, TrafficInv
  PROVE  {ready, toServer, toClient} \subseteq TextSet \union {None}
<1>1. CASE hs = "run"
  <2>1. /\ Order("client") \in Seq(Lib) /\ opt["client"].compressor \in Names(Compressors)
        /\ Order("server") \in Seq(Lib) /\ opt["server"].compressor \in Names(Compressors)
    BY <1>1, OrdersAre DEF Sides
  <2>2. ready # None => ready \in TextSet
    <3>1. ready # None => Stored \in 1 .. MaxMessages
      BY UnderWay
    <3> QED BY <2>1, <3>1, SentIsText DEF TrafficInv, TextInv
  <2>3. toServer # None \/ toClient # None => done + 1 \in 1 .. MaxMessages
    <3>1. toServer # None \/ toClient # None => work["main"].task = "receive"
      BY DEF TrafficInv, PlaceInv
    <3> QED BY <3>1, UnderWay
  <2>4. toServer # None => toServer \in TextSet
    BY <2>1, <2>3, SentIsText DEF TrafficInv, TextInv
  <2>5. toClient # None => toClient \in TextSet
    BY <2>1, <2>3, SentIsText DEF TrafficInv, TextInv
  <2> QED BY <2>2, <2>4, <2>5
<1>2. CASE hs # "run"
  BY <1>2, ThreadsAre DEF TrafficInv, PlaceInv
<1> QED BY <1>1, <1>2

(* The types of the encryptors and of the conversation: every request and  *)
(* every reply is a text of the conversation wherever it is, and no more   *)
(* are printed than were made.                                             *)
THEOREM EncryptionTypeOKAlways == EncryptionSpec => []EncryptionTypeOK
<1>1. ASSUME KeyInv, SettingsInv, HandshakeInv, AccessInv, TrafficInv
      PROVE  EncryptionTypeOK
  <2>1. KeyTypeOK /\ DOMAIN build = Sides /\ DOMAIN opt = Sides /\ access \in [Object -> BOOLEAN]
    BY <1>1 DEF KeyInv, SettingsInv, AccessInv
  <2>2. hs \in {"sign", "signed", "status", "run", "refused", "ended"}
    BY <1>1 DEF HandshakeInv
  <2>3. \A t \in Thread :
          /\ work[t].task \in {"none", "encrypt", "decrypt", "receive"}
          /\ work[t].msg \in TextSet \union {None}
          /\ work[t].libs \in Seq(Lib)
    BY <1>1 DEF TrafficInv, TrafficTypes, Job
  <2>4. built \in 0 .. MaxMessages /\ done \in 0 .. built
    BY <1>1, UnderWay
  <2>5. {ready, toServer, toClient} \subseteq TextSet \union {None}
    BY <1>1, TextsOnTheWay
  <2> QED BY <2>1, <2>2, <2>3, <2>4, <2>5 DEF EncryptionTypeOK
<1> QED BY <1>1, EncryptionInvariant, PTL

(* Whatever the options of the two sides, and whatever the other thread of *)
(* the client does with the encryptors, the text a thread has decrypted    *)
(* and uncompressed is the one that was sent.                              *)
THEOREM ReadableAlways == EncryptionSpec => []Readable
<1>1. ASSUME SettingsInv, TrafficInv
      PROVE  Readable
  <2> SUFFICES ASSUME NEW t \in Thread, Finished(t, "decrypt")
               PROVE  Unpacked(work[t].msg) = Plain(Request(done + 1))
    BY DEF Readable
  <2>1. work[t].task = "decrypt" /\ work[t].libs = <<>>
    BY DEF Finished
  <2>2. t = "main" \/ t = "session"
    BY <1>1, <2>1, ThreadsAre DEF TrafficInv, TrafficTypes
  <2>3. hs = "run"
    BY <1>1, <2>1 DEF TrafficInv, PlaceInv
  <2>4. /\ opt["client"].compressor \in Names(Compressors)
        /\ opt["server"].compressor \in Names(Compressors)
    BY <1>1, <2>3, OrdersAre DEF Sides
  <2>5. PICK c \in Names(Compressors) : Decrypts(work[t], c, done + 1)
    BY <1>1, <2>1, <2>2, <2>4 DEF TrafficInv, TextInv
  <2>6. done + 1 \in Nat
    BY <1>1, UnderWay
  <2> QED BY <2>1, <2>5, <2>6, DecryptEnds
<1> QED BY <1>1, EncryptionInvariant, PTL

=============================================================================
