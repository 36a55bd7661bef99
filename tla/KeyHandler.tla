----------------------------- MODULE KeyHandler -----------------------------
(***************************************************************************)
(* The AES key of an encryptor (CryptoSodium, CryptoPlPl) and the handler  *)
(* that obfuscates it while nobody uses it (HandleKey, KeyHandler).  The   *)
(* two threads of a client use the same encryptors, one to encrypt and one *)
(* to decrypt: each takes a copy of the key under the mutex of the         *)
(* encryptor, for which the key is recovered in place and hidden again.    *)
(*                                                                         *)
(* The bytes of a key are the set of the obfuscators that are xored into   *)
(* it: {} is the agreed key itself, a set of one the hidden key.           *)
(*                                                                         *)
(* A helper that follows a faulty variant of itself is the code; no action *)
(* uses the variants.                                                      *)
(***************************************************************************)
EXTENDS Integers

CONSTANTS
  Thread,      \* the threads that encrypt and decrypt
  Object,      \* the encryptors
  Obfuscator,  \* the random blocks obfuscators are made of
  Nobody,      \* the owner of a free mutex
  NoKey        \* what the memory of a key holds before the keys are agreed

ASSUME KeyAssumption ==
  /\ Nobody \notin Thread
  /\ Obfuscator # {}
  /\ NoKey \subseteq Obfuscator

VARIABLES
  agreed,      \* _keysExchanged of every encryptor
  key,         \* _key
  obfuscator,  \* _keyHandler._obfuscator, {} when it is wiped
  hidden,      \* _keyHandler._obfuscated
  mutex,       \* _mutex
  pc,          \* where every thread is in setAESKey
  using,       \* the encryptor it is at
  copy         \* its copy of the key

keyVars == <<agreed, key, obfuscator, hidden, mutex, pc, using, copy>>

Xor(a, b) == (a \ b) \union (b \ a)

(* A random block that is not in the key already.                          *)
Random(o) == CHOOSE r \in Obfuscator : r \notin key[o] \/ Obfuscator \subseteq key[o]

KeyInit ==
  /\ agreed = [o \in Object |-> FALSE]
  /\ key = [o \in Object |-> NoKey]
  /\ obfuscator = [o \in Object |-> {}]
  /\ hidden = [o \in Object |-> FALSE]
  /\ mutex = [o \in Object |-> Nobody]
  /\ pc = [t \in Thread |-> "idle"]
  /\ using \in [Thread -> Object]
  /\ copy = [t \in Thread |-> {}]

-----------------------------------------------------------------------------
(* The Diffie-Hellman agreement of some encryptors, in the constructor of  *)
(* a session or in clientKeyExchange, and the first hideKey, which takes   *)
(* no mutex.                                                               *)
Agree(S) ==
  /\ agreed' = [o \in Object |-> o \in S \/ agreed[o]]
  /\ obfuscator' = [o \in Object |-> IF o \in S THEN {Random(o)} ELSE obfuscator[o]]
  /\ key' = [o \in Object |-> IF o \in S THEN Xor({}, obfuscator'[o]) ELSE key[o]]
  /\ hidden' = [o \in Object |-> o \in S \/ hidden[o]]
  /\ UNCHANGED <<mutex, pc, using, copy>>

(* encrypt or decrypt of an encryptor gets to setAESKey; its callers come  *)
(* after the agreement.                                                    *)
Begin(t, o) ==
  /\ pc[t] = "idle"
  /\ agreed[o]
  /\ using' = [using EXCEPT ![t] = o]
  /\ pc' = [pc EXCEPT ![t] = "lock"]
  /\ UNCHANGED <<agreed, key, obfuscator, hidden, mutex, copy>>

Goes(t, from, to) ==
  /\ pc[t] = from
  /\ pc' = [pc EXCEPT ![t] = to]
  /\ UNCHANGED <<agreed, using>>

FreeForAll(o) == TRUE
Free(o) == mutex[o] = Nobody

Lock(t) ==
  /\ Goes(t, "lock", "recover")
  /\ Free(using[t])
  /\ mutex' = [mutex EXCEPT ![using[t]] = t]
  /\ UNCHANGED <<key, obfuscator, hidden, copy>>

RecoverKey(t) == LET o == using[t] IN
  /\ Goes(t, "recover", "wipe")
  /\ key' = [key EXCEPT ![o] = IF hidden[o] THEN Xor(@, obfuscator[o]) ELSE @]
  /\ UNCHANGED <<obfuscator, hidden, mutex, copy>>

Wipe(t) ==
  /\ Goes(t, "wipe", "copy")
  /\ hidden' = [hidden EXCEPT ![using[t]] = FALSE]
  /\ obfuscator' = [obfuscator EXCEPT ![using[t]] = {}]
  /\ UNCHANGED <<key, mutex, copy>>

Copy(t) ==
  /\ Goes(t, "copy", "hide")
  /\ copy' = [copy EXCEPT ![t] = key[using[t]]]
  /\ UNCHANGED <<key, obfuscator, hidden, mutex>>

(* hideKey does nothing to a key that is hidden.                           *)
ExposedInverted(o) == hidden[o]
Exposed(o) == ~hidden[o]

HideKey(t) == LET o == using[t] IN
  /\ Goes(t, "hide", "mark")
  /\ obfuscator' = [obfuscator EXCEPT ![o] = IF Exposed(o) THEN {Random(o)} ELSE @]
  /\ key' = [key EXCEPT ![o] = IF Exposed(o) THEN Xor(@, obfuscator'[o]) ELSE @]
  /\ UNCHANGED <<hidden, mutex, copy>>

(* _obfuscated is set after the last byte, and the guard is released.      *)
ReleasedNot(o) == mutex
Released(o) == [mutex EXCEPT ![o] = Nobody]

Mark(t) ==
  /\ Goes(t, "mark", "cipher")
  /\ hidden' = [hidden EXCEPT ![using[t]] = TRUE]
  /\ mutex' = Released(using[t])
  /\ UNCHANGED <<key, obfuscator, copy>>

(* The cipher works on the copy, without the mutex.                        *)
Cipher(t) ==
  /\ Goes(t, "cipher", "idle")
  /\ copy' = [copy EXCEPT ![t] = {}]
  /\ UNCHANGED <<key, obfuscator, hidden, mutex>>

SetAESKey(t) ==
  Lock(t) \/ RecoverKey(t) \/ Wipe(t) \/ Copy(t) \/ HideKey(t) \/ Mark(t)

KeyNext ==
  \/ \E S \in SUBSET Object : (\A o \in S : ~agreed[o]) /\ Agree(S)
  \/ \E t \in Thread :
       \/ \E o \in Object : Begin(t, o)
       \/ SetAESKey(t)
       \/ Cipher(t)

KeySpec == KeyInit /\ [][KeyNext]_keyVars

-----------------------------------------------------------------------------
Holds(t, o) == using[t] = o /\ pc[t] \in {"recover", "wipe", "copy", "hide", "mark"}

(* Every variable has its type.                                            *)
KeyTypeOK ==
  /\ agreed \in [Object -> BOOLEAN]
  /\ key \in [Object -> SUBSET Obfuscator]
  /\ obfuscator \in [Object -> SUBSET Obfuscator]
  /\ hidden \in [Object -> BOOLEAN]
  /\ mutex \in [Object -> Thread \union {Nobody}]
  /\ pc \in [Thread -> {"idle", "lock", "recover", "wipe", "copy", "hide", "mark", "cipher"}]
  /\ using \in [Thread -> Object]
  /\ copy \in [Thread -> SUBSET Obfuscator]

(* Whatever the other thread does to the key it has in common, a cipher    *)
(* works with the agreed key, never with a half recovered one.             *)
RightKey == \A t \in Thread : pc[t] = "cipher" => copy[t] = {}

(* "obfuscating the key while not in use": when no thread is inside        *)
(* setAESKey of an encryptor, its key is not in the memory as it is.       *)
HiddenAtRest ==
  \A o \in Object :
    agreed[o] /\ (\A t \in Thread : ~Holds(t, o)) => key[o] # {}

=============================================================================
