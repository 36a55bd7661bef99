----------------------------- MODULE Encryption -----------------------------
(***************************************************************************)
(* The encryption of the conversation of a client with its session: the    *)
(* message with the signatures and public keys, the agreement of the keys, *)
(* and requests and replies that are compressed and pass one or two        *)
(* encryptors on either side (CryptoOperations).  In the client the thread *)
(* of the TaskBuilder encrypts the next request while the main thread      *)
(* decrypts a reply, with the same encryptors.                             *)
(*                                                                         *)
(* A text is its bytes, the compressor named by the header in front of it, *)
(* and the layers around both: the library, the bytes of the key each was  *)
(* made with and the secret the key was agreed from.  A text that has a    *)
(* layer does not start with a header.  The connection delivers every      *)
(* message (TcpSessions, FifoSessions).                                    *)
(***************************************************************************)
EXTENDS KeyHandler, Compression, Authentication, Options

CONSTANTS
  MaxMessages,     \* bound: the requests of the client
  Configurations,  \* the builds and the option files of the two sides
  None

VARIABLES
  container, \* what holds the encryptors, if one process has all of them
  build,     \* the builds of the two programs
  opt,       \* their options
  access,    \* _signatureSent of the client, _verifiedSignature of the session
  secret,    \* what _key of every encryptor was agreed from
  hs,        \* how far the handshake is
  wire,      \* its message on the way
  read,      \* the fields each side has read from the message to it
  work,      \* the text every thread works on and the libraries left
  built,     \* requests the builder has encrypted
  ready,     \* its subtask, until the client sends it
  toServer,  \* the request and
  toClient,  \* the reply on their way
  done       \* replies the client has decrypted

settings == <<container, build, opt>>
handshake == <<access, secret, hs, wire, read>>
traffic == <<work, built, ready, toServer, toClient, done>>
appVars == <<settings, handshake, traffic>>
encVars == <<keyVars, appVars>>

Sides == {"client", "server"}
Lib == {"sodium", "plpl"}
Side(t) == IF t = "session" THEN "server" ELSE "client"

(* The encryptors of a side, in the order of the tuple, which is theirs in *)
(* CRYPTO, or one by one.                                                  *)
EncryptorTuple(side) == <<<<side, "sodium">>, <<side, "plpl">>>>
EncryptorVariant(side, lib) ==
  IF lib = "sodium" THEN <<side, "sodium">> ELSE <<side, "plpl">>
Objects(side) == Range(EncryptorTuple(side))

Encryptor(t, lib) ==
  IF container = "variants" THEN EncryptorVariant(Side(t), lib)
  ELSE EncryptorTuple(Side(t))[IF lib = "sodium" THEN 1 ELSE 2]

(* Two option files that agree on what both have, if they can be parsed.   *)
(* Where singleEncrypt is asked for no library it loses the text: then     *)
(* nobody may encrypt.                                                     *)
Sound(c) ==
  LET common == Matching(c.client) IN
  \/ IsNull(c.client) \/ IsNull(c.server)
  \/ /\ common = Matching(c.server)
     /\ \/ common.doubleEncryption
        \/ common.singleEncryptor \in {"CRYPTOSODIUM", "CRYPTOPP"}
        \/ ~ClientOptions(c.client).doEncrypt /\ ~ServerOptions(c.server).doEncrypt

(* The content of a request and of its reply.                              *)
Request(n) == Bytes("text", n, n)
Contents == {Request(n) : n \in 1 .. MaxMessages}

(* The secret an encryptor of the client has in common with its peer.      *)
CommonSecret(lib) ==
  IF lib = "sodium" THEN <<"kx", <<KxKey(<<"client", lib>>), KxKey(<<"server", lib>>)>>>>
  ELSE <<"dh", {DhKey(<<"client", lib>>), DhKey(<<"server", lib>>)}>>

TextSet ==
  [data : Contents \union {Compress(c, d) : c \in Names(Compressors), d \in Contents},
   header : Names(Compressors) \union {None},
   layers : Seq(Lib \X (SUBSET Obfuscator) \X {CommonSecret(lib) : lib \in Lib})]

ASSUME EncryptionAssumption ==
  /\ Thread = {"builder", "main", "session"}
  /\ Object = {"client", "server"} \X {"sodium", "plpl"}
  /\ MaxMessages \in Nat
  /\ \A c \in Configurations : DOMAIN c.build = Sides
  /\ None \notin TextSet \union Names(Compressors)

Plain(data) == [data |-> data, header |-> None, layers |-> <<>>]
Idle == [task |-> "none", msg |-> None, libs |-> <<>>]

EncryptionInit ==
  /\ KeyInit
  /\ using = [t \in Thread |-> <<Side(t), "sodium">>]
  /\ \E c \in {x \in Configurations : Sound(x)} :
       /\ container = c.container
       /\ build = c.build
       /\ opt = [client |-> ClientOptions(c.client), server |-> ServerOptions(c.server)]
  /\ access = [o \in Object |-> FALSE]
  /\ secret = [o \in Object |-> <<>>]
  /\ hs = IF ServerRuns(opt["server"]) /\ ClientRuns(opt["client"]) THEN "sign" ELSE "ended"
  /\ wire = <<>>
  /\ read = [s \in Sides |-> <<>>]
  /\ work = [t \in Thread |-> Idle]
  /\ built = 0 /\ done = 0
  /\ ready = None /\ toServer = None /\ toClient = None

-----------------------------------------------------------------------------
(* The handshake: the constructors of the encryptors of the client make    *)
(* what it sends; their sizes go into the header.                          *)
Offer ==
  <<SodiumSignatureWithKey(<<"client", "sodium">>, build["client"]),
    SodiumEncodedKey(<<"client", "sodium">>),
    SignMessage(<<"client", "plpl">>, build["client"]),
    DhKey(<<"client", "plpl">>)>>

(* The id of the session and the keys of its encryptors.                   *)
Answer ==
  <<Bytes("id", 0, 1), SodiumEncodedKey(<<"server", "sodium">>), DhKey(<<"server", "plpl">>)>>

Empty(n) == [i \in 1 .. n |-> <<>>]

Granted(side) == [o \in Object |-> o[1] = side \/ access[o]]
Secrets(side, sodium, plpl) ==
  [o \in Object |-> IF o = <<side, "sodium">> THEN sodium
                    ELSE IF o = <<side, "plpl">> THEN plpl ELSE secret[o]]

(* sendSignature: the authentication, then sendSignatureCommon.            *)
SendSignature ==
  /\ hs = "sign" /\ container = "none"
  /\ wire' = Message(Authenticate(Len(Offer[1]), Len(Offer[2]), Len(Offer[3]), Len(Offer[4])),
                     Offer[1], Offer[2], Offer[3], Offer[4])
  /\ access' = Granted("client")
  /\ hs' = "signed"
  /\ UNCHANGED <<keyVars, settings, secret, read, traffic>>

Verified(fields) ==
  /\ SodiumVerified(fields[1], fields[2], build["server"])
  /\ PlPlVerified(fields[3], build["server"])

(* The constructor of the session: both signatures are verified, the keys  *)
(* are agreed and hidden, and the status brings the public keys back.      *)
ConstructSession ==
  /\ hs = "signed"
  /\ read' = [read EXCEPT !["server"] = Fields(WithoutEnd(wire), Empty(4))]
  /\ Verified(read'["server"])
  /\ access' = Granted("server")
  /\ secret' = Secrets("server", ServerSessionKey(<<"server", "sodium">>, read'["server"][2]),
                       AgreedValue(<<"server", "plpl">>, Before(read'["server"][4], DhBytes)))
  /\ Agree(Objects("server"))
  /\ wire' = Message(Handshake(Len(Answer[1]), Len(Answer[2]), "NONE", Len(Answer[3])),
                     Answer[1], Answer[2], Answer[3], <<>>)
  /\ hs' = "status"
  /\ UNCHANGED <<settings, traffic>>

(* It throws, and with it the run of the acceptor ends.                    *)
RefuseSession ==
  /\ hs = "signed"
  /\ read' = [read EXCEPT !["server"] = Fields(WithoutEnd(wire), Empty(4))]
  /\ ~Verified(read'["server"])
  /\ wire' = <<>>
  /\ hs' = "refused"
  /\ UNCHANGED <<keyVars, settings, access, secret, traffic>>

(* Client::receiveStatus and processStatus; the builder is started after.  *)
ClientKeyExchange ==
  /\ hs = "status"
  /\ read' = [read EXCEPT !["client"] = Fields(WithoutEnd(wire), Empty(3))]
  /\ secret' = Secrets("client", ClientSessionKey(<<"client", "sodium">>, read'["client"][2]),
                       AgreedValue(<<"client", "plpl">>, read'["client"][3]))
  /\ Agree(Objects("client"))
  /\ wire' = <<>>
  /\ hs' = "run"
  /\ UNCHANGED <<settings, access, traffic>>

(* The tests have both sides in one program.  createServerEncryptor marks  *)
(* the signature of a client as sent, since it goes to the constructor of  *)
(* the server; the variants have constructors of their own.                *)
Peer(o) == <<IF o[1] = "client" THEN "server" ELSE "client", o[2]>>

MarkSignatureSent(o) == o[1] = "client"
InitializeTuple ==
  access' = [o \in Object |-> Granted("server")[o] \/ MarkSignatureSent(o)]
InitializeVariants == access' = Granted("server")

(* The first who asks a container for an encryptor initializes it.         *)
Initialize ==
  /\ hs = "sign" /\ container # "none"
  /\ IF container = "tuple" THEN InitializeTuple ELSE InitializeVariants
  /\ read' = [s \in Sides |-> IF s = "server" THEN Offer ELSE Answer]
  /\ secret' = [o \in Object |->
        IF o[2] = "plpl" THEN AgreedValue(o, DhKey(Peer(o)))
        ELSE IF o[1] = "server" THEN ServerSessionKey(o, SodiumEncodedKey(Peer(o)))
        ELSE ClientSessionKey(o, SodiumEncodedKey(Peer(o)))]
  /\ Agree(Object)
  /\ hs' = "run"
  /\ UNCHANGED <<settings, wire, traffic>>

-----------------------------------------------------------------------------
(* The encryptors a text passes, in this order.                            *)
Single(side) ==
  LET single == opt[side].matching.singleEncryptor IN
  IF single = "CRYPTOSODIUM" THEN <<"sodium">>
  ELSE IF single = "CRYPTOPP" THEN <<"plpl">> ELSE <<>>

EncryptOrder(side) ==
  IF opt[side].matching.doubleEncryption THEN <<"sodium", "plpl">> ELSE Single(side)
DecryptOrderSame(side) == EncryptOrder(side)
DecryptOrder(side) ==
  IF opt[side].matching.doubleEncryption THEN <<"plpl", "sodium">> ELSE Single(side)

(* compressSingleEncrypt, compressDoubleEncrypt: the text is compressed;   *)
(* the first encryptor puts the header before it, or nobody encrypts.      *)
Encrypting(side, data) ==
  LET compressor == opt[side].compressor
      packed == Plain(Compress(compressor, data))
  IN  IF opt[side].doEncrypt
        THEN [task |-> "encrypt", msg |-> packed, libs |-> EncryptOrder(side)]
        ELSE [task |-> "encrypt", msg |-> [packed EXCEPT !.header = compressor], libs |-> <<>>]

Decrypting(side, m) == [task |-> "decrypt", msg |-> m, libs |-> DecryptOrder(side)]

Sealed(m, side, layer) ==
  [m EXCEPT !.header = IF @ = None THEN opt[side].compressor ELSE @,
            !.layers = Append(@, layer)]

(* A layer comes off with the library and the key it was put on with.      *)
Opened(m, layer) ==
  IF m.layers # <<>> /\ Last(m.layers) = layer THEN [m EXCEPT !.layers = Front(@)] ELSE m

(* The header comes off, and the text is uncompressed as it says.          *)
Unpacked(m) ==
  IF m.layers = <<>> /\ m.header # None THEN Plain(Uncompress(m.header, m.data)) ELSE m

IsEncrypted(m) == m.layers # <<>>

Accessible(o) ==
  CheckAccess(IF container = "none" THEN o[1] ELSE "testbin", access[o], access[o])

(* encrypt and decrypt of one encryptor, with checkAccess; decrypt leaves  *)
(* a text alone that starts with a header.                                 *)
Enter(t) == LET w == work[t] IN
  /\ w.libs # <<>>
  /\ Accessible(Encryptor(t, Head(w.libs)))
  /\ w.task = "encrypt" \/ IsEncrypted(w.msg)
  /\ Begin(t, Encryptor(t, Head(w.libs)))
  /\ UNCHANGED appVars

PassPlain(t) == LET w == work[t] IN
  /\ w.task = "decrypt" /\ w.libs # <<>> /\ ~IsEncrypted(w.msg)
  /\ Accessible(Encryptor(t, Head(w.libs)))
  /\ work' = [work EXCEPT ![t].libs = Tail(@)]
  /\ UNCHANGED <<keyVars, settings, handshake, built, ready, toServer, toClient, done>>

SetKey(t) == SetAESKey(t) /\ UNCHANGED appVars

Apply(t) == LET w == work[t]
                layer == <<Head(w.libs), copy[t], secret[using[t]]>> IN
  /\ Cipher(t)
  /\ work' = [work EXCEPT ![t].libs = Tail(@),
                          ![t].msg = IF w.task = "encrypt" THEN Sealed(@, Side(t), layer)
                                                           ELSE Opened(@, layer)]
  /\ UNCHANGED <<settings, handshake, built, ready, toServer, toClient, done>>

Finished(t, task) == pc[t] = "idle" /\ work[t].task = task /\ work[t].libs = <<>>

-----------------------------------------------------------------------------
(* The builder makes the next request while the client sends the last one. *)
HasLinesAlways == built <= MaxMessages
HasLines == built < MaxMessages

BuilderCreates ==
  /\ hs = "run" /\ work["builder"].task = "none"
  /\ HasLines
  /\ work' = [work EXCEPT !["builder"] = Encrypting("client", Request(built + 1))]
  /\ built' = built + 1
  /\ UNCHANGED <<keyVars, settings, handshake, ready, toServer, toClient, done>>

BuilderStores ==
  /\ Finished("builder", "encrypt")
  /\ ready = None
  /\ ready' = work["builder"].msg
  /\ work' = [work EXCEPT !["builder"] = Idle]
  /\ UNCHANGED <<keyVars, settings, handshake, built, toServer, toClient, done>>

(* Session::processTask: the request is decrypted.                         *)
SessionReceives ==
  /\ toServer # None /\ work["session"].task = "none"
  /\ work' = [work EXCEPT !["session"] = Decrypting("server", toServer)]
  /\ toServer' = None
  /\ UNCHANGED <<keyVars, settings, handshake, built, ready, toClient, done>>

(* Session::buildReply: the responses are encrypted.                       *)
SessionReplies ==
  /\ Finished("session", "decrypt")
  /\ work' = [work EXCEPT !["session"] = Encrypting("server", Unpacked(work["session"].msg).data)]
  /\ UNCHANGED <<keyVars, settings, handshake, built, ready, toServer, toClient, done>>

SessionSends ==
  /\ Finished("session", "encrypt")
  /\ toClient' = work["session"].msg
  /\ work' = [work EXCEPT !["session"] = Idle]
  /\ UNCHANGED <<keyVars, settings, handshake, built, ready, toServer, done>>

(* Client::processTask: send, then receive and printReply.                 *)
ClientSends ==
  /\ work["main"].task = "none" /\ ready # None
  /\ toServer' = ready
  /\ ready' = None
  /\ work' = [work EXCEPT !["main"].task = "receive"]
  /\ UNCHANGED <<keyVars, settings, handshake, built, toClient, done>>

ClientReceives ==
  /\ work["main"].task = "receive" /\ toClient # None
  /\ work' = [work EXCEPT !["main"] = Decrypting("client", toClient)]
  /\ toClient' = None
  /\ UNCHANGED <<keyVars, settings, handshake, built, ready, toServer, done>>

ClientPrints ==
  /\ Finished("main", "decrypt")
  /\ done' = done + 1
  /\ work' = [work EXCEPT !["main"] = Idle]
  /\ UNCHANGED <<keyVars, settings, handshake, built, ready, toServer, toClient>>

-----------------------------------------------------------------------------
Crypto(t) == Enter(t) \/ PassPlain(t) \/ SetKey(t) \/ Apply(t)

ThreadStep(t) ==
  \/ Crypto(t)
  \/ t = "builder" /\ (BuilderCreates \/ BuilderStores)
  \/ t = "session" /\ (ConstructSession \/ RefuseSession
                         \/ SessionReceives \/ SessionReplies \/ SessionSends)
  \/ t = "main" /\ (SendSignature \/ ClientKeyExchange \/ Initialize
                      \/ ClientSends \/ ClientReceives \/ ClientPrints)

EncryptionNext == \E t \in Thread : ThreadStep(t)

(* Every thread that can go on does, and gets the mutex of an encryptor in *)
(* the end: nobody holds it for longer than setAESKey.                     *)
EncryptionSpec ==
  EncryptionInit /\ [][EncryptionNext]_encVars
    /\ \A t \in Thread : SF_encVars(ThreadStep(t))

-----------------------------------------------------------------------------
(* Every variable has its type.                                            *)
EncryptionTypeOK ==
  /\ KeyTypeOK
  /\ DOMAIN build = Sides /\ DOMAIN opt = Sides
  /\ access \in [Object -> BOOLEAN]
  /\ hs \in {"sign", "signed", "status", "run", "refused", "ended"}
  /\ \A t \in Thread :
       /\ work[t].task \in {"none", "encrypt", "decrypt", "receive"}
       /\ work[t].msg \in TextSet \union {None}
       /\ work[t].libs \in Seq(Lib)
  /\ built \in 0 .. MaxMessages /\ done \in 0 .. built
  /\ {ready, toServer, toClient} \subseteq TextSet \union {None}

(* The fields each side reads are those the other has sent, also the last  *)
(* one of the authentication, whose size deserialize gets wrong, and both  *)
(* sides agree on the same secret for each of the libraries.               *)
HandshakeIntact ==
  /\ hs \in {"status", "run", "refused"} => read["server"] = Offer
  /\ hs = "run" =>
       /\ read["client"] = Answer
       /\ \A lib \in Lib : secret[<<"client", lib>>] = secret[<<"server", lib>>]

(* What a thread has decrypted and uncompressed is the text of the request *)
(* the client is at, or of its reply: the layers come off in the order and *)
(* with the keys they were put on, and the header is found, whatever the   *)
(* options of the two sides.                                               *)
Readable ==
  \A t \in Thread :
    Finished(t, "decrypt") => Unpacked(work[t].msg) = Plain(Request(done + 1))

(* Every request of a client that is not refused comes back as a reply: no *)
(* thread waits for ever for an encryptor the other one uses.  Only a      *)
(* program that has no options but the defaults ends before.               *)
AllReplied ==
  <>(\/ done = MaxMessages
     \/ hs = "refused" /\ build["client"] # build["server"]
     \/ hs = "ended" /\ (opt["client"] = ClientDefaults \/ opt["server"] = ServerDefaults))

=============================================================================
