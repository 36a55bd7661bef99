---------------------------- MODULE MCEncryption ----------------------------
(* The two threads of a client, its session, and their four encryptors,    *)
(* under every setting of the switches, with and without compression.      *)
EXTENDS Encryption

CONSTANT End

Threads == {"builder", "main", "session"}
Encryptors == {"client", "server"} \X {"sodium", "plpl"}
Uninitialized == {3}
OneByte == <<End>>

Json(single, double, encrypt, compression) ==
  [wellFormed |-> TRUE,
   json |-> [SingleEncryptor |-> single, DoubleEncryption |-> double, doEncrypt |-> encrypt,
             Compression |-> compression, ServerAddress |-> "127.0.0.1", ClientType |-> "TCP",
             Policy |-> "NOSORTINPUT", AdsFileName |-> "data/ads.txt"]]
Malformed == [wellFormed |-> FALSE, json |-> <<>>]

Builds(s, c) == [side \in {"client", "server"} |-> IF side = "server" THEN s ELSE c]
Configuration(x, b, c, s) == [container |-> x, build |-> b, client |-> c, server |-> s]

(* Options that agree, one program of either build; a program that cannot  *)
(* parse its own.                                                          *)
TwoSided ==
  {Configuration("none", b, Json(m[1], m[2], e[1], c[1]), Json(m[1], m[2], e[2], c[2])) :
     b \in {Builds("new", "new"), Builds("new", "old")},
     m \in {<<"CRYPTOPP", TRUE>>} \cup {"CRYPTOPP", "CRYPTOSODIUM", "NONE"} \X {FALSE},
     e \in BOOLEAN \X BOOLEAN,
     c \in {<<"No", "No">>, <<"LZ4", "SNAPPY">>, <<"ZSTD", "LZ4">>}}
  \cup
  LET good == Json("CRYPTOPP", TRUE, TRUE, "No") IN
  {Configuration("none", Builds("new", "new"), f[1], f[2]) :
     f \in {<<good, Malformed>>, <<Malformed, good>>, <<Malformed, Malformed>>}}
  \cup {Configuration(x, Builds("new", "new"), good, good) : x \in {"tuple", "variants"}}

=============================================================================
