------------------------------ MODULE Options -------------------------------
(***************************************************************************)
(* The options of the two programs: the strings of their JSON files and    *)
(* the enumerators they stand for (Options, ClientOptions, ServerOptions,  *)
(* Policy).  A string no enumerator has is no error.                       *)
(*                                                                         *)
(* A file is malformed or has a JSON object.  What it does not give keeps  *)
(* the value the static members begin with: zeros, empty strings and the   *)
(* enumerators with the value 0.                                           *)
(***************************************************************************)

(* The enumerations, in the order of their values.                         *)
CRYPTO == <<"CRYPTOSODIUM", "CRYPTOPP", "NONE", "ERROR">>
CLIENT_TYPE == <<"TCPCLIENT", "FIFOCLIENT", "ERROR">>
POLICYENUM == <<"SORTINPUT", "NOSORTINPUT", "ECHOPOLICY", "NONE">>
Zero(enum) == enum[1]

(* An element of a set, or a default for anything else.                    *)
Known(string, names, default) == IF string \in names THEN string ELSE default

TranslateClientType(string) ==
  CASE string = "TCP" -> "TCPCLIENT" [] string = "FIFO" -> "FIFOCLIENT" [] OTHER -> "ERROR"
TranslateCryptoString(string) == Known(string, {"CRYPTOSODIUM", "CRYPTOPP", "NONE"}, "ERROR")
TranslateCompressorString(string) == Known(string, {"LZ4", "SNAPPY", "ZSTD"}, "NONE")

(* Policy's fromString.                                                    *)
FromString(name) ==
  CASE name \in {"SORTINPUT", "NOSORTINPUT"} -> name
    [] name = "ECHO" -> "ECHOPOLICY"
    [] OTHER -> "NONE"

(* parseJson: an error is reported, and the value is null.                 *)
IsNull(file) == ~file.wellFormed

-----------------------------------------------------------------------------
MatchingDefaults ==
  [singleEncryptor |-> Zero(CRYPTO), doubleEncryption |-> FALSE, serverAddress |-> ""]
ClientDefaults ==
  [matching |-> MatchingDefaults, doEncrypt |-> FALSE, compressor |-> "0",
   clientType |-> Zero(CLIENT_TYPE)]
ServerDefaults ==
  [matching |-> MatchingDefaults, doEncrypt |-> FALSE, compressor |-> "0",
   policy |-> Zero(POLICYENUM), adsFileName |-> ""]

(* extractMatching: what both files have.                                  *)
Matching(file) ==
  IF IsNull(file) THEN MatchingDefaults
  ELSE [singleEncryptor |-> TranslateCryptoString(file.json.SingleEncryptor),
        doubleEncryption |-> file.json.DoubleEncryption,
        serverAddress |-> file.json.ServerAddress]

ClientOptions(file) ==
  IF IsNull(file) THEN ClientDefaults
  ELSE [matching |-> Matching(file),
        doEncrypt |-> file.json.doEncrypt,
        compressor |-> TranslateCompressorString(file.json.Compression),
        clientType |-> TranslateClientType(file.json.ClientType)]

ServerOptions(file) ==
  IF IsNull(file) THEN ServerDefaults
  ELSE [matching |-> Matching(file),
        doEncrypt |-> file.json.doEncrypt,
        compressor |-> TranslateCompressorString(file.json.Compression),
        policy |-> FromString(file.json.Policy),
        adsFileName |-> file.json.AdsFileName]

-----------------------------------------------------------------------------
(* Server::setPolicy throws where there is no such policy or no file of    *)
(* ads to read; the main function of a client makes a client of a type it  *)
(* knows, and a tcp client throws where the address is none.               *)
ServerRuns(options) ==
  \/ options.policy = "ECHOPOLICY"
  \/ options.policy \in {"SORTINPUT", "NOSORTINPUT"} /\ options.adsFileName # ""
ClientRuns(options) ==
  \/ options.clientType = "FIFOCLIENT"
  \/ options.clientType = "TCPCLIENT" /\ options.matching.serverAddress # ""

=============================================================================
