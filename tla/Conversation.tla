---------------------------- MODULE Conversation ----------------------------
(***************************************************************************)
(* What a connection promises, over tcp and over fifos alike: Client::run  *)
(* against the sessions that Server::startSession starts.                  *)
(*                                                                         *)
(* A client asks, is answered by its session, and asks again; it leaves    *)
(* between two requests and its session then goes.  Whatever happens to    *)
(* others, the conversation of a client that can be trusted is never       *)
(* broken off.  A client that is interrupted or dies, a request that       *)
(* cannot be decrypted, a timer that fires and a server that is stopped or *)
(* crashes are what can break it off.                                      *)
(***************************************************************************)
CONSTANT Client

VARIABLES
  trusted,  \* the clients that neither they nor the server let down
  place,    \* of a client
  reply,    \* to the request it waits for
  session   \* of a client

vars == <<trusted, place, reply, session>>

Init ==
  /\ trusted \in SUBSET Client
  /\ place = [c \in Client |-> "away"]
  /\ reply = [c \in Client |-> "none"]
  /\ session = [c \in Client |-> "none"]

Open(c) ==
  /\ session[c] = "none"
  /\ session' = [session EXCEPT ![c] = "open"]
  /\ UNCHANGED <<trusted, place, reply>>

Arrive(c) ==
  /\ place[c] = "away"
  /\ place' = [place EXCEPT ![c] = "idle"]
  /\ UNCHANGED <<trusted, reply, session>>

Ask(c) ==
  /\ place[c] \in {"away", "idle"}
  /\ place' = [place EXCEPT ![c] = "asking"]
  /\ reply' = [reply EXCEPT ![c] = "owed"]
  /\ UNCHANGED <<trusted, session>>

(* A session that cannot be trusted may end with its reply.                *)
Reply(c) ==
  /\ session[c] = "open" /\ reply[c] = "owed"
  /\ reply' = [reply EXCEPT ![c] = "given"]
  /\ \/ UNCHANGED session
     \/ c \notin trusted /\ session' = [session EXCEPT ![c] = "gone"]
  /\ UNCHANGED <<trusted, place>>

Receive(c) ==
  /\ place[c] = "asking" /\ reply[c] = "given"
  /\ \E p \in {"idle", "over"} : place' = [place EXCEPT ![c] = p]
  /\ reply' = [reply EXCEPT ![c] = "none"]
  /\ UNCHANGED <<trusted, session>>

Leave(c) ==
  /\ place[c] \in {"away", "idle"}
  /\ place' = [place EXCEPT ![c] = "over"]
  /\ UNCHANGED <<trusted, reply, session>>

Close(c) ==
  /\ session[c] = "open"
  /\ place[c] \in {"away", "over"} \/ c \notin trusted
  /\ session' = [session EXCEPT ![c] = "gone"]
  /\ UNCHANGED <<trusted, place, reply>>

BreaksOff(c) ==
  /\ c \notin trusted /\ place[c] # "away"
  /\ \E p \in {"away", "idle", "over"} : place' = [place EXCEPT ![c] = p]
  /\ reply' = [reply EXCEPT ![c] = "none"]
  /\ UNCHANGED <<trusted, session>>

(* A stop that unblocks the readers of a pipe wakes the wrong one.         *)
Loses(c) ==
  /\ c \notin trusted /\ reply[c] = "given"
  /\ reply' = [reply EXCEPT ![c] = "owed"]
  /\ UNCHANGED <<trusted, place, session>>

(* A server that is stopped, or crashes, drops its sessions and the        *)
(* replies that have not been received.                                    *)
Stop ==
  /\ trusted = {}
  /\ session' = [c \in Client |-> IF session[c] = "open" THEN "gone" ELSE session[c]]
  /\ \E lost \in SUBSET {c \in Client : reply[c] = "given"} :
       reply' = [c \in Client |-> IF c \in lost THEN "owed" ELSE reply[c]]
  /\ UNCHANGED <<trusted, place>>

Next ==
  \/ \E c \in Client :
       \/ Open(c) \/ Arrive(c) \/ Ask(c) \/ Reply(c) \/ Receive(c) \/ Leave(c) \/ Close(c)
       \/ BreaksOff(c) \/ Loses(c)
  \/ Stop

SafeSpec == Init /\ [][Next]_vars

(* A request of a client that can be trusted is answered, and the session  *)
(* of a client that has left goes, unless it dies while it leaves.         *)
Lively ==
  \A c \in Client :
    /\ (c \in trusted /\ place[c] = "asking") ~> place[c] # "asking"
    /\ place[c] = "over" ~> (place[c] # "over" \/ session[c] # "open")

Spec == SafeSpec /\ Lively

=============================================================================
