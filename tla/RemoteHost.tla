-------------------------------- MODULE RemoteHost ------------------------------
(***************************************************************************)
(* NetRocks/src/Host/HostRemote.cpp and HostRemoteBroker.cpp: a remote     *)
(* host forwards the calls of one thread over two pipes to a broker        *)
(* process, which it starts when it is initialized and which may die or    *)
(* hang at any time; another thread may abort the connection.              *)
(*                                                                         *)
(* A token is a piece of a conversation that one side sends in one go:     *)
(* commands with their arguments, replies with their results.  It carries  *)
(* the number of the request it belongs to, modulo two.                    *)
(*                                                                         *)
(* A definition right before another one and named after it is a wrong     *)
(* version of it that nothing uses.                                        *)
(***************************************************************************)
EXTENDS Integers, Sequences

CONSTANTS
  MaxSessions,  \* bound: brokers started
  MaxAborts,    \* bound: calls of Abort
  MaxFailures,  \* failed authorizations before it gives up
  MaxUnread,    \* bound: tokens in the pipes when a call is made
  EarlyAbort,   \* Abort may stop the receiving before there is a pipe to receive from
  AbortAtPeer   \* and may take the peer before it is known

ASSUME RemoteHostAssumption ==
  /\ MaxSessions \in Nat /\ MaxAborts \in Nat /\ MaxFailures \in Nat /\ MaxUnread \in Nat
  /\ EarlyAbort \in BOOLEAN /\ AbortAtPeer \in BOOLEAN

VARIABLES
  at,           \* the place in HostRemote::ReInitialize, "call" in another call, or "idle"
  call,         \* the outstanding call
  object,       \* the object that is open
  complete,     \* its _complete
  confirmed,    \* WriteComplete has returned and not thrown
  turn,         \* the number of the last request
  session,      \* brokers started
  peer,         \* _peer: the broker's session, or 0
  hostAborted,      \* HostRemote::_aborted
  pipeCut,          \* PipeIPCRecver::_aborted
  asks,         \* _login_mode = 1
  failures,     \* auth_failures
  broker,       \* what the broker expects; "none", "dead"
  failed,       \* error_str of the last OnFilePut
  toBroker, toMaster,
  aborter,      \* the next step of Abort, or "idle"
  taken,        \* the peer it has taken
  aborts,
  hit           \* a call is outstanding that was when Abort was last called

login  == <<asks, failures>>
pipes  == <<toBroker, toMaster>>
client == <<call, object, complete, confirmed, turn, hit>>
other  == <<aborter, taken, aborts>>
hostVars   == <<at, client, session, peer, hostAborted, pipeCut, login, broker, failed, pipes, other>>

Starting == {"reset", "fresh", "fork", "forked", "hello", "peer", "login", "status", "giveup"}

Statuses == {"OK", "IDENTITY", "AUTH", "PROTOCOL", "GENERIC"}

\* The replies a call may get, besides errors
Answers ==
  [command |-> {"SIMPLE"}, openenum |-> {"ENUM"}, openget |-> {"GET"}, openput |-> {"PUT"},
   item |-> {"NEXT", "END"}, read |-> {"DATA", "EOF"}, write |-> {"PUT"},
   complete |-> {"STOP"}, close |-> {"STOP"}]

ObjectOpened == [openenum |-> "enumer", openget |-> "reader", openput |-> "writer"]

Requests == [command |-> "SIMPLE", openenum |-> "ENUM", openget |-> "GET", openput |-> "PUT"]

\* What the broker can make sense of
Expects ==
  [login |-> {"cred"}, loop |-> {"SIMPLE", "ENUM", "GET", "PUT"}, enum |-> {"NEXT", "STOP"},
   get |-> {"len", "zero"}, put |-> {"len", "zero"}, buf |-> {"buf"}]

HostTypeOK ==
  /\ at \in Starting \cup {"call", "idle"}
  /\ call \in DOMAIN Answers \cup {"init", "none"}
  /\ object \in {"none", "enumer", "reader", "writer"} /\ {complete, confirmed} \subseteq BOOLEAN
  /\ turn \in 0..1
  /\ session \in 0..MaxSessions /\ peer \in 0..session
  /\ {hostAborted, pipeCut, asks, failed, hit} \subseteq BOOLEAN
  /\ failures \in 0..MaxFailures
  /\ broker \in DOMAIN Expects \cup {"start", "none", "dead"}
  /\ aborter \in {"take", "cut", "kill", "idle"} /\ taken \in 0..session
  /\ aborts \in 0..MaxAborts
  /\ at = "idle" <=> call = "none"

HostInit ==
  /\ at = "idle" /\ call = "none" /\ object = "none" /\ complete = FALSE /\ confirmed = FALSE /\ turn = 0
  /\ session = 0 /\ peer = 0 /\ hostAborted = FALSE /\ pipeCut = FALSE
  /\ asks \in BOOLEAN /\ failures = 0
  /\ broker = "none" /\ failed = FALSE
  /\ toBroker = <<>> /\ toMaster = <<>>
  /\ aborter = "idle" /\ taken = 0 /\ aborts = 0 /\ hit = FALSE

Tokens(kinds, n) == [i \in DOMAIN kinds |-> [is |-> kinds[i], of |-> n]]

\* The call is over
Return == at' = "idle" /\ call' = "none" /\ hit' = FALSE

\* Nothing will be received: the receiver is aborted, or the broker has gone
Deaf == pipeCut \/ (broker \in {"dead", "none"} /\ toMaster = <<>>)

\* The next token for the master, when it may have it
Heard(kinds) == ~pipeCut /\ toMaster # <<>> /\ Head(toMaster).is \in kinds /\ toMaster' = Tail(toMaster)

-----------------------------------------------------------------------------
(* HostRemote::ReInitialize                                                *)

\* IPCEndpoint::SetFD(-1, -1): the broker finds its pipes closed
Unplug ==
  /\ pipeCut' = FALSE /\ toBroker' = <<>> /\ toMaster' = <<>>
  /\ broker' = "none" /\ failed' = FALSE

\* Called with no object alive
ReInitialize ==
  /\ at = "idle" /\ object = "none" /\ session < MaxSessions
  /\ at' = "reset" /\ call' = "init"
  /\ Unplug
  /\ UNCHANGED <<object, complete, confirmed, turn, hit, session, peer, hostAborted, login, other>>

\* The rest of OnBroken, and of a ReInitialize that throws after it
DropPeer ==
  /\ at \in {"reset", "giveup"}
  /\ peer' = 0
  /\ IF at = "reset" THEN at' = "fresh" /\ UNCHANGED <<call, hit>> ELSE Return
  /\ UNCHANGED <<object, complete, confirmed, turn, session, hostAborted, pipeCut, login, broker, failed, pipes, other>>

Fresh ==
  /\ at = "fresh" /\ at' = "fork"
  /\ hostAborted' = FALSE /\ failures' = 0
  /\ UNCHANGED <<client, session, peer, pipeCut, asks, broker, failed, pipes, other>>

Fork ==
  /\ at = "fork" /\ at' = "forked"
  /\ session' = session + 1 /\ broker' = "start"
  /\ UNCHANGED <<client, peer, hostAborted, pipeCut, login, failed, pipes, other>>

\* The configured command fails, takes too long, or is killed as _aborted is set; the
\* pipes are closed
InitCommand ==
  /\ at = "forked"
  /\ Return /\ broker' = "none" /\ toMaster' = <<>>
  /\ UNCHANGED <<object, complete, confirmed, turn, session, peer, hostAborted, pipeCut, login, failed, toBroker, other>>

\* SetFD of the new pipes
Plug ==
  /\ at = "forked" /\ at' = "hello"
  /\ pipeCut' = FALSE
  /\ UNCHANGED <<client, session, peer, hostAborted, login, broker, failed, pipes, other>>

\* The magic number and the process
Hello ==
  /\ at = "hello"
  /\ \/ Heard({"HELLO"}) /\ at' = "peer" /\ UNCHANGED <<pipeCut, broker, failed, toBroker>>
     \/ Deaf /\ Unplug /\ at' = "giveup"
  /\ UNCHANGED <<client, session, peer, hostAborted, login, other>>

SetPeer ==
  /\ at = "peer" /\ at' = "login"
  /\ peer' = session
  /\ UNCHANGED <<client, session, hostAborted, pipeCut, login, broker, failed, pipes, other>>

\* The credentials, which the user may be asked for and refuse
Login ==
  /\ at = "login"
  /\ \/ /\ at' = "status"
        /\ toBroker' = toBroker \o Tokens(<<"cred">>, turn)
        /\ UNCHANGED <<pipeCut, broker, failed, toMaster>>
     \/ asks /\ Unplug /\ at' = "giveup"
  /\ UNCHANGED <<client, session, peer, hostAborted, login, other>>

LoggedIn ==
  /\ at = "status" /\ Heard({"OK"})
  /\ Return /\ asks' = FALSE
  /\ UNCHANGED <<object, complete, confirmed, turn, session, peer, hostAborted, failures, pipeCut, broker, failed, toBroker, other>>

\* The user accepts another identity of the server, or is to give other credentials
LoginAgain ==
  /\ at = "status" /\ at' = "login"
  /\ \/ Heard({"IDENTITY"}) /\ asks' = FALSE /\ UNCHANGED failures
     \/ Heard({"AUTH"}) /\ failures < MaxFailures /\ asks' = TRUE /\ failures' = failures + 1
  /\ UNCHANGED <<client, session, peer, hostAborted, pipeCut, broker, failed, toBroker, other>>

LoginRefused ==
  /\ at = "status" /\ ~pipeCut /\ toMaster # <<>>
  /\ \/ Head(toMaster).is \in {"IDENTITY", "PROTOCOL", "GENERIC"}
     \/ Head(toMaster).is = "AUTH" /\ failures = MaxFailures
  /\ Unplug /\ at' = "giveup"
  /\ UNCHANGED <<client, session, peer, hostAborted, login, other>>

\* An exception of RecvPOD(status) leaves the peer as it is
LoginLost ==
  /\ at = "status" /\ Deaf
  /\ Return
  /\ UNCHANGED <<object, complete, confirmed, turn, session, peer, hostAborted, pipeCut, login, broker, failed, pipes, other>>

-----------------------------------------------------------------------------
(* Calls                                                                   *)

\* It sends what it has to say, be it to nobody, and waits for the reply
Ask(c, kinds) ==
  /\ Len(toBroker) + Len(toMaster) < MaxUnread
  /\ call' = c /\ at' = "call"
  /\ turn' = 1 - turn
  /\ toBroker' = toBroker \o Tokens(kinds, turn')

\* CheckReady; a reader that has come to its end takes no part in the conversation
Ready == peer # 0 /\ (object = "none" \/ (object = "reader" /\ complete))

\* GetMode ... ExecuteCommand, DirectoryEnum, FileGet, FilePut
Command ==
  /\ at = "idle" /\ Ready
  /\ \E c \in DOMAIN Requests :
       /\ c = "command" \/ object = "none"
       /\ Ask(c, <<Requests[c]>>)
  /\ UNCHANGED <<object, complete>>

\* Enum, Read, Write of an object that is not complete
Use ==
  /\ at = "idle" /\ ~complete
  /\ \/ object = "enumer" /\ Ask("item", <<"NEXT">>)
     \/ object = "reader" /\ Ask("read", <<"len">>)
     \/ object = "writer" /\ Ask("write", <<"len", "buf">>)
  /\ UNCHANGED <<object, complete>>

\* HostRemoteFileIO::EnsureComplete
WriteComplete ==
  /\ at = "idle" /\ object = "writer" /\ ~complete
  /\ complete' = TRUE
  /\ Ask("complete", <<"zero">>)
  /\ UNCHANGED object

\* The destructors of HostRemoteDirectoryEnumer and HostRemoteFileIO
DestroyObject ==
  /\ at = "idle" /\ object # "none"
  /\ IF complete
       THEN object' = "none" /\ complete' = FALSE /\ UNCHANGED <<call, turn, at, toBroker>>
       ELSE /\ Ask("close", <<IF object = "enumer" THEN "STOP" ELSE "zero">>)
            /\ complete' = TRUE
            /\ UNCHANGED object

Call ==
  /\ Command \/ Use \/ WriteComplete \/ DestroyObject
  /\ confirmed' = (confirmed /\ object' = "writer")
  /\ UNCHANGED <<hit, session, peer, hostAborted, pipeCut, login, broker, failed, toMaster, other>>

\* An object that is closed is gone, whatever the reply was
Dropped == object' = (IF call = "close" THEN "none" ELSE object)

\* RecvReply and what follows it
Replied ==
  /\ at = "call"
  /\ \E a \in Answers[call] :
       /\ Heard({a})
       /\ IF call \in DOMAIN ObjectOpened
            THEN object' = ObjectOpened[call] /\ complete' = FALSE
            ELSE Dropped /\ complete' = (call # "close" /\ (complete \/ a \in {"END", "EOF"}))
  /\ confirmed' = (object' = "writer" /\ (confirmed \/ call = "complete"))
  /\ Return

\* An error is replied, or nothing can be received: the object, if it was used, is
\* complete
Thrown ==
  /\ at = "call"
  /\ Heard({"ERROR"}) \/ (Deaf /\ UNCHANGED toMaster)
  /\ Dropped /\ complete' = (call # "close" /\ (complete \/ call \in {"item", "read", "write"}))
  /\ confirmed' = (confirmed /\ object' = "writer")
  /\ Return

Receive ==
  /\ Replied \/ Thrown
  /\ UNCHANGED <<turn, session, peer, hostAborted, pipeCut, login, broker, failed, toBroker, other>>

Master ==
  \/ ReInitialize \/ DropPeer \/ Fresh \/ Fork \/ InitCommand \/ Plug \/ Hello \/ SetPeer
  \/ Login \/ LoggedIn \/ LoginAgain \/ LoginRefused \/ LoginLost
  \/ Call \/ Receive

-----------------------------------------------------------------------------
(* HostRemote::Abort, by another thread                                    *)

\* _aborted = true
Abort ==
  /\ aborter = "idle" /\ aborts < MaxAborts
  /\ aborts' = aborts + 1 /\ aborter' = "take"
  /\ hostAborted' = TRUE /\ hit' = (call # "none")
  /\ UNCHANGED <<at, call, object, complete, confirmed, turn, session, peer, pipeCut, login, broker, failed, pipes, taken>>

TakePeer ==
  /\ aborter = "take" /\ aborter' = "cut"
  /\ AbortAtPeer \/ at # "peer"
  /\ taken' = peer /\ peer' = 0
  /\ UNCHANGED <<at, client, session, hostAborted, pipeCut, login, broker, failed, pipes, aborts>>

AbortReceiving ==
  /\ aborter = "cut" /\ aborter' = "kill"
  /\ EarlyAbort \/ ~hit \/ at \notin {"reset", "fresh", "fork", "forked"}
  /\ pipeCut' = TRUE
  /\ UNCHANGED <<at, client, session, peer, hostAborted, login, broker, failed, pipes, taken, aborts>>

\* kill(peer, SIGQUIT)
Kill ==
  /\ aborter = "kill" /\ aborter' = "idle"
  /\ taken' = 0
  /\ IF taken # 0 /\ taken = session /\ broker # "none"
       THEN broker' = "dead"
       ELSE UNCHANGED broker
  /\ UNCHANGED <<at, client, session, peer, hostAborted, pipeCut, login, failed, pipes, aborts>>

Aborting == TakePeer \/ AbortReceiving \/ Kill

-----------------------------------------------------------------------------
(* The broker                                                              *)

\* It has received these requests, and replies and goes to the place
Serve(kinds, reply, place) ==
  /\ Len(kinds) <= Len(toBroker) /\ \A i \in DOMAIN kinds : toBroker[i].is = kinds[i]
  /\ toBroker' = SubSeq(toBroker, Len(kinds) + 1, Len(toBroker))
  /\ toMaster' = toMaster \o Tokens(reply, toBroker[1].of)
  /\ broker' = place

\* HostRemoteBroker::HostRemoteBroker
Greet ==
  /\ broker = "start" /\ broker' = "login"
  /\ toMaster' = toMaster \o Tokens(<<"HELLO">>, turn)
  /\ UNCHANGED <<failed, toBroker>>

InitConnection ==
  /\ broker = "login"
  /\ \E s \in Statuses : Serve(<<"cred">>, <<s>>, IF s = "OK" THEN "loop" ELSE "login")
  /\ UNCHANGED failed

\* OnCommand, with the beginnings of OnDirectoryEnum, OnFileGet and OnFilePut;
\* Loop replies to exceptions
OnCommand ==
  /\ broker = "loop"
  /\ \E c \in Expects.loop :
       \/ Serve(<<c>>, <<c>>, CASE c = "SIMPLE" -> "loop" [] c = "ENUM" -> "enum"
                                [] c = "GET" -> "get" [] c = "PUT" -> "put")
       \/ Serve(<<c>>, <<"ERROR">>, "loop")
  /\ failed' = (failed /\ broker' # "put")

OnDirectoryEnum ==
  /\ broker = "enum"
  /\ \/ Serve(<<"NEXT">>, <<"NEXT">>, "enum")
     \/ Serve(<<"NEXT">>, <<"END">>, "loop")
     \/ Serve(<<"STOP">>, <<"STOP">>, "loop")
     \/ \E c \in Expects.enum : Serve(<<c>>, <<"ERROR">>, "loop")
  /\ UNCHANGED failed

OnFileGet ==
  /\ broker = "get"
  /\ \/ Serve(<<"len">>, <<"DATA">>, "get")
     \/ Serve(<<"len">>, <<"EOF">>, "loop")
     \/ Serve(<<"len">>, <<"ERROR">>, "loop")
     \/ Serve(<<"zero">>, <<"STOP">>, "loop")
  /\ UNCHANGED failed

ReportFailedWriteOnly ==
  /\ broker = "put" /\ failed
  /\ Serve(<<"len">>, <<"ERROR">>, "loop") \/ Serve(<<"zero">>, <<"ERROR">>, "loop")
  /\ UNCHANGED failed

\* The error of a write is the reply to the next operation
ReportFailedWrite ==
  /\ broker = "put" /\ failed
  /\ Serve(<<"len", "buf">>, <<"ERROR">>, "loop") \/ Serve(<<"zero">>, <<"ERROR">>, "loop")
  /\ UNCHANGED failed

OnFilePutUnreported ==
  /\ broker = "put"
  /\ \/ Serve(<<"len">>, <<"PUT">>, "buf")
     \/ Serve(<<"zero">>, <<"STOP">>, "loop")
     \/ Serve(<<"zero">>, <<"ERROR">>, "loop")
  /\ UNCHANGED failed

\* A write is acknowledged before it is done
OnFilePut ==
  /\ broker = "put" /\ ~failed
  /\ \/ Serve(<<"len">>, <<"PUT">>, "buf")
     \/ Serve(<<"zero">>, <<"STOP">>, "loop")
     \/ Serve(<<"zero">>, <<"ERROR">>, "loop")
  /\ UNCHANGED failed

DoWrite ==
  /\ broker = "buf"
  /\ Serve(<<"buf">>, <<>>, "put")
  /\ failed' \in BOOLEAN

\* It dies of a signal, of another exception, or of the end of its pipe
Die ==
  /\ broker \notin {"none", "dead"}
  /\ broker' = "dead" /\ UNCHANGED <<failed, pipes>>

Broker ==
  /\ \/ Greet \/ InitConnection \/ OnCommand \/ OnDirectoryEnum \/ OnFileGet
     \/ ReportFailedWrite \/ OnFilePut \/ DoWrite \/ Die
  /\ UNCHANGED <<at, client, session, peer, hostAborted, pipeCut, login, other>>

HostNext == Master \/ Abort \/ Aborting \/ Broker

HostSpec == HostInit /\ [][HostNext]_hostVars

(* Both threads of the program go on, and the user answers; the broker and *)
(* the server may hang.                                                    *)
HostFairSpec == HostSpec /\ WF_hostVars(Master) /\ WF_hostVars(Aborting)

-----------------------------------------------------------------------------
(* Properties                                                              *)

\* The two sides of a connection that is not aborted never get out of step: each
\* finds at the head of its pipe what it is waiting for, a reply is the reply to the
\* last request, and no reply is left over when a call has returned, after errors in
\* the middle of an enumeration or of a file and after objects dropped halfway too.
InStep ==
  ~pipeCut /\ broker # "none" =>
    /\ broker \in DOMAIN Expects /\ toBroker # <<>> => toBroker[1].is \in Expects[broker]
    /\ at = "call" /\ toMaster # <<>> =>
         toMaster[1].is \in Answers[call] \cup {"ERROR"} /\ toMaster[1].of = turn
    /\ at = "idle" => toMaster = <<>>

\* What was written and is not stored: it has failed or is in the pipe, for ever if
\* the broker is dead
Unsaved ==
  /\ object = "writer"
  /\ \/ failed
     \/ \E i \in DOMAIN toBroker : toBroker[i].is = "buf"

Promise == INSTANCE RemoteCalls WITH unsaved <- Unsaved

\* It keeps what a host promises: errors of writes, which are acknowledged before
\* they are done, come out before WriteComplete returns, whatever the broker does.
KeepsPromise == Promise!Spec
=============================================================================
