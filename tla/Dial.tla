-------------------------------- MODULE Dial --------------------------------
(***************************************************************************)
(* Opening a connection: openConnection of src/transport.js, which races   *)
(* openTunnel (src/proxy/) and then the TLS handshake against the          *)
(* deadlines of src/util/deadline.js.  openTunnel is a process of its own: *)
(* nothing stops it when it loses the race.  It dials the target or a      *)
(* proxy, holds the CONNECT or SOCKS5 dialogue over a buffered reader, and *)
(* hands the reader on as the tunnel, because bytes of the tunnel may have *)
(* been read together with the proxy's last reply.                         *)
(*                                                                         *)
(* The socket and the far side are external.  A message of the far side is *)
(* one token; <<"data", i>> is the i-th byte of the tunnel.  The handshake *)
(* is TlsHandshake's; here it reads the tunnel, then ends well or badly.   *)
(***************************************************************************)
EXTENDS Naturals, Sequences

CONSTANTS Modes,    \* the calls: proxy, credentials, https, and whether totalMs is set
          Timers,   \* deadlines: "connect", "handshake", "total"
          Events,   \* what else may happen: "abort", the caller's signal; "hangup", the far side's
          Bytes     \* how many bytes the far side sends through the tunnel

ASSUME DialAssumption ==
  /\ Modes \subseteq [proxy : {"direct", "http", "socks5"}, user : BOOLEAN,
                      secure : BOOLEAN, total : BOOLEAN]
  /\ Timers \subseteq {"connect", "handshake", "total"} /\ Events \subseteq {"abort", "hangup"}
  /\ Bytes \in Nat

VARIABLES mode,      \* the arguments of the call
          phase,     \* the phase whose timer runs: "connect", "handshake" or "none"
          settled,   \* the controller's _settled: fired, aborted or disposed
          aborted,   \* its signal
          owner,     \* openConnection: "connecting", "handshaking", "returned", "failed";
                     \* "abandoned" when it failed while openTunnel was running
          dialer,    \* openTunnel: where it stands, see Dialogue
          socket,    \* "none", "opening", "open" or "closed"
          asked,     \* the far side owes an answer
          inbound,   \* tokens the far side has sent, not yet read
          hungUp,    \* the far side has closed
          sent,      \* tunnel bytes it has sent
          buffer,    \* what the handshake's ByteReader holds
          promoted,  \* tunnelReadable reads the socket directly
          received   \* what was read from the tunnel

controllerVars == <<phase, settled, aborted>>
farVars == <<asked, inbound, hungUp, sent>>
readVars == <<buffer, promoted, received>>
dialVars == <<mode, controllerVars, owner, dialer, socket, farVars, readVars>>

DialInit ==
  /\ mode \in Modes
  /\ phase = "connect" /\ settled = FALSE /\ aborted = FALSE
  /\ owner = "connecting" /\ dialer = "start" /\ socket = "none"
  /\ asked = FALSE /\ inbound = <<>> /\ hungUp = FALSE /\ sent = 0
  /\ buffer = <<>> /\ promoted = FALSE /\ received = <<>>

-----------------------------------------------------------------------------
(***************************************************************************)
(* openTunnel.                                                             *)
(***************************************************************************)
\* Mutant: the handshake runs with no deadline of its own.
ConnectedUntimed ==
  IF owner = "connecting"
  THEN phase' = "none" /\ owner' = IF mode.secure THEN "handshaking" ELSE "returned"
  ELSE UNCHANGED <<owner, phase>>

\* What the race makes of a tunnel: openConnection goes on in the same turn.
Connected ==
  IF owner = "connecting"
  THEN IF mode.secure
       THEN owner' = "handshaking" /\ phase' = "handshake"
       ELSE owner' = "returned" /\ phase' = "none"
  ELSE UNCHANGED <<owner, phase>>

\* And of its failure: the controller is disposed of.
Refused ==
  IF owner = "connecting"
  THEN owner' = "failed" /\ phase' = "none" /\ settled' = TRUE
  ELSE UNCHANGED <<owner, phase, settled>>

DialerDone == dialer' = "done" /\ Connected /\ UNCHANGED <<settled, socket>>

\* The catch of the dialers releases the reader and closes the socket.
DialerFails == dialer' = "failed" /\ socket' = "closed" /\ Refused

\* signal.throwIfAborted, then connect(), which may throw.
Open ==
  /\ dialer = "start"
  /\ \/ /\ ~ aborted
        /\ dialer' = "opening" /\ socket' = "opening"
        /\ UNCHANGED <<owner, phase, settled>>
     \/ /\ dialer' = "failed" /\ Refused
        /\ UNCHANGED socket
  /\ UNCHANGED <<mode, aborted, farVars, readVars>>

Opened ==
  /\ dialer = "opening"
  /\ \/ /\ mode.proxy = "direct"
        /\ socket' = "open" /\ dialer' = "done" /\ Connected
        /\ UNCHANGED <<settled, asked>>
     \/ /\ mode.proxy # "direct"
        /\ socket' = "open" /\ asked' = TRUE
        /\ dialer' = IF mode.proxy = "http" THEN "reply" ELSE "greet"
        /\ UNCHANGED <<owner, phase, settled>>
     \/ DialerFails /\ UNCHANGED asked
  /\ UNCHANGED <<mode, aborted, inbound, hungUp, sent, readVars>>

\* Mutant: the reply is taken for the whole of the answer.
DialogueShort(place, token) ==
  CASE place = "reply" /\ token = "ok" -> "done"
    [] place = "greet" /\ token = "none" -> "request"
    [] place = "greet" /\ token = "userpass" /\ mode.user -> "auth"
    [] place = "auth" /\ token = "ok" -> "request"
    [] place = "request" /\ token = "ok" -> "done"
    [] OTHER -> "failed"

(***************************************************************************)
(* What the dialer does with the token it reads: the next place, asking    *)
(* another question where that place needs one.  Any other token, an       *)
(* unoffered method, a wrong version, a refusal, an oversized reply, fails *)
(* it.  A SOCKS5 refusal is reported after the bound address was read.     *)
(***************************************************************************)
Dialogue(place, token) ==
  CASE place = "reply" /\ token = "ok" -> "done"
    [] place = "greet" /\ token = "none" -> "request"
    [] place = "greet" /\ token = "userpass" /\ mode.user -> "auth"
    [] place = "auth" /\ token = "ok" -> "request"
    [] place = "request" /\ token = "ok" -> "address"
    [] place = "request" /\ token = "refused" -> "refused"
    [] place = "address" /\ token = "address" -> "done"
    [] OTHER -> "failed"

Waiting == dialer \in {"reply", "greet", "auth", "request", "address", "refused"}

\* The ByteReader reads whatever has arrived, which may go past the reply.
Fill ==
  /\ Waiting /\ buffer = <<>>
  /\ \E n \in 1..Len(inbound) :
       /\ buffer' = SubSeq(inbound, 1, n)
       /\ inbound' = SubSeq(inbound, n + 1, Len(inbound))
  /\ UNCHANGED <<mode, controllerVars, owner, dialer, socket, asked, hungUp, sent, promoted, received>>

Answered ==
  /\ Waiting /\ buffer # <<>>
  /\ buffer' = Tail(buffer)
  /\ LET place == Dialogue(dialer, Head(buffer)[1]) IN
     CASE place = "done" -> DialerDone /\ UNCHANGED asked
       [] place = "failed" -> DialerFails /\ UNCHANGED asked
       [] OTHER -> /\ dialer' = place /\ asked' = (place \in {"auth", "request"})
                   /\ UNCHANGED <<owner, phase, settled, socket>>
  /\ UNCHANGED <<mode, aborted, inbound, hungUp, sent, promoted, received>>

\* The far side closes in the middle of the dialogue.
CutOff ==
  /\ Waiting /\ buffer = <<>> /\ inbound = <<>> /\ hungUp
  /\ DialerFails
  /\ UNCHANGED <<mode, aborted, farVars, readVars>>

-----------------------------------------------------------------------------
(***************************************************************************)
(* The deadlines.  Whichever fires first aborts the signal; the race that  *)
(* openConnection awaits is lost in the same turn.                         *)
(***************************************************************************)
Abort ==
  /\ ~ settled
  /\ settled' = TRUE /\ aborted' = TRUE /\ phase' = "none"
  /\ CASE owner = "connecting" -> owner' = "abandoned" /\ UNCHANGED socket
       [] owner = "handshaking" -> owner' = "failed" /\ socket' = "closed"
       [] OTHER -> UNCHANGED <<owner, socket>>
  /\ UNCHANGED <<mode, dialer, farVars, readVars>>

Running == {phase} \union (IF mode.total THEN {"total"} ELSE {})
Fire(timer) == timer \in Running /\ Abort
AbortFromOuter == "abort" \in Events /\ Abort

\* Mutant: the handshake's failure leaves the tunnel to its owner.
HandshakeLeaves ==
  /\ owner = "handshaking"
  /\ phase' = "none"
  /\ \/ owner' = "returned" /\ UNCHANGED settled
     \/ owner' = "failed" /\ settled' = TRUE
  /\ UNCHANGED <<mode, aborted, dialer, socket, farVars, readVars>>

\* connectTls settles: the session is returned, or the tunnel closed.
Handshake ==
  /\ owner = "handshaking"
  /\ phase' = "none"
  /\ \/ owner' = "returned" /\ UNCHANGED <<settled, socket>>
     \/ owner' = "failed" /\ socket' = "closed" /\ settled' = TRUE
  /\ UNCHANGED <<mode, aborted, dialer, farVars, readVars>>

-----------------------------------------------------------------------------
(***************************************************************************)
(* The tunnel, read by the handshake and then by the request.              *)
(***************************************************************************)
\* Mutant: the socket is read directly while the reader still holds bytes.
PromoteAtOnce == TRUE

\* The reader is let go of as soon as it holds nothing.
Promote == mode.proxy = "direct" \/ promoted \/ buffer = <<>>

ReadTunnel ==
  /\ owner \in {"handshaking", "returned"} /\ socket = "open"
  /\ \/ /\ Promote
        /\ \E n \in 1..Len(inbound) :
             /\ received' = received \o SubSeq(inbound, 1, n)
             /\ inbound' = SubSeq(inbound, n + 1, Len(inbound))
        /\ promoted' = (mode.proxy # "direct")
        /\ UNCHANGED buffer
     \/ /\ ~ Promote
        /\ \E n \in 1..Len(buffer) :
             /\ received' = received \o SubSeq(buffer, 1, n)
             /\ buffer' = SubSeq(buffer, n + 1, Len(buffer))
        /\ UNCHANGED <<inbound, promoted>>
  /\ UNCHANGED <<mode, controllerVars, owner, dialer, socket, asked, hungUp, sent>>

-----------------------------------------------------------------------------
(***************************************************************************)
(* The far side: a proxy answers each question well or badly, and once it  *)
(* has let the client through sends on whatever the target sends.          *)
(***************************************************************************)
Replies == [reply |-> {"ok", "refused"}, greet |-> {"none", "userpass", "bad"},
            auth |-> {"ok", "bad"}, request |-> {"ok", "refused", "bad"}]

FarAnswers ==
  /\ asked /\ ~ hungUp
  /\ \E answer \in Replies[dialer] :
       LET address == IF dialer = "request" /\ answer # "bad" THEN <<<<"address", 0>>>> ELSE <<>>
           open == answer = "ok" /\ dialer # "auth"
       IN \E n \in 0..(IF open THEN Bytes ELSE 0) :
            /\ sent' = n
            /\ inbound' = <<<<answer, 0>>>> \o address \o [i \in 1..n |-> <<"data", i>>]
  /\ asked' = FALSE
  /\ UNCHANGED <<mode, controllerVars, owner, dialer, socket, hungUp, readVars>>

FarSends ==
  /\ dialer = "done" /\ socket = "open" /\ ~ hungUp /\ sent < Bytes
  /\ sent' = sent + 1
  /\ inbound' = Append(inbound, <<"data", sent + 1>>)
  /\ UNCHANGED <<mode, controllerVars, owner, dialer, socket, asked, hungUp, readVars>>

FarHangsUp ==
  /\ "hangup" \in Events /\ socket = "open" /\ ~ hungUp
  /\ hungUp' = TRUE /\ asked' = FALSE
  /\ UNCHANGED <<mode, controllerVars, owner, dialer, socket, inbound, sent, readVars>>

DialerStep == Open \/ Opened \/ Fill \/ Answered \/ CutOff
Far == FarAnswers \/ FarSends \/ FarHangsUp

DialNext ==
  \/ DialerStep
  \/ (\E timer \in Timers : Fire(timer)) \/ AbortFromOuter
  \/ Handshake \/ ReadTunnel
  \/ Far

(***************************************************************************)
(* A timer that is not cleared fires.  The dialer goes on when it can,     *)
(* except that a socket may stay in opening for ever; the far side and the *)
(* handshake owe nothing.                                                  *)
(***************************************************************************)
DialSpec == DialInit /\ [][DialNext]_dialVars /\ \A timer \in Timers : WF_dialVars(Fire(timer))

-----------------------------------------------------------------------------
(***************************************************************************)
(* A dial that fails holds no socket: not when the proxy refuses, stops or *)
(* answers nonsense at any point of the dialogue, not when the handshake   *)
(* fails or runs out of time.  The one exception is the dial given up      *)
(* while openTunnel was running, see NoOrphan.                             *)
(***************************************************************************)
FailureCloses == owner = "failed" \/ dialer = "failed" => socket \in {"none", "closed"}

(***************************************************************************)
(* The tunnel is exactly the bytes sent through it: what the proxy said    *)
(* for itself is gone, and of what came with it nothing is lost, repeated  *)
(* or moved, across the buffered reader and the switch to direct reads.    *)
(***************************************************************************)
TunnelExact ==
  dialer = "done" => received \o buffer \o inbound = [i \in 1..sent |-> <<"data", i>>]

(***************************************************************************)
(* Every dial ends, whatever the proxy and the server do: with a           *)
(* connection or with an error, because one deadline covers each phase.    *)
(***************************************************************************)
DialEnds == <>(owner \notin {"connecting", "handshaking"})

(***************************************************************************)
(* What src/util/deadline.js:44 says of a timeout: it tears the connection *)
(* down.  A tunnel that opens after its dial was given up is torn down too.*)
(***************************************************************************)
NoOrphan == owner = "abandoned" /\ dialer = "done" => socket # "open"
=============================================================================
