---------------------------- MODULE Pop3XClient ----------------------------
(***************************************************************************)
(* The XCLIENT command of a POP3 session: a proxy in front of the server   *)
(* tells it the address of the real client.  The command is taken only     *)
(* from a trusted proxy, and trust is read off the limiter's trusted       *)
(* networks: of s.ProxyIP when the session has one, of the peer of the     *)
(* connection otherwise.                                                   *)
(*                                                                         *)
(* s.ProxyIP has two writers: the PROXY protocol header when the           *)
(* connection is accepted, and handleXCLIENT itself, which stores the      *)
(* proxy-source-ip the peer sent when the field is still empty.  A session *)
(* takes any number of XCLIENT commands, so the trust of a later one is    *)
(* judged on what an earlier one wrote.                                    *)
(***************************************************************************)
EXTENDS Integers

CONSTANTS
    IPs,          \* addresses
    TrustedIPs,   \* the addresses inside the limiter's trustedNets
    MaxTTL,       \* the largest ProxyTTL a peer sends
    Malformed,    \* arguments ParsePOP3XCLIENT fails on
    Invalid,      \* arguments ValidateForwarding fails on
    NULL

ASSUME TrustedIPs \subseteq IPs /\ MaxTTL \in Nat

\* server.ForwardingParams, as far as handleXCLIENT reads it.
ForwardingParamsType ==
    [OriginatingIP : IPs \cup {NULL},
     ProxyTTL      : 0..MaxTTL,
     proxySourceIP : IPs \cup {NULL}]     \* Variables["proxy-source-ip"]

\* What a peer can send after the word XCLIENT.
Args == {Malformed, Invalid} \cup ForwardingParamsType

Responses == {"NotTrusted", "BadParameters", "BadForwarding", "TTLExpired", "OK"}

VARIABLES
    limiter,           \* s.server.limiter != nil
    conn,              \* conn.RemoteAddr(), NULL while there is no session
    ProxyIP,           \* s.ProxyIP, NULL for ""
    RemoteIP,          \* s.RemoteIP
    ForwardingParams,  \* s.ForwardingParams
    response           \* the last line handleXCLIENT wrote

vars == <<limiter, conn, ProxyIP, RemoteIP, ForwardingParams, response>>

Init ==
    /\ limiter \in BOOLEAN
    /\ conn = NULL /\ ProxyIP = NULL /\ RemoteIP = NULL
    /\ ForwardingParams = NULL /\ response = NULL

-----------------------------------------------------------------------------
(* The session around the command *)

\* A connection from a is accepted.  With a PROXY header the session holds
\* the peer as ProxyIP and the client the header names as RemoteIP.
Connect(a, viaProxy, client) ==
    /\ conn = NULL
    /\ conn' = a
    /\ ProxyIP' = IF viaProxy THEN a ELSE NULL
    /\ RemoteIP' = IF viaProxy THEN client ELSE a
    /\ ForwardingParams' = NULL /\ response' = NULL
    /\ UNCHANGED limiter

Disconnect ==
    /\ conn # NULL
    /\ conn' = NULL /\ ProxyIP' = NULL /\ RemoteIP' = NULL
    /\ ForwardingParams' = NULL /\ response' = NULL
    /\ UNCHANGED limiter

-----------------------------------------------------------------------------
(* isFromTrustedProxy *)

\* limiter.IsTrustedConnection: is the address inside a trusted network?
IsTrustedConnection(a) == a \in TrustedIPs

\* The address on which trust is judged.
ProxyAddr == IF ProxyIP # NULL THEN ProxyIP ELSE conn

\* The check that takes every peer for a proxy.
isFromTrustedProxy_Always == TRUE

isFromTrustedProxy == limiter /\ IsTrustedConnection(ProxyAddr)

-----------------------------------------------------------------------------
(* handleXCLIENT *)

\* The checks of handleXCLIENT, each made only when the ones before passed.
Parses(args)   == isFromTrustedProxy /\ args # Malformed
Valid(args)    == Parses(args) /\ args # Invalid
TTLLeft(args)  == Valid(args) /\ args.ProxyTTL > 0

Refuse(why) ==
    /\ response' = why
    /\ UNCHANGED <<ProxyIP, RemoteIP, ForwardingParams>>

\* DecrementTTL on parameters whose TTL is not used up.
DecrementTTL(args) == [args EXCEPT !.ProxyTTL = @ - 1]

\* The originating address replacing RemoteIP whether it is there or not.
NewRemoteIP_Unguarded(args) == args.OriginatingIP

NewRemoteIP(args) ==
    IF args.OriginatingIP # NULL THEN args.OriginatingIP ELSE RemoteIP

NewProxyIP(args) ==
    IF args.proxySourceIP # NULL /\ ProxyIP = NULL THEN args.proxySourceIP
                                                   ELSE ProxyIP

Accept(args) ==
    /\ ForwardingParams' = DecrementTTL(args)
    /\ RemoteIP' = NewRemoteIP(args)
    /\ ProxyIP' = NewProxyIP(args)
    /\ response' = "OK"

handleXCLIENT(args) ==
    /\ conn # NULL
    /\ \/ ~isFromTrustedProxy /\ Refuse("NotTrusted")
       \/ isFromTrustedProxy /\ ~Parses(args) /\ Refuse("BadParameters")
       \/ Parses(args) /\ ~Valid(args) /\ Refuse("BadForwarding")
       \/ Valid(args) /\ ~TTLLeft(args) /\ Refuse("TTLExpired")
       \/ TTLLeft(args) /\ Accept(args)
    /\ UNCHANGED <<limiter, conn>>

Next ==
    \/ \E a, client \in IPs, viaProxy \in BOOLEAN : Connect(a, viaProxy, client)
    \/ Disconnect
    \/ \E args \in Args : handleXCLIENT(args)

Spec == Init /\ [][Next]_vars

-----------------------------------------------------------------------------
(* Properties *)

\* The fields have the shapes of the Go fields, and a session always knows
\* an address for its client: handleXCLIENT replaces RemoteIP only by an
\* originating address that is there.
TypeOK ==
    /\ limiter \in BOOLEAN
    /\ conn \in IPs \cup {NULL}
    /\ ProxyIP \in IPs \cup {NULL}
    /\ RemoteIP \in IPs \cup {NULL}
    /\ ForwardingParams \in ForwardingParamsType \cup {NULL}
    /\ response \in Responses \cup {NULL}
    /\ conn # NULL <=> RemoteIP # NULL
    /\ response = "OK" => ForwardingParams # NULL

\* XCLIENT is accepted only from trusted proxies: a session holds forwarding
\* parameters only when the server has a limiter and the peer of the
\* connection is inside its trusted networks.  isFromTrustedProxy judges
\* s.ProxyIP, which after a first XCLIENT is an address the peer chose; the
\* property says that no sequence of commands lets a peer outside the
\* trusted networks get a command accepted that way.
AcceptedOnlyFromTrusted ==
    ForwardingParams # NULL => limiter /\ conn \in TrustedIPs

=============================================================================
