---------------------------- MODULE FileIngress ----------------------------
(***************************************************************************)
(* The tool ingest_course_source of the MCP server and the download of its *)
(* temporary file, download_openai_file in mcp_file_ingress.py, under its  *)
(* three policies: the exact-host path over urllib, and the engine that    *)
(* resolves, validates and binds every hop, with or without a list of      *)
(* hosts.  Without a policy the tool only notes the host of the file.      *)
(*                                                                         *)
(* Time is counted in units, for the policies with an overall deadline;    *)
(* only calls that block take time: the resolver, which nothing            *)
(* interrupts, and network operations, which are bounded by what is left   *)
(* of the deadline.  The exact-host path has no overall deadline, only a   *)
(* timeout on each operation, so no time is counted there and a call of    *)
(* urllib may never return.  Resolver, servers and network answer whatever *)
(* they like.  A url is what the checks look at: its host, its port, and   *)
(* whether it is plain, that is https with neither user information nor    *)
(* fragment; a location is the url that urljoin makes of it, or Malformed. *)
(* Content is its length.                                                  *)
(***************************************************************************)
EXTENDS Integers, Sequences, FiniteSets

CONSTANTS
  Url,            \* records [host, port, plain]
  LiteralHost,    \* hosts that are written as addresses
  Address,        \* records [class, mapped]
  Policy,         \* policies that callers construct: [mode, bind, hosts]
  HostList,       \* values of --allowed-file-host
  Status,         \* response codes of servers
  DeclaredLength, \* values of Content-Length, -1 when malformed, or None
  MaxBytes,       \* max_bytes
  MaxChunk,       \* longest chunk that is read at once
  Timeout,        \* timeout_seconds
  Overall,        \* overall_deadline_seconds
  MaxLookup,      \* longest time the resolver takes
  MaxHops,        \* MAX_REDIRECT_HOPS
  MaxCalls,       \* bound on the calls of the tool
  Malformed,      \* a location of which no url can be made
  None

Hosts == {u.host : u \in Url}

Location == Url \cup {None, Malformed}

Responses == [status : Status, location : Location, length : DeclaredLength]

\* FileDownloadPolicy: a list of hosts belongs to the exact-host mode and only
\* to it, the flag stands only beside one, and no operation of the engine may
\* take longer than its deadline.
IsPolicy(p) ==
  /\ p \in [mode : {"exact_host", "connection_bound"}, bind : BOOLEAN,
            hosts : SUBSET Hosts]
  /\ IF p.mode = "exact_host" THEN p.hosts # {} ELSE p.hosts = {} /\ ~p.bind
  /\ p.mode = "connection_bound" \/ p.bind => Timeout <= Overall

ASSUME IngressAssumption ==
  /\ \A p \in Policy : IsPolicy(p)
  /\ HostList \subseteq SUBSET Hosts
  /\ {MaxBytes, MaxChunk, Timeout, Overall, MaxLookup, MaxHops} \subseteq Nat
  /\ MaxCalls \in Nat
  /\ MaxBytes >= 1 /\ Timeout >= 1 /\ Timeout <= Overall
  /\ DeclaredLength \subseteq Int \cup {None}
  /\ Malformed \notin Url /\ None \notin Url \cup Responses \cup {Malformed}

VARIABLES
  policy,     \* file_download_policy of the server, or None
  calls,      \* calls of the tool
  stored,     \* the source: [size, at], at being the age of its download
  observed,   \* the host in observed-file-host.txt
  phase,      \* where the download is
  url,        \* current_url
  hop,        \* redirects followed
  now,        \* time since the download began
  addresses,  \* what the resolver returned last
  lookup,     \* the hop that it was asked for
  open,       \* connections that are open: [host, hop, address, addresses]
  response,   \* status, location and declared length, or None
  total,      \* bytes kept
  result

tool     == <<policy, calls, stored, observed>>
download ==
  <<phase, url, hop, now, addresses, lookup, open, response, total, result>>
vars     == <<tool, download>>

Bound == policy.mode = "connection_bound" \/ policy.bind

-----------------------------------------------------------------------------
(* Checks                                                                  *)

\* _url_is_allowed: the exact-host check, on any port.
UrlIsAllowed(u) == u.plain /\ u.host \in policy.hosts

\* _canonicalize_f2_url accepts named hosts on the default port.
IsCanonical(u) == u.plain /\ u.port = 443 /\ u.host \notin LiteralHost

HostnameAllowed(host) == policy.mode = "exact_host" => host \in policy.hosts

DeniedClass ==
  {"private", "loopback", "link_local", "multicast", "unspecified", "reserved",
   "shared", "site_local"}

\* An IPv4-mapped address is what it maps.
ClassOf(a) == IF a.mapped = None THEN a.class ELSE a.mapped

DestinationIsSafe(a) == ClassOf(a) \notin DeniedClass

Redirects == {301, 302, 303, 307, 308}

\* HTTPErrorProcessor of urllib takes any other status for an error.
IsSuccess(status) == status \in 200..299

-----------------------------------------------------------------------------
(* Time                                                                    *)

Remaining == Overall - now

SlipBoundedTimeout == Timeout

BoundedTimeout == IF Timeout < Remaining THEN Timeout ELSE Remaining

Takes(least, longest) == \E d \in least..longest : now' = now + d

\* An operation of the bound stream: refused once the deadline has passed, else
\* it ends, one way or the other, before the deadline.
InTime(step) == Remaining > 0 /\ Takes(0, BoundedTimeout) /\ step

TooLate == Remaining <= 0 /\ UNCHANGED now

-----------------------------------------------------------------------------
(* Results                                                                 *)

Ends(outcome) ==
  /\ phase' = "done"
  /\ result' = outcome

Fails(code) == Ends([kind |-> code, size |-> 0])

Continues(next) ==
  /\ phase' = next
  /\ UNCHANGED result

CloseAll == open' = {}

Hop == <<tool, url, hop>>

Lookup == <<addresses, lookup>>

\* A connection of the present hop, to this address.
ConnectionTo(address) ==
  [host |-> url.host, hop |-> hop, address |-> address, addresses |-> addresses]

-----------------------------------------------------------------------------
(* The tool                                                                *)

\* create_runtime_config refuses a list of hosts beside the engine that needs
\* none; without either, there is no policy.
RuntimePolicy(hosts, bound) ==
  IF hosts = {} /\ ~bound THEN None
  ELSE [mode |-> IF bound THEN "connection_bound" ELSE "exact_host",
        bind |-> ~bound,
        hosts |-> hosts]

Configured ==
  {RuntimePolicy(hosts, FALSE) : hosts \in HostList} \cup
  {RuntimePolicy({}, bound) : bound \in BOOLEAN}

Init ==
  /\ policy \in Policy \cup Configured
  /\ calls = 0
  /\ stored = None
  /\ observed = None
  /\ phase = "idle"
  /\ url \in Url
  /\ hop = 0
  /\ now = 0
  /\ addresses = <<>>
  /\ lookup = 0
  /\ open = {}
  /\ response = None
  /\ total = 0
  /\ result = None

\* A call with the url of a file.
Call(u) ==
  /\ phase = "idle"
  /\ policy # None
  /\ calls < MaxCalls
  /\ calls' = calls + 1
  /\ phase' = "start"
  /\ url' = u
  /\ UNCHANGED <<policy, stored, observed, hop, now, Lookup, open, response,
                 total, result>>

\* _observe_file_host: the first valid host is kept, and the call fails.
ObserveHost(u) ==
  /\ phase = "idle"
  /\ policy = None
  /\ calls < MaxCalls
  /\ calls' = calls + 1
  /\ observed' = IF observed = None /\ u.plain /\ u.port = 443
                   THEN u.host ELSE observed
  /\ UNCHANGED <<policy, stored, download>>

\* The tool hands what was downloaded to the source store, where the first
\* content of an id stays, and answers; a failure and an exception store
\* nothing.  What the download left open is now the garbage collector's.
StoreSource ==
  /\ phase = "done"
  /\ stored' = IF stored = None /\ result.kind = "bytes"
                 THEN [size |-> result.size, at |-> now] ELSE stored
  /\ phase' = "idle"
  /\ hop' = 0
  /\ now' = 0
  /\ addresses' = <<>>
  /\ lookup' = 0
  /\ open' = {}
  /\ response' = None
  /\ total' = 0
  /\ result' = None
  /\ UNCHANGED <<policy, calls, observed, url>>

-----------------------------------------------------------------------------
(* Connection-bound engine                                                 *)

\* The checks of a hop before its host is resolved.
StartHop ==
  /\ phase = "start"
  /\ Bound
  /\ CASE hop > MaxHops \/ Remaining <= 0 -> Fails("file_download_failed")
       [] hop <= MaxHops /\ Remaining > 0 ->
            IF IsCanonical(url) /\ HostnameAllowed(url.host)
              THEN Continues("resolve")
              ELSE Fails("file_download_not_allowed")
  /\ UNCHANGED <<Hop, now, Lookup, open, response, total>>

\* getaddrinfo: its answer need not be that of an earlier call.
Resolve ==
  /\ phase = "resolve"
  /\ Takes(0, MaxLookup)
  /\ addresses' \in {<<>>} \cup {<<a>> : a \in Address}
                      \cup {<<a, b>> : a, b \in Address}
  /\ lookup' = hop
  /\ Continues("judge")
  /\ UNCHANGED <<Hop, open, response, total>>

AllSafe == \A i \in DOMAIN addresses : DestinationIsSafe(addresses[i])

Judge ==
  /\ phase = "judge"
  /\ IF Remaining <= 0 THEN Fails("file_download_failed")
     ELSE IF addresses # <<>> /\ AllSafe THEN Continues("connect")
     ELSE Fails("file_download_not_allowed")
  /\ UNCHANGED <<Hop, now, Lookup, open, response, total>>

\* connect_tcp goes to the first of the addresses that were judged.
Connect ==
  /\ phase = "connect"
  /\ \/ InTime(/\ Continues("handshake")
               /\ open' = open \cup {ConnectionTo(addresses[1])})
     \/ (TooLate \/ InTime(TRUE)) /\ Fails("file_download_failed") /\ UNCHANGED open
  /\ UNCHANGED <<Hop, Lookup, response, total>>

SlipHandshakeFails == Fails("file_download_failed") /\ UNCHANGED open

\* start_tls closes the stream that it could not secure.
HandshakeFails == Fails("file_download_failed") /\ CloseAll

\* When the deadline has passed, start_tls raises before it guards the stream,
\* and the connection does not own a stream it has not finished connecting.
Handshake ==
  /\ phase = "handshake"
  /\ \/ InTime(Continues("exchange")) /\ UNCHANGED open
     \/ InTime(TRUE) /\ HandshakeFails
     \/ TooLate /\ Fails("file_download_failed") /\ UNCHANGED open
  /\ UNCHANGED <<Hop, Lookup, response, total>>

\* One operation of handle_request: a write of the request or a read of the
\* head, after which the head is complete, or not yet (it takes as many reads as
\* the server likes, and one that completes nothing has taken time), or which has
\* failed and closes the connection.
Exchange ==
  /\ phase = "exchange"
  /\ \/ InTime(Continues("response")) /\ response' \in Responses /\ UNCHANGED open
     \/ InTime(now' > now) /\ UNCHANGED <<phase, result, open, response>>
     \/ /\ TooLate \/ InTime(TRUE)
        /\ Fails("file_download_failed")
        /\ CloseAll
        /\ UNCHANGED response
  /\ UNCHANGED <<Hop, Lookup, total>>

SlipHops == hop

\* The loop counts its hops.
Hops == hop + 1

SlipNextHop == Continues("connect") /\ addresses' = addresses

\* Every redirect starts over: the host of the next hop is checked and resolved.
NextHop == Continues("start") /\ addresses' = <<>>

\* urljoin stands in the try whose finally closes the connection, but in no
\* try with an except: what it raises leaves download_openai_file.
Redirected ==
  /\ phase = "response"
  /\ response.status \in Redirects
  /\ CloseAll
  /\ \/ /\ response.location = None
        /\ Fails("file_download_failed")
        /\ UNCHANGED <<url, hop, addresses>>
     \/ /\ response.location = Malformed
        /\ Fails("raised")
        /\ UNCHANGED <<url, hop, addresses>>
     \/ /\ response.location \in Url
        /\ NextHop
        /\ url' = response.location
        /\ hop' = Hops
  /\ response' = None
  /\ UNCHANGED <<tool, now, lookup, total>>

\* What the declared length decides before the body is read.
LengthRefuses(length) == length # None /\ (length < 0 \/ length > MaxBytes)

LengthFailure(length) ==
  IF length < 0 THEN "file_download_failed" ELSE "file_too_large"

BeginBody ==
  /\ phase = "response"
  /\ response.status \notin Redirects
  /\ IF response.status # 200
       THEN Fails("file_download_failed") /\ CloseAll
     ELSE IF LengthRefuses(response.length)
       THEN Fails(LengthFailure(response.length)) /\ CloseAll
     ELSE Continues("body") /\ UNCHANGED open
  /\ UNCHANGED <<Hop, now, Lookup, response, total>>

TooLarge(size) == total + size > MaxBytes

\* A chunk of some length; one that brings nothing has taken time.
KeepChunk(size) ==
  IF TooLarge(size) THEN Fails("file_too_large") /\ CloseAll /\ UNCHANGED total
  ELSE Continues("body") /\ total' = total + size /\ UNCHANGED open

ReadBody ==
  /\ phase = "body"
  /\ \/ \E size \in 1..MaxChunk : InTime(KeepChunk(size))
     \/ InTime(now' > now) /\ KeepChunk(0)
     \/ /\ InTime(Ends([kind |-> "bytes", size |-> total]))
        /\ CloseAll
        /\ UNCHANGED total
     \/ /\ TooLate \/ InTime(TRUE)
        /\ Fails("file_download_failed")
        /\ CloseAll
        /\ UNCHANGED total
  /\ UNCHANGED <<Hop, Lookup, response>>

-----------------------------------------------------------------------------
(* The exact-host path: urllib connects and follows redirects, the handler *)
(* checks where they lead; only the response of a file is closed by a with *)

StartExact ==
  /\ phase = "start"
  /\ ~Bound
  /\ IF UrlIsAllowed(url) THEN Continues("exact_open")
                          ELSE Fails("file_download_not_allowed")
  /\ UNCHANGED <<Hop, now, Lookup, open, response, total>>

\* do_open: connecting, the handshake and the head of a response; what fails on
\* the way is closed.
ExactOpen ==
  /\ phase = "exact_open"
  /\ \/ Fails("file_download_failed") /\ UNCHANGED <<open, response>>
     \/ /\ Continues("exact_response")
        /\ response' \in Responses
        /\ open' = open \cup {ConnectionTo(None)}
  /\ UNCHANGED <<Hop, now, Lookup, total>>

\* urllib finds no url to follow or cannot parse it; then the handler checks it;
\* then urllib has its own limits, here MaxHops, and reads the body of the
\* redirect, which may fail.
RedirectFails ==
  IF response.location \in Url /\ ~UrlIsAllowed(response.location)
    THEN Fails("file_download_not_allowed")
    ELSE Fails("file_download_failed")

\* A redirect that is followed is read to its end and closed; one that is not is
\* raised, with the response open.
ExactRedirect ==
  /\ phase = "exact_response"
  /\ response.status \in Redirects
  /\ \/ /\ response.location \in Url
        /\ UrlIsAllowed(response.location)
        /\ hop < MaxHops
        /\ Continues("exact_open")
        /\ CloseAll
        /\ url' = response.location
        /\ hop' = hop + 1
        /\ response' = None
     \/ RedirectFails /\ UNCHANGED <<url, hop, open, response>>
  /\ UNCHANGED <<tool, now, Lookup, total>>

\* HTTPErrorProcessor raises an HTTPError that holds the response of an error;
\* nothing closes it.  A file's own response is entered by the with.
ExactBegin ==
  /\ phase = "exact_response"
  /\ response.status \notin Redirects
  /\ IF ~IsSuccess(response.status)
       THEN Fails("file_download_failed") /\ UNCHANGED open
     ELSE IF LengthRefuses(response.length)
       THEN Fails(LengthFailure(response.length)) /\ CloseAll
     ELSE Continues("exact_body") /\ UNCHANGED open
  /\ UNCHANGED <<Hop, now, Lookup, response, total>>

\* Chunks are never empty here: an empty read is the end.
ExactBody ==
  /\ phase = "exact_body"
  /\ \/ \E size \in 1..MaxChunk :
          IF TooLarge(size)
            THEN Fails("file_too_large") /\ CloseAll /\ UNCHANGED total
            ELSE Continues("exact_body") /\ total' = total + size /\ UNCHANGED open
     \/ Ends([kind |-> "bytes", size |-> total]) /\ CloseAll /\ UNCHANGED total
     \/ Fails("file_download_failed") /\ CloseAll /\ UNCHANGED total
  /\ UNCHANGED <<Hop, now, Lookup, response>>

-----------------------------------------------------------------------------
BoundDownload ==
  \/ StartHop \/ Resolve \/ Judge \/ Connect \/ Handshake \/ Exchange
  \/ Redirected \/ BeginBody \/ ReadBody

ExactDownload ==
  \/ StartExact \/ ExactOpen \/ ExactRedirect \/ ExactBegin \/ ExactBody

Next ==
  \/ \E u \in Url : Call(u) \/ ObserveHost(u)
  \/ BoundDownload
  \/ ExactDownload
  \/ StoreSource

Spec == Init /\ [][Next]_vars

\* A download runs in one thread.  Every operation of the engine ends: the
\* resolver after MaxLookup, those on the network after BoundedTimeout.  Those
\* of urllib are not assumed to: its timeouts bound single reads, and a server
\* can keep the head of a response or the body of a redirect coming without end.
FairSpec == Spec /\ WF_vars(BoundDownload)

-----------------------------------------------------------------------------
(* Properties                                                              *)

\* The bytes of a file, a failure with a fixed code, or an exception.
Outcome ==
  [kind : {"bytes", "file_download_failed", "file_download_not_allowed",
           "file_too_large", "raised"}, size : 0..MaxBytes]

Connection ==
  [host : Hosts, hop : 0..MaxHops, address : Address \cup {None},
   addresses : Seq(Address)]

TypeOK ==
  /\ policy \in Policy \cup Configured
  /\ calls \in 0..MaxCalls
  /\ stored \in [size : 0..MaxBytes, at : Nat] \cup {None}
  /\ observed \in Hosts \cup {None}
  /\ phase \in {"idle", "start", "resolve", "judge", "connect", "handshake",
                "exchange", "response", "body", "exact_open", "exact_response",
                "exact_body", "done"}
  /\ url \in Url
  /\ hop \in 0..(MaxHops + 1)
  /\ now \in Nat
  /\ addresses \in Seq(Address)
  /\ lookup \in 0..MaxHops
  /\ open \in SUBSET Connection
  /\ response \in Responses \cup {None}
  /\ total \in 0..MaxBytes
  /\ result \in Outcome \cup {None}

\* The deadline holds over all hops together: under the bound engine only the
\* resolver ever runs past it, and once it has returned the download fails with
\* nothing connected and nothing delivered, so that no source is ever stored
\* that came after it.
DeadlineHolds ==
  policy # None /\ Bound =>
    /\ now > Overall =>
         /\ now <= Overall + MaxLookup
         /\ open = {}
         /\ phase \in {"judge", "done"}
         /\ phase = "done" => result.kind = "file_download_failed"
    /\ stored # None => stored.at <= Overall

\* A connection of the bound engine goes to the host of the present hop, which
\* the policy allows, at an address of the lookup made for this very hop, and
\* every address of that lookup was public, whatever an earlier hop was told.
ConnectsWhereJudged ==
  policy # None /\ Bound => \A c \in open :
    /\ c.host = url.host
    /\ policy.mode = "exact_host" => c.host \in policy.hosts
    /\ c.hop = hop /\ lookup = hop
    /\ c.addresses = addresses
    /\ c.address = addresses[1]
    /\ \A i \in DOMAIN c.addresses :
         LET a == c.addresses[i] IN
         /\ a.mapped = None => a.class \notin DeniedClass
         /\ a.mapped # None => a.mapped \notin DeniedClass

\* One connection at a time, over all hops, and what a download that is over
\* leaves to the garbage collector is only this: in the engine, a stream whose
\* deadline came between its connection and its handshake; on the exact-host
\* path, the response of an error or of a redirect that was not followed.  So a
\* response that was a file is closed, however its lengths were judged and its
\* reads ended, and in the engine so is every response.
ConnectionsAreClosed ==
  /\ Cardinality(open) <= 1
  /\ phase = "done" /\ open # {} =>
       /\ result.kind \in {"file_download_failed", "file_download_not_allowed"}
       /\ IF Bound
            THEN /\ now = Overall
                 /\ response = None
                 /\ result.kind = "file_download_failed"
            ELSE /\ response # None
                 /\ response.status \notin 200..299

\* Never more than the limit is kept or returned, whatever length was declared,
\* and a failure returns nothing.
SizeIsBounded ==
  /\ total <= MaxBytes
  /\ phase = "done" =>
       result.size = IF result.kind = "bytes" THEN total ELSE 0

\* A download of the engine ends, also on a server that redirects forever or
\* sends just enough, of the head of a response or of its body, to keep each
\* single operation from timing out.
DownloadEnds == phase = "start" /\ Bound ~> phase = "done"

=============================================================================
